----------------------------- MODULE Exceptions -----------------------------
(***************************************************************************)
(* What can be thrown, and GlobalExceptionFilter's choice of an answer.    *)
(* An exception is a record: its class (for instanceof), the status and    *)
(* the code its response carries, and, where the filter looks at them, the *)
(* service it names, whether it is temporary, and what its message says.   *)
(* Left out: the wording of messages, details and context.                 *)
(***************************************************************************)
EXTENDS Integers

Thrown(class, status, code) ==
    [class |-> class, status |-> status, code |-> code,
     service |-> "", isTemporary |-> FALSE, says |-> ""]

-----------------------------------------------------------------------------
(* business.exception.ts *)
BusinessException(code) ==
    Thrown("BusinessException", 400, IF code = "" THEN "BUSINESS_ERROR" ELSE code)

ResourceNotFoundException == Thrown("ResourceNotFoundException", 404, "RESOURCE_NOT_FOUND")

ResourceConflictException == Thrown("ResourceConflictException", 409, "RESOURCE_CONFLICT")

InvalidOperationException == Thrown("InvalidOperationException", 400, "INVALID_OPERATION")

(* external-service.exception.ts: the subclasses differ in their service. *)
ExternalServiceException(service, isTemporary) ==
    [Thrown("ExternalServiceException", IF isTemporary THEN 503 ELSE 502,
            "EXTERNAL_SERVICE_ERROR")
        EXCEPT !.service = service, !.isTemporary = isTemporary]

DatabaseException == ExternalServiceException("Database", TRUE)

RedisExceptionOfItsBreaker ==    \* mistake: named as the breaker of the routes
    ExternalServiceException("redis", TRUE)

RedisException == ExternalServiceException("Redis", TRUE)

RabbitMQException == ExternalServiceException("RabbitMQ", TRUE)

GrpcServiceException(itsName) == ExternalServiceException(itsName, TRUE)    \* gRPC-<service>

(* validation.exception.ts *)
ValidationException == Thrown("ValidationException", 400, "VALIDATION_ERROR")

FileValidationException == Thrown("FileValidationException", 400, "FILE_VALIDATION_ERROR")

AuthenticationException == Thrown("AuthenticationException", 401, "AUTHENTICATION_ERROR")

AuthorizationException == Thrown("AuthorizationException", 403, "AUTHORIZATION_ERROR")

(* What libraries throw: NestJS's own exceptions, TypeORM's errors, Errors  *)
(* (with the code of a failed system call in the message), anything else.   *)
HttpException(status) == Thrown("HttpException", status, "")

TypeOrm(class) == Thrown(class, 0, "")

PlainError(says) == [Thrown("Error", 0, "") EXCEPT !.says = says]

NotAnError == Thrown("string", 0, "")

TypeOrmErrors == {"QueryFailedError", "EntityNotFoundError", "TypeORMError"}

(* The statuses that the constructors give. *)
Throwable(e) ==
    /\ e.status \in Nat /\ e.isTemporary \in BOOLEAN
    /\ e.class = "ExternalServiceException" => e.status = IF e.isTemporary THEN 503 ELSE 502
    /\ e.class \in {"BusinessException", "ResourceNotFoundException",
                    "ResourceConflictException", "InvalidOperationException",
                    "ValidationException", "FileValidationException",
                    "AuthenticationException", "AuthorizationException"} =>
          e.status \in 400 .. 499
    /\ e.class = "HttpException" => e.status \in 400 .. 599

-----------------------------------------------------------------------------
(* The filter.  What a handler of the filter returns: *)
ErrorInfo(status, code, isRetryable) ==
    [status |-> status, code |-> code, isRetryable |-> isRetryable]

(* The codes that the filter has itself; "" is that of no exception. *)
Codes == {"", "BUSINESS_ERROR", "EXTERNAL_SERVICE_ERROR", "VALIDATION_ERROR", "AUTH_ERROR",
          "DATABASE_QUERY_FAILED", "ENTITY_NOT_FOUND", "DATABASE_ERROR", "HTTP_EXCEPTION",
          "CONNECTION_ERROR", "RESOURCE_EXHAUSTED", "SYSTEM_ERROR", "UNKNOWN_ERROR"}

OrElse(code, default) == IF code = "" THEN default ELSE code

HandleBusinessException(e) == ErrorInfo(e.status, OrElse(e.code, "BUSINESS_ERROR"), FALSE)

HandleExternalServiceException(e) ==
    ErrorInfo(e.status, OrElse(e.code, "EXTERNAL_SERVICE_ERROR"), e.isTemporary)

HandleValidationException(e) == ErrorInfo(e.status, OrElse(e.code, "VALIDATION_ERROR"), FALSE)

HandleAuthException(e) == ErrorInfo(e.status, OrElse(e.code, "AUTH_ERROR"), FALSE)

HandleTypeORMException(e) ==
    CASE e.class = "QueryFailedError" -> ErrorInfo(400, "DATABASE_QUERY_FAILED", FALSE)
      [] e.class = "EntityNotFoundError" -> ErrorInfo(404, "ENTITY_NOT_FOUND", FALSE)
      [] OTHER -> ErrorInfo(500, "DATABASE_ERROR", TRUE)

HandleHttpExceptionEagerly(e) ==    \* mistake: 4xx may be tried again too
    ErrorInfo(e.status, "HTTP_EXCEPTION", e.status >= 400)

HandleHttpException(e) == ErrorInfo(e.status, "HTTP_EXCEPTION", e.status >= 500)

HandleSystemError(e) ==
    CASE e.says \in {"ECONNREFUSED", "ETIMEDOUT", "ENOTFOUND"} ->
            ErrorInfo(503, "CONNECTION_ERROR", TRUE)
      [] e.says \in {"EMFILE", "ENFILE"} -> ErrorInfo(503, "RESOURCE_EXHAUSTED", TRUE)
      [] OTHER -> ErrorInfo(500, "SYSTEM_ERROR", FALSE)

HandleUnknownException == ErrorInfo(500, "UNKNOWN_ERROR", FALSE)

ProcessException(e) ==
    CASE e.class \in {"BusinessException", "ResourceNotFoundException",
                      "ResourceConflictException", "InvalidOperationException"} ->
            HandleBusinessException(e)
      [] e.class = "ExternalServiceException" -> HandleExternalServiceException(e)
      [] e.class \in {"ValidationException", "FileValidationException"} ->
            HandleValidationException(e)
      [] e.class \in {"AuthenticationException", "AuthorizationException"} ->
            HandleAuthException(e)
      [] e.class \in TypeOrmErrors -> HandleTypeORMException(e)
      [] e.class = "HttpException" -> HandleHttpException(e)
      [] e.class = "Error" -> HandleSystemError(e)
      [] OTHER -> HandleUnknownException
=============================================================================
