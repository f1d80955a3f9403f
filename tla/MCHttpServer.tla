---------------------------- MODULE MCHttpServer ----------------------------
(* Two reports over a wrapped and a raw check, whose breaker opens at the  *)
(* first failure; every class of exception is thrown.                      *)
EXTENDS HttpServer, TLC

MCChecks == <<"ping", "raw">>
MCKind == [ping |-> "ping", raw |-> "raw"]
MCNames == {"database", "redis", "Database", "Redis", "demo-service", "ping", "raw"}

MCErrors ==
    {BusinessException("DEMO_BUSINESS_ERROR"), ResourceNotFoundException,
     ResourceConflictException, InvalidOperationException,
     DatabaseException, RedisException, ExternalServiceException("Redis", FALSE),
     ValidationException, FileValidationException, AuthenticationException,
     AuthorizationException, HttpException(400), HttpException(503),
     TypeOrm("QueryFailedError"), TypeOrm("EntityNotFoundError"), TypeOrm("TypeORMError"),
     PlainError(""), PlainError("ECONNREFUSED"), PlainError("EMFILE"), NotAnError}

MCLevels == {"error", "warn", "info"}

CONSTANTS p1, p2

MCDefault == [threshold |-> 2, recovery |-> 1]
MCRedis == [threshold |-> 1, recovery |-> 1]
MCCheck == [threshold |-> 1, recovery |-> 1]

Interchangeable == Permutations(Reports)
=============================================================================
