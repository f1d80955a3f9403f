--------------------------- MODULE LoggingService ---------------------------
(***************************************************************************)
(* LoggingService and the file transports it logs to.  An entry is written *)
(* to every file that accepts its level; a query reads whole files back,   *)
(* filters, sorts and cuts a page.  Other code logs to the same files by   *)
(* way of Nest's logger, at any level.                                     *)
(*                                                                         *)
(* Left out: the search words, the wording of entries, and the buffering   *)
(* of the transports: a line is in its files as soon as it is logged.      *)
(***************************************************************************)
EXTENDS Integers, Sequences, FiniteSets, Clock

CONSTANTS Levels,       \* the levels that LOG_LEVEL lets through
          Anything,     \* a filter that is not given
          DefaultLimit, \* the page of a query that names none, 100
          StatsLimit    \* the page that getLogStats asks for, 10000

ASSUME QueryAssumption ==
    /\ {"error", "warn", "info"} \subseteq Levels
    /\ DefaultLimit \in Nat /\ StatsLimit \in Nat
    /\ Anything \notin {"error", "http", "performance"}

VARIABLE logged    \* Seq(LogEntry), in the order of the calls

(* The names given as modules: two in logHttpRequest and logPerformance, the*)
(* contexts of the logging interceptor and the exception filter, the one in *)
(* main.ts, and two where this service logs its own errors.  Nest's logger  *)
(* gives none.                                                              *)
Modules == {"HTTP", "HTTP Request", "GlobalExceptionFilter", "Performance", "Bootstrap",
            "LoggingService.queryLogs", "LoggingService.getLogStats", "none"}

(* request is the number of the HTTP request the entry is about, or 0.     *)
LogEntry == [level : Levels, module : Modules, request : Nat, timestamp : Nat]

EntryOf(level, module, request) ==
    [level |-> level, module |-> module, request |-> request, timestamp |-> now]

LogHttpRequest(request) == EntryOf("info", "HTTP", request)

LogError(context, request) == EntryOf("error", context, request)

LogPerformance(request) == EntryOf("info", "Performance", request)

Log(level, module, request) == EntryOf(level, module, request)

-----------------------------------------------------------------------------
(* logger.config: only error.log has a level of its own. *)
Accepts(file, e) == file = "error.log" => e.level = "error"

GetLogFilesAll(level) ==    \* mistake: every file there is
    <<"app.log", "error.log", "http.log", "performance.log">>

GetLogFiles(level) ==
    CASE level = "error" -> <<"error.log">>
      [] level = "http" -> <<"http.log">>
      [] level = "performance" -> <<"performance.log">>
      [] OTHER -> <<"app.log", "http.log", "performance.log">>

(* The format moves every field but the message, the level and the         *)
(* timestamp below "metadata": no line has a module where queries look.    *)
StoredModule(e) == Anything

Matches(e, q) ==
    /\ q.level # Anything => e.level = q.level
    /\ q.module # Anything => StoredModule(e) = q.module
    /\ e.timestamp \in q.startDate .. q.endDate

(* What a query reads is rows: <<k, n>> is the line for logged[n] in the   *)
(* kth of its files. *)
Rows(q) ==
    LET files == GetLogFiles(q.level) IN
    {x \in (DOMAIN files) \X (DOMAIN logged) :
        Accepts(files[x[1]], logged[x[2]]) /\ Matches(logged[x[2]], q)}

(* Newest first; sort is stable, so entries of one millisecond keep the    *)
(* order of the files, and in a file that of the lines. *)
SortedBefore(x, y) ==
    LET s == logged[x[2]].timestamp
        t == logged[y[2]].timestamp
    IN  s > t \/ (s = t /\ (x[1] < y[1] \/ (x[1] = y[1] /\ x[2] < y[2])))

Position(x, rows) == Cardinality({y \in rows : SortedBefore(y, x)})

QueryLogs(q) ==
    LET rows == Rows(q) IN
    {x \in rows : Position(x, rows) \in q.offset .. q.offset + q.limit - 1}

(* A file that cannot be read: the query is empty, and logged as an error. *)
QueryFailed == LogError("LoggingService.queryLogs", 0)

Query(level, limit, offset) ==
    [level |-> level, module |-> Anything, startDate |-> 0, endDate |-> now,
     limit |-> limit, offset |-> offset]

CountOf(rows, level) == Cardinality({x \in rows : logged[x[2]].level = level})

Statistics(logs) ==
    [totalLogs |-> Cardinality(logs), errorCount |-> CountOf(logs, "error"),
     warningCount |-> CountOf(logs, "warn"), infoCount |-> CountOf(logs, "info")]

GetLogStats == Statistics(QueryLogs(Query(Anything, StatsLimit, 0)))

(* When it fails, it answers with the statistics of no logs. *)
StatsFailed == LogError("LoggingService.getLogStats", 0)
=============================================================================
