--------------------------- MODULE MergeAccessLog ---------------------------
(***************************************************************************)
(* The per-endpoint call counter of the merge-to REST handler             *)
(* (DocumentBroker.cpp: LogDB 1740-1865, MergeODF::handleMergeTo          *)
(* 3801-3967).                                                             *)
(* The server process handles merge requests one at a time: it forks, the *)
(* child forks again and exits, and the server waits only for that child. *)
(* The grandchild, detached, counts the call in the SQLite table           *)
(*     summary(api TEXT PRIMARY KEY, accessTimes INTEGER)                  *)
(* by a SELECT followed by an INSERT (no row) or an UPDATE ... + 1, and    *)
(* then merges.  Grandchildren of several requests run concurrently.      *)
(* The call-times query (responseAccessTime, in the server process) reads *)
(* the table through logdb and then deletes logdb, leaving the pointer:   *)
(* ~LogDB unregisters the SQLite connector in the server, and every child *)
(* forked afterwards inherits the freed object and the unregistered       *)
(* connector.  Writing through the freed pointer (setApi) is undefined;   *)
(* whatever it does, the Session that follows throws NotFoundException,   *)
(* which nothing in handleMergeTo or responseAccessTime catches.          *)
(***************************************************************************)
EXTENDS Integers, FiniteSets

CONSTANTS
    Requests,    \* merge-to requests, one grandchild each
    Apis,        \* endpoints (template names)
    MaxQueries   \* bound on call-times queries

NoRow == -1      \* the value `value' keeps when the SELECT finds no row

VARIABLES
    summary,      \* api -> accessTimes, or NoRow
    base,         \* the table as changeTable() left it at start-up
    api,          \* request -> its endpoint (input)
    pc,           \* request -> where its processes are
    readVal,      \* request -> what its SELECT returned
    server,       \* "up", or "exited" after _exit in the server
    logdb,        \* the server's logdb: "live", or "freed" by getApiCallTimes
    inherited,    \* request -> the logdb its grandchild got at fork, or "none"
    queries,      \* call-times queries made
    status0,      \* mergeStatus as every grandchild inherits it (never set)
    answer,       \* request -> the status line it got, or "none"
    files         \* request -> the temporary files it left behind

vars == <<summary, base, api, pc, readVal, server, logdb, inherited, queries,
         status0, answer, files>>
logVars == <<logdb, inherited, queries, status0>>
mergeVars == <<answer, files>>

Rows(v) == IF v = NoRow THEN 0 ELSE v

\* The requests of endpoint a whose grandchild got past updateAccessTimes.
CountedFor(a) == {r \in Requests : api[r] = a /\ pc[r] \in {"counted", "exited"}}

(* handleMergeTo in the server: fork; on failure answer 503 and _exit the *)
(* server itself.  The child's own fork failing answers 503 and ends the  *)
(* child; otherwise the child exits and the grandchild goes on.  The      *)
(* server's waitpid returns once the child is gone.                        *)
HandleMergeTo(r) ==
    /\ server = "up"
    /\ pc[r] = "new"
    /\ \/ /\ pc' = [pc EXCEPT ![r] = "forked"]
          /\ inherited' = [inherited EXCEPT ![r] = logdb]
          /\ UNCHANGED server
       \/ /\ pc' = [pc EXCEPT ![r] = "unavailable"]
          /\ UNCHANGED <<server, inherited>>
       \/ /\ pc' = [pc EXCEPT ![r] = "unavailable"]
          /\ server' = "exited"
          /\ UNCHANGED inherited
    /\ UNCHANGED <<summary, base, api, readVal, logdb, queries, status0>>
    /\ UNCHANGED mergeVars

(* Grandchild: logdb->setApi(endpoint), then updateAccessTimes' SELECT     *)
(* accessTimes FROM summary WHERE api=?.  With a freed logdb, setApi and  *)
(* the Session it opens use freed memory: undefined behaviour, so the     *)
(* grandchild either dies without an answer or reads as a live one does   *)
(* (the freed object still holds its fields and the connector stays      *)
(* registered).                                                            *)
ReadSummary(r) ==
    /\ readVal' = [readVal EXCEPT ![r] = summary[api[r]]]
    /\ pc' = [pc EXCEPT ![r] = "checked"]

CheckAccessTimes(r) ==
    /\ pc[r] = "forked"
    /\ \/ ReadSummary(r)
       \/ /\ inherited[r] = "freed"
          /\ pc' = [pc EXCEPT ![r] = "crashed"]
          /\ UNCHANGED readVal
    /\ UNCHANGED <<summary, base, api, server>> /\ UNCHANGED logVars
    /\ UNCHANGED mergeVars

(* Mutant: the UPDATE writes back the value read by the SELECT plus one.  *)
UpdateFromReadValue(r) ==
    /\ pc[r] = "checked"
    /\ IF readVal[r] = NoRow /\ summary[api[r]] # NoRow
         THEN /\ pc' = [pc EXCEPT ![r] = "crashed"]
              /\ UNCHANGED summary
         ELSE /\ summary' = [summary EXCEPT ![api[r]] = Rows(readVal[r]) + 1]
              /\ pc' = [pc EXCEPT ![r] = "counted"]
    /\ UNCHANGED <<base, api, readVal, server>> /\ UNCHANGED logVars
    /\ UNCHANGED mergeVars

(* Grandchild, second statement.  No row: INSERT INTO summary VALUES (?,1),*)
(* which throws on the key if another grandchild inserted since the       *)
(* SELECT; nothing catches it, the grandchild dies and the request gets no *)
(* answer.  A row: UPDATE summary SET accessTimes = accessTimes + 1, which *)
(* SQLite applies atomically to the current row.                           *)
UpdateAccessTimes(r) ==
    /\ pc[r] = "checked"
    /\ IF readVal[r] = NoRow
         THEN IF summary[api[r]] = NoRow
                THEN /\ summary' = [summary EXCEPT ![api[r]] = 1]
                     /\ pc' = [pc EXCEPT ![r] = "counted"]
                ELSE /\ pc' = [pc EXCEPT ![r] = "crashed"]
                     /\ UNCHANGED summary
         ELSE /\ summary' = [summary EXCEPT ![api[r]] = @ + 1]
              /\ pc' = [pc EXCEPT ![r] = "counted"]
    /\ UNCHANGED <<base, api, readVal, server>> /\ UNCHANGED logVars
    /\ UNCHANGED mergeVars

(* doMergeTo, for a template found or not, a body parsed, rejected as JSON *)
(* or throwing (a form parseArray2Form cannot take), and the filling of   *)
(* the template (setSingleVar, setGroupVar) succeeding or throwing.  It   *)
(* gives the exception, mergeStatus, whether zipback made a file, and the *)
(* files left: Parser(uri) extracts the template, and only the path that  *)
(* reaches `delete parser' removes that directory.                        *)
DoMergeTo(found, body, fill) ==
    IF ~found THEN [thrown |-> FALSE, status |-> "TEMPLATE_NOT_FOUND", zip |-> FALSE, files |-> {}]
    ELSE IF body = "badjson"
      THEN [thrown |-> FALSE, status |-> "JSON_PARSE_ERROR", zip |-> FALSE, files |-> {"extract"}]
    ELSE IF body = "throws" \/ fill = "throws"
      THEN [thrown |-> TRUE, status |-> status0, zip |-> FALSE, files |-> {"extract"}]
    ELSE [thrown |-> FALSE, status |-> status0, zip |-> TRUE, files |-> {"zip"}]

(* outputODF(zip2): LibreOfficeKit loads the merged file and saves a pdf   *)
(* beside it; any failure (init, a missing file, load, export) returns "". *)
OutputODF(m, lok) == m.zip /\ lok

Done(r, code, f) ==
    /\ pc' = [pc EXCEPT ![r] = "exited"]
    /\ answer' = [answer EXCEPT ![r] = code]
    /\ files' = [files EXCEPT ![r] = f]

(* Grandchild after counting: doMergeTo, then the answer by its outcome,  *)
(* and _exit.  An exception is 503 "merge error"; mergeStatus             *)
(* JSON_PARSE_ERROR is 401; otherwise the merged file is sent and removed, *)
(* or for a pdf target outputODF's pdf is sent and both files removed, an *)
(* empty result being 503.  TEMPLATE_NOT_FOUND is not tested: the empty   *)
(* path goes to HttpHelper::sendFile, which throws on a file it cannot    *)
(* stat, outside any try, so that grandchild dies unanswered.             *)
Merge(r) ==
    /\ pc[r] = "counted"
    /\ \E found, toPdf, lok \in BOOLEAN, body \in {"parsed", "badjson", "throws"},
          fill \in {"ok", "throws"} :
         LET m == DoMergeTo(found, body, fill) IN
         \/ m.thrown /\ Done(r, "503", m.files)
         \/ ~m.thrown /\ m.status = "JSON_PARSE_ERROR" /\ Done(r, "401", m.files)
         \/ /\ ~m.thrown /\ m.status # "JSON_PARSE_ERROR" /\ ~toPdf
            /\ IF m.zip THEN Done(r, "200", {}) ELSE Done(r, "none", m.files)
         \/ /\ ~m.thrown /\ m.status # "JSON_PARSE_ERROR" /\ toPdf
            /\ IF OutputODF(m, lok) THEN Done(r, "200", {})
               ELSE Done(r, "503", m.files)
    /\ UNCHANGED <<summary, base, api, readVal, server>> /\ UNCHANGED logVars

(* getApiCallTimes on a live logdb: setApi, getAccessTimes (a read of the *)
(* table), delete logdb.                                                   *)
GetApiCallTimes(a) ==
    /\ logdb = "live"
    /\ logdb' = "freed"

(* responseAccessTime(endpoint) in the server: getApiCallTimes, then the  *)
(* 200 answer.  On a freed logdb, setApi writes freed memory and the      *)
(* Session of getAccessTimes throws before the second delete; the caller  *)
(* is outside this file, so the server goes on or ends.                   *)
ResponseAccessTime(a) ==
    /\ server = "up"
    /\ queries < MaxQueries
    /\ queries' = queries + 1
    /\ \/ GetApiCallTimes(a) /\ UNCHANGED server
       \/ /\ logdb = "freed"
          /\ server' \in {"up", "exited"}
          /\ UNCHANGED logdb
    /\ UNCHANGED <<summary, base, api, pc, readVal, inherited, status0>>
    /\ UNCHANGED mergeVars

Init ==
    /\ summary \in [Apis -> {NoRow, 0, 1}]
    /\ base = summary
    /\ api \in [Requests -> Apis]
    /\ pc = [r \in Requests |-> "new"]
    /\ readVal = [r \in Requests |-> NoRow]
    /\ server = "up"
    /\ logdb = "live"
    /\ inherited = [r \in Requests |-> "none"]
    /\ queries = 0
    /\ status0 \in {"other", "JSON_PARSE_ERROR"}   \* MergeODF() {} leaves it indeterminate
    /\ answer = [r \in Requests |-> "none"]
    /\ files = [r \in Requests |-> {}]

Finished ==
    /\ \A r \in Requests : pc[r] \in {"new", "unavailable", "exited", "crashed"}
    /\ server = "exited" \/ \A r \in Requests : pc[r] # "new"

Next ==
    \/ \E r \in Requests :
          \/ HandleMergeTo(r) \/ CheckAccessTimes(r)
          \/ UpdateAccessTimes(r) \/ Merge(r)
    \/ \E a \in Apis : ResponseAccessTime(a)
    \/ Finished /\ UNCHANGED vars

Spec == Init /\ [][Next]_vars

-----------------------------------------------------------------------------
(* Properties                                                              *)


(* No increment is lost between concurrent grandchildren: the count of an *)
(* endpoint is what changeTable() left plus one per grandchild that got   *)
(* past updateAccessTimes, whatever order their SELECTs and writes took.  *)
NoLostIncrement ==
    \A a \in Apis : Rows(summary[a]) = Rows(base[a]) + Cardinality(CountedFor(a))

(* Every merge request whose grandchild was started is counted: the      *)
(* `get api called times' answer counts the calls made.                   *)
EveryMergeCounted == \A r \in Requests : pc[r] # "crashed"

=============================================================================
