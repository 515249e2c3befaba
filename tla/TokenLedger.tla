---------------------------- MODULE TokenLedger ----------------------------
(***************************************************************************)
(* The WOPI access-token ledger of DocumentBroker::load (DocumentBroker.cpp *)
(* 453-479 and 536-557).  Each session's load runs on the poll thread of   *)
(* the broker of its document; loads of different documents run on        *)
(* different threads and share one SQLite table                            *)
(*     tokens(token TEXT PRIMARY KEY, expires INTEGER).                     *)
(* tokenUsed() is two statements on its own connection: a SELECT COUNT  *)
(* and, when the count was 0, an INSERT.  Another broker's thread may run  *)
(* between them; an INSERT of a key already present throws, and the        *)
(* exception leaves load() and addSessionInternal(), so the session is not *)
(* added.  load() calls tokenUsed() before it looks at the docpass flag.    *)
(***************************************************************************)
EXTENDS Naturals, FiniteSets

CONSTANTS
    Sessions,       \* client sessions, one load() each
    Brokers,        \* documents, i.e. broker poll threads
    Tokens,         \* access tokens presented by the sessions
    BrokerOf,       \* the broker a session is added to
    FileInfoCanFail \* CheckFileInfo may throw after the ledger step

ASSUME BrokerOf \in [Sessions -> Brokers]

VARIABLES
    ledger,   \* token -> number of rows with that token
    pc,       \* where each session's load() is
    seen,     \* the COUNT the SELECT of a session returned
    token,    \* session -> its access_token (input)
    docpass   \* session -> docpass=yes in its URI (input)

vars == <<ledger, pc, seen, token, docpass>>

Outcomes == {"admitted", "refused", "error", "failed"}

(* The thread of a broker is inside tokenUsed() for one of its sessions:  *)
(* its other sessions wait for the next poll iteration.                    *)
Busy(b) == \E o \in Sessions : BrokerOf[o] = b /\ pc[o] = "selected"

(* The rest of load() after the ledger decision: getWOPIFileInfo may      *)
(* throw (StorageConnectionException or an HTTP error), otherwise the     *)
(* session is added by addSessionInternal.                                 *)
FileInfo(s) ==
    \/ pc' = [pc EXCEPT ![s] = "admitted"]
    \/ FileInfoCanFail /\ pc' = [pc EXCEPT ![s] = "failed"]

(* tokenUsed, first statement: SELECT COUNT FROM tokens WHERE token=?.  *)
(* A count above 0 returns false at once; load() then throws unless the    *)
(* URI carries docpass=yes.                                                 *)
Select(s) ==
    /\ pc[s] = "idle"
    /\ ~Busy(BrokerOf[s])
    /\ seen' = [seen EXCEPT ![s] = ledger[token[s]]]
    /\ IF ledger[token[s]] > 0
         THEN IF docpass[s] THEN FileInfo(s)
                            ELSE pc' = [pc EXCEPT ![s] = "refused"]
         ELSE pc' = [pc EXCEPT ![s] = "selected"]
    /\ UNCHANGED <<ledger, token, docpass>>

(* Mutant: a table without the PRIMARY KEY accepts a second row.         *)
InsertWithoutKey(s) ==
    /\ pc[s] = "selected"
    /\ ledger' = [ledger EXCEPT ![token[s]] = @ + 1]
    /\ FileInfo(s)
    /\ UNCHANGED <<seen, token, docpass>>

(* Mutant: INSERT OR REPLACE, which never meets the key constraint.       *)
InsertOrReplace(s) ==
    /\ pc[s] = "selected"
    /\ ledger' = [ledger EXCEPT ![token[s]] = 1]
    /\ FileInfo(s)
    /\ UNCHANGED <<seen, token, docpass>>

(* tokenUsed, second statement: INSERT INTO tokens, executed with `now'.   *)
(* The PRIMARY KEY makes a second row for the token a constraint error,   *)
(* which propagates out of load() whatever docpass says.                  *)
Insert(s) ==
    /\ pc[s] = "selected"
    /\ IF ledger[token[s]] > 0
         THEN /\ pc' = [pc EXCEPT ![s] = "error"]
              /\ UNCHANGED ledger
         ELSE /\ ledger' = [ledger EXCEPT ![token[s]] = 1]
              /\ FileInfo(s)
    /\ UNCHANGED <<seen, token, docpass>>

Init ==
    /\ ledger = [t \in Tokens |-> 0]
    /\ pc = [s \in Sessions |-> "idle"]
    /\ seen = [s \in Sessions |-> 0]
    /\ token \in [Sessions -> Tokens]
    /\ docpass \in [Sessions -> BOOLEAN]

Done == \A s \in Sessions : pc[s] \in Outcomes

Next ==
    \/ \E s \in Sessions : Select(s) \/ Insert(s)
    \/ Done /\ UNCHANGED vars

Spec == Init /\ [][Next]_vars /\ \A s \in Sessions : WF_vars(Select(s) \/ Insert(s))

-----------------------------------------------------------------------------
(* Properties                                                              *)

(* The tokens table keeps at most one row per token (its PRIMARY KEY), so  *)
(* the COUNT of tokenUsed is 0 or 1.                                     *)
TypeOK ==
    /\ ledger \in [Tokens -> 0..1]
    /\ pc \in [Sessions -> {"idle", "selected"} \cup Outcomes]
    /\ seen \in [Sessions -> 0..1]
    /\ token \in [Sessions -> Tokens]
    /\ docpass \in [Sessions -> BOOLEAN]

(* Replay protection (spec 4.5, scenario 5): across all brokers, a token   *)
(* admits at most one session that did not carry docpass=yes, even when   *)
(* two brokers' threads interleave their SELECT and INSERT.                *)
CheckedTokenAdmitsOnce ==
    \A t \in Tokens :
        Cardinality({s \in Sessions : token[s] = t /\ ~docpass[s]
                                      /\ pc[s] = "admitted"}) <= 1

(* Spec 4.5: a request flagged docpass=yes is not refused because its     *)
(* token is in the ledger; its load ends only by CheckFileInfo.            *)
DocpassNeverRefusedByLedger ==
    \A s \in Sessions : docpass[s] => pc[s] \notin {"refused", "error"}

=============================================================================
