--------------------------- MODULE DocumentBroker ---------------------------
(***************************************************************************)
(* One DocumentBroker (wsd/DocumentBroker.cpp): the per-document event    *)
(* loop that owns the kit child process, the map of client sessions, the  *)
(* storage binding and the save protocol.                                  *)
(*                                                                         *)
(* The broker thread is modelled as atomic handler steps: every step is   *)
(* one callback, one socket event or one iteration of the timer part of   *)
(* pollThread, run to completion as the code runs it on its single       *)
(* thread.  The kit is the environment: a FIFO socket toKit carries the   *)
(* broker's commands, a FIFO socket fromKit carries its answers.  Clients *)
(* are the environment too: they join, edit, save and disconnect.         *)
(*                                                                         *)
(* Data is abstracted to versions: kitVer counts the edits the kit has    *)
(* applied, fileVer is the version the kit last wrote to the jailed file, *)
(* fileStamp is that file's mtime (one tick per write) and storedVer is   *)
(* the version the storage holds.                                          *)
(***************************************************************************)
EXTENDS Naturals, FiniteSets, Sequences, SequencesExt

CONSTANTS
    Sessions,        \* session ids; numbers, as _sessions is a std::map ordered by id
    Writers,         \* sessions whose storage file info says UserCanWrite
    Owners,          \* sessions whose user is the document owner
    MaxEdits,        \* bound on the edits clients send
    MaxClientSaves,  \* bound on explicit "save" commands clients send
    LoadCanFail,     \* load() may refuse a session (used token, bad file info, disk full)
    StorageCanFail,  \* an upload may answer DISKFULL, UNAUTHORIZED or FAILED
    KitSaveCanFail,  \* the kit may answer a save with success=false (not "unmodified")
    KitCanCrash,     \* the kit process may die
    SlowKit,         \* the kit may answer a save later than COMMAND_TIMEOUT_MS
    OutsideStop      \* another thread may call stop(), a callback closeDocument()

ASSUME /\ Sessions \subseteq Nat \ {0} /\ Sessions # {}
       /\ Writers \subseteq Sessions /\ Owners \subseteq Sessions
       /\ MaxEdits \in Nat /\ MaxClientSaves \in Nat
       /\ \A b \in {LoadCanFail, StorageCanFail, KitSaveCanFail, KitCanCrash, SlowKit,
                  OutsideStop} :
            b \in BOOLEAN

\* A Poco::Timestamp of the epoch: what sendUnoSave stores in _lastFileModifiedTime.
Zero == 0
MaxStamp == MaxEdits + 1

VARIABLES
    phase,          \* pollThread: "spawning", "polling", "flushing", "done"
    child,          \* _childProcess: "none", "alive", "dead" (crashed, socket not yet
                    \* closed), "gone" (childSocketTerminated ran), "closed"
    sessions,       \* the keys of _sessions
    joined,         \* the session ids the acceptor has already handed to the broker
    readOnly,       \* ClientSession::isReadOnly
    viewLoaded,     \* ClientSession::isViewLoaded
    closing,        \* ClientSession::isCloseFrame: the client has disconnected
    downloaded,     \* _storage->isLoaded(): the file is in the jail, _tileCache exists
    isLoaded,       \* _isLoaded
    isModified,     \* _isModified (and _tileCache's unsaved-changes flag, set with it)
    markToDestroy,  \* _markToDestroy
    lastEditable,   \* _lastEditableSession
    stop,           \* _stop
    saving,         \* _lastSaveTime < _lastSaveRequestTime: "idle", "pending", or
                    \* "expired" (more than COMMAND_TIMEOUT_MS since the request)
    lastFileMod,    \* _lastFileModifiedTime, as a file stamp or Zero
    shutdownFlag,   \* ShutdownRequestFlag
    toKit,          \* broker -> kit socket
    fromKit,        \* kit -> broker socket
    kitModified,    \* the kit's document has unsaved changes
    kitVer, fileVer, fileStamp, storedVer,
    sentEdits,      \* history: edits clients have sent
    clientSaves,    \* history: explicit saves clients have sent
    failed,         \* history: a storage, kit-save or kit-process failure happened
    idleFired,      \* history: the idle timeout stopped the broker
    stopCalled      \* history: stop() or closeDocument() was called

brokerVars == <<phase, child, sessions, readOnly, viewLoaded, closing, downloaded,
                isLoaded, isModified, markToDestroy, lastEditable, stop, saving,
                lastFileMod>>
kitVars == <<kitModified, kitVer, fileVer, fileStamp>>
envVars == <<joined, shutdownFlag, sentEdits, clientSaves, failed, idleFired, stopCalled>>
vars == <<brokerVars, kitVars, envVars, toKit, fromKit, storedVer>>

-----------------------------------------------------------------------------
(* Messages on the two sockets.                                             *)

ToKitMsg == [type : {"session", "edit", "save", "disconnect"}, sid : Sessions]
FromKitMsg == [type : {"status"}, sid : Sessions]
              \cup [type : {"modified"}, val : BOOLEAN]
              \cup [type : {"saveresult"}, sid : Sessions, success : BOOLEAN,
                    result : {"", "unmodified", "failed"}]
Msg(t, s) == [type |-> t, sid |-> s]

\* ChildProcess::sendTextFrame: a frame to a dead kit is lost.
SendToKit(q, m) == IF child = "alive" THEN Append(q, m) ELSE q

\* A save request or answer still on its way between broker and kit.
OutstandingSaves ==
    Cardinality({i \in DOMAIN toKit : toKit[i].type = "save"})
    + Cardinality({i \in DOMAIN fromKit : fromKit[i].type = "saveresult"})

-----------------------------------------------------------------------------
(* The part of the broker that removeSession touches, as a record, so that *)
(* shutdownClients can fold removeSession over the sessions in map order.  *)

BrokerRec == [sessions |-> sessions, lastEditable |-> lastEditable,
              markToDestroy |-> markToDestroy, toKit |-> toKit,
              saving |-> saving, lastFileMod |-> lastFileMod]

\* autoSave: the session a save is attributed to: the first (lowest id)
\* document owner, or else the first session.
SavingSession(S) == IF S \cap Owners # {} THEN Min(S \cap Owners) ELSE Min(S)

\* sendUnoSave: invalidate the file timestamp, forward the save, stamp the request.
SendUnoSave(r, sid) ==
    IF sid \in r.sessions
    THEN [r EXCEPT !.lastFileMod = Zero,
                   !.toKit = SendToKit(r.toKit, Msg("save", sid)),
                   !.saving = "pending"]
    ELSE r

\* Mutant: autoSave without the _isLoaded test.
AutoSaveBeforeLoaded(r) ==
    IF r.sessions = {} \/ ~downloaded \/ child # "alive"
    THEN [sent |-> FALSE, r |-> r]
    ELSE [sent |-> TRUE, r |-> SendUnoSave(r, SavingSession(r.sessions))]

\* autoSave(true), the only form this file calls: whether a save was sent,
\* and the broker after it.
AutoSave(r) ==
    IF r.sessions = {} \/ ~downloaded \/ ~isLoaded \/ child # "alive"
    THEN [sent |-> FALSE, r |-> r]
    ELSE [sent |-> TRUE, r |-> SendUnoSave(r, SavingSession(r.sessions))]

\* Mutant: destroyIfLastEditor counting the departing session off by one.
DestroyIfLastEditorOffByOne(r, id) ==
    IF id \notin r.sessions THEN r
    ELSE [r EXCEPT
            !.lastEditable = ~readOnly[id] /\
                             ~\E o \in r.sessions \ {id} : viewLoaded[o] /\ ~readOnly[o],
            !.markToDestroy = Cardinality(r.sessions) <= 2]

\* destroyIfLastEditor
DestroyIfLastEditor(r, id) ==
    IF id \notin r.sessions THEN r
    ELSE [r EXCEPT
            !.lastEditable = ~readOnly[id] /\
                             ~\E o \in r.sessions \ {id} : viewLoaded[o] /\ ~readOnly[o],
            !.markToDestroy = Cardinality(r.sessions) <= 1]

\* removeSessionInternal
RemoveSessionInternal(r, id) ==
    IF id \in r.sessions
    THEN [r EXCEPT !.sessions = @ \ {id},
                   !.toKit = SendToKit(@, Msg("disconnect", id))]
    ELSE r

\* removeSession(id, true): the removal waits for the forced save when the
\* departing session is the last editor and the save could be sent.
RemoveSession(r, id) ==
    LET r1 == DestroyIfLastEditor(r, id)
        a  == AutoSave(r1)
    IN IF r1.lastEditable /\ a.sent THEN a.r ELSE RemoveSessionInternal(r1, id)

\* shutdownClients: removeSession(id, true) over a snapshot of the map.
ShutdownClients(r) ==
    FoldLeft(RemoveSession, r, SetToSortSeq(r.sessions, <))

SetBroker(r) ==
    /\ sessions' = r.sessions
    /\ lastEditable' = r.lastEditable
    /\ markToDestroy' = r.markToDestroy
    /\ toKit' = r.toKit
    /\ saving' = r.saving
    /\ lastFileMod' = r.lastFileMod

-----------------------------------------------------------------------------
(* pollThread                                                              *)

\* A kit is obtained from the pool and attached to this broker.
SpawnChild ==
    /\ phase = "spawning"
    /\ phase' = "polling"
    /\ child' = "alive"
    /\ UNCHANGED <<sessions, readOnly, viewLoaded, closing, downloaded, isLoaded,
                   isModified, markToDestroy, lastEditable, stop, saving, lastFileMod,
                   kitVars, envVars, toKit, fromKit, storedVer>>

\* No kit within 5 * COMMAND_TIMEOUT_MS (or shutdown): the thread just returns.
SpawnFailed ==
    /\ phase = "spawning"
    /\ phase' = "done"
    /\ stop' = TRUE
    /\ UNCHANGED <<child, sessions, readOnly, viewLoaded, closing, downloaded, isLoaded,
                   isModified, markToDestroy, lastEditable, saving, lastFileMod,
                   kitVars, envVars, toKit, fromKit, storedVer>>

\* The timer part of one iteration of the main loop, after poll() returned.
\* due: the autosave interval has elapsed; idle: no activity for an hour.
LoopIteration(due, idle) ==
    /\ phase = "polling"
    /\ ~stop
    /\ saving # "pending"          \* "We are saving, nothing more to do but wait."
    /\ LET a  == AutoSave(BrokerRec)
           r  == IF ~shutdownFlag /\ due THEN a.r ELSE BrokerRec
       IN /\ SetBroker(r)
          /\ stop' = (shutdownFlag \/ ((isLoaded \/ r.markToDestroy)
                                        /\ (r.sessions = {} \/ idle)))
    /\ UNCHANGED <<phase, child, readOnly, viewLoaded, closing, downloaded, isLoaded,
                   isModified, kitVars, joined, shutdownFlag, sentEdits, clientSaves,
                   failed, stopCalled, fromKit, storedVer>>

\* An iteration in which the autosave interval has not elapsed does what a
\* tick does when autoSave finds nothing to save, or nothing at all, so the
\* tick stands for both.
AutoSaveTick == LoopIteration(TRUE, FALSE) /\ UNCHANGED idleFired
IdleTimeout  == LoopIteration(FALSE, TRUE) /\ idleFired' = (idleFired \/ stop')

\* The loop condition sees _stop: leave the loop and flush the sockets.
LoopExit ==
    /\ phase = "polling"
    /\ stop
    /\ phase' = "flushing"
    /\ UNCHANGED <<child, sessions, readOnly, viewLoaded, closing, downloaded, isLoaded,
                   isModified, markToDestroy, lastEditable, stop, saving, lastFileMod,
                   kitVars, envVars, toKit, fromKit, storedVer>>

\* The flush timeout ends; terminateChild(closeReason, false) shuts every
\* client down, stops and closes the kit.
FlushDone ==
    /\ phase = "flushing"
    /\ SetBroker(ShutdownClients(BrokerRec))
    /\ phase' = "done"
    /\ child' = IF child = "none" THEN "none" ELSE "closed"
    /\ stop' = TRUE
    /\ UNCHANGED <<readOnly, viewLoaded, closing, downloaded, isLoaded, isModified,
                   kitVars, envVars, fromKit, storedVer>>

Serving == phase \in {"polling", "flushing"}

-----------------------------------------------------------------------------
(* Sessions: addSession / load, and client requests.                        *)

\* What load does for a session it accepts: a user without UserCanWrite is
\* read-only; the first load downloads the file into the jail and takes
\* the local file's mtime.  The refusals (marked to destroy, used token,
\* invalid file info, no storage) are the ok = FALSE case of AddSession.
Load(s) ==
    /\ readOnly' = [readOnly EXCEPT ![s] = (s \notin Writers)]
    /\ downloaded' = TRUE
    /\ lastFileMod' = IF downloaded THEN lastFileMod ELSE fileStamp

\* addSession -> addSessionInternal -> load.  ok: the storage accepts the
\* session (token, file info, download); a refusal or exception leaves the
\* session out and marks an empty broker to destroy.
AddSession(s, ok) ==
    /\ Serving
    /\ child # "none"
    /\ s \notin joined
    /\ joined' = joined \cup {s}
    /\ IF ok /\ ~markToDestroy
       THEN /\ sessions' = sessions \cup {s}
            /\ Load(s)
            /\ lastEditable' = FALSE
            /\ markToDestroy' = FALSE
            /\ stop' = FALSE
            /\ toKit' = SendToKit(toKit, Msg("session", s))
       ELSE /\ markToDestroy' = (markToDestroy \/ sessions = {})
            /\ UNCHANGED <<sessions, readOnly, downloaded, lastFileMod, lastEditable,
                           stop, toKit>>
    /\ UNCHANGED <<phase, child, viewLoaded, closing, isLoaded, isModified, saving,
                   kitVars, shutdownFlag, sentEdits, clientSaves, failed, idleFired, stopCalled,
                   fromKit, storedVer>>

\* forwardToChild of an editing command.
ClientEdit(s) ==
    /\ Serving
    /\ s \in sessions /\ viewLoaded[s] /\ ~readOnly[s] /\ ~closing[s]
    /\ child = "alive"
    /\ sentEdits < MaxEdits
    /\ toKit' = Append(toKit, Msg("edit", s))
    /\ sentEdits' = sentEdits + 1
    /\ UNCHANGED <<brokerVars, kitVars, joined, shutdownFlag, clientSaves, failed,
                   idleFired, stopCalled, fromKit, storedVer>>

\* The client's "save" command: sendUnoSave for its own session.
ClientSave(s) ==
    /\ Serving
    /\ s \in sessions /\ viewLoaded[s] /\ ~closing[s]
    /\ clientSaves < MaxClientSaves
    /\ LET r == SendUnoSave(BrokerRec, s)
       IN /\ toKit' = r.toKit
          /\ saving' = r.saving
          /\ lastFileMod' = r.lastFileMod
    /\ clientSaves' = clientSaves + 1
    /\ UNCHANGED <<phase, child, sessions, readOnly, viewLoaded, closing, downloaded,
                   isLoaded, isModified, markToDestroy, lastEditable, stop, kitVars,
                   joined, shutdownFlag, sentEdits, failed, idleFired, stopCalled, fromKit,
                   storedVer>>

\* The client closes its socket: removeSession(id, true).
Disconnect(s) ==
    /\ Serving
    /\ s \in sessions /\ ~closing[s]
    /\ closing' = [closing EXCEPT ![s] = TRUE]
    /\ SetBroker(RemoveSession(BrokerRec, s))
    /\ UNCHANGED <<phase, child, readOnly, viewLoaded, downloaded, isLoaded, isModified,
                   stop, kitVars, envVars, fromKit, storedVer>>

\* The global shutdown flag (recycling) is raised.
RequestShutdown ==
    /\ ~shutdownFlag
    /\ shutdownFlag' = TRUE
    /\ UNCHANGED <<brokerVars, kitVars, joined, sentEdits, clientSaves, failed,
                   idleFired, stopCalled, toKit, fromKit, storedVer>>

\* stop(), called by another thread: set _stop and wake the poll.  The
\* spawn loop and the main loop test _stop in their conditions; once the
\* loop has exited, setting it again changes nothing.
Stop ==
    /\ phase \in {"spawning", "polling"}
    /\ ~stopCalled                  \* one request from outside is modelled
    /\ stop' = TRUE
    /\ stopCalled' = TRUE
    /\ UNCHANGED <<phase, child, sessions, readOnly, viewLoaded, closing, downloaded,
                   isLoaded, isModified, markToDestroy, lastEditable, saving, lastFileMod,
                   kitVars, joined, shutdownFlag, sentEdits, clientSaves, failed,
                   idleFired, toKit, fromKit, storedVer>>

\* closeDocument(reason), run on the broker thread: terminateChild(reason,
\* true).  The rude close skips shutdownClients and the kit's stop; it
\* closes the kit's process and socket (what was queued either way is
\* lost, and so are the kit's unsaved edits) and sets _stop.
CloseDocument ==
    /\ Serving
    /\ ~stopCalled
    /\ child' = "closed"
    /\ toKit' = <<>> /\ fromKit' = <<>>
    /\ stop' = TRUE
    /\ stopCalled' = TRUE
    /\ failed' = TRUE
    /\ UNCHANGED <<phase, sessions, readOnly, viewLoaded, closing, downloaded, isLoaded,
                   isModified, markToDestroy, lastEditable, saving, lastFileMod, kitVars,
                   joined, shutdownFlag, sentEdits, clientSaves, idleFired, storedVer>>

\* COMMAND_TIMEOUT_MS passes since the last save request.  A kit that is not
\* slow has answered by then.
SaveTimeout ==
    /\ saving = "pending"
    /\ SlowKit \/ OutstandingSaves = 0
    /\ saving' = "expired"
    /\ UNCHANGED <<phase, child, sessions, readOnly, viewLoaded, closing, downloaded,
                   isLoaded, isModified, markToDestroy, lastEditable, stop, lastFileMod,
                   kitVars, envVars, toKit, fromKit, storedVer>>

-----------------------------------------------------------------------------
(* The save completes: saveToStorage / saveToStorageInternal.              *)

UploadOutcomes == IF StorageCanFail THEN {"OK", "DISKFULL", "UNAUTHORIZED", "FAILED"}
                  ELSE {"OK"}

\* Mutant: saveToStorage removes the session only when marked to destroy,
\* not when its client has disconnected.
SaveToStorageKeepingClosed(s, m, o) ==
    LET unmodified == ~m.success /\ m.result = "unmodified"
        unchanged  == ~lastEditable /\ fileStamp = lastFileMod
        upload     == ~unmodified /\ s \in sessions /\ ~unchanged
        uploaded   == upload /\ o = "OK"
        r == IF markToDestroy THEN RemoveSessionInternal(BrokerRec, s) ELSE BrokerRec
    IN /\ saving' = IF unmodified \/ (s \in sessions /\ (unchanged \/ o = "OK"))
                    THEN "idle" ELSE saving
       /\ isModified' = (isModified /\ ~uploaded)
       /\ lastFileMod' = IF uploaded THEN fileStamp ELSE lastFileMod
       /\ storedVer' = IF uploaded THEN fileVer ELSE storedVer
       /\ readOnly' = IF upload /\ o = "DISKFULL"
                      THEN [x \in Sessions |-> readOnly[x] \/ x \in sessions]
                      ELSE readOnly
       /\ failed' = (failed \/ (upload /\ o # "OK"))
       /\ sessions' = r.sessions
       /\ toKit' = r.toKit
       /\ stop' = (stop \/ markToDestroy \/ r.sessions = {})

\* m is the kit's save answer for session s, o what the storage answers if
\* the file is uploaded.
SaveToStorage(s, m, o) ==
    LET unmodified == ~m.success /\ m.result = "unmodified"
        unchanged  == ~lastEditable /\ fileStamp = lastFileMod
        upload     == ~unmodified /\ s \in sessions /\ ~unchanged
        uploaded   == upload /\ o = "OK"
        r == IF markToDestroy \/ (s \in sessions /\ closing[s])
             THEN RemoveSessionInternal(BrokerRec, s) ELSE BrokerRec
    IN /\ saving' = IF unmodified \/ (s \in sessions /\ (unchanged \/ o = "OK"))
                    THEN "idle" ELSE saving
       /\ isModified' = (isModified /\ ~uploaded)
       /\ lastFileMod' = IF uploaded THEN fileStamp ELSE lastFileMod
       /\ storedVer' = IF uploaded THEN fileVer ELSE storedVer
       /\ readOnly' = IF upload /\ o = "DISKFULL"
                      THEN [x \in Sessions |-> readOnly[x] \/ x \in sessions]
                      ELSE readOnly
       /\ failed' = (failed \/ (upload /\ o # "OK"))
       /\ sessions' = r.sessions
       /\ toKit' = r.toKit
       /\ stop' = (stop \/ markToDestroy \/ r.sessions = {})

-----------------------------------------------------------------------------
(* The broker's handling of what the kit sends.                            *)

KitAnswering == Serving /\ child \in {"alive", "dead"} /\ fromKit # <<>>

\* The kit's answer to a save, sent to client-<sid>: forwardToClient drops
\* it when the session is gone, else the session calls saveToStorage.
HandleSaveResult ==
    /\ KitAnswering
    /\ Head(fromKit).type = "saveresult"
    /\ fromKit' = Tail(fromKit)
    /\ LET m == Head(fromKit) IN
       IF m.sid \in sessions
       THEN \E o \in UploadOutcomes : SaveToStorage(m.sid, m, o)
       ELSE UNCHANGED <<readOnly, isModified, stop, saving, lastFileMod, failed,
                        sessions, toKit, storedVer>>
    /\ UNCHANGED <<phase, child, viewLoaded, closing, downloaded, isLoaded,
                   markToDestroy, lastEditable, kitVars, joined, shutdownFlag,
                   sentEdits, clientSaves, idleFired, stopCalled>>

\* The kit reports the view loaded: the session's view is loaded, setLoaded.
HandleStatus ==
    /\ KitAnswering
    /\ Head(fromKit).type = "status"
    /\ fromKit' = Tail(fromKit)
    /\ LET s == Head(fromKit).sid IN
       IF s \in sessions
       THEN /\ viewLoaded' = [viewLoaded EXCEPT ![s] = TRUE]
            /\ isLoaded' = TRUE
       ELSE UNCHANGED <<viewLoaded, isLoaded>>
    /\ UNCHANGED <<phase, child, sessions, readOnly, closing, downloaded, isModified,
                   markToDestroy, lastEditable, stop, saving, lastFileMod, kitVars,
                   envVars, toKit, storedVer>>

\* Mutant: the notification sets the flag whatever value it carries.
HandleModifiedSetOnly ==
    /\ KitAnswering
    /\ Head(fromKit).type = "modified"
    /\ fromKit' = Tail(fromKit)
    /\ isModified' = IF sessions # {} /\ downloaded THEN TRUE ELSE isModified
    /\ UNCHANGED <<phase, child, sessions, readOnly, viewLoaded, closing, downloaded,
                   isLoaded, markToDestroy, lastEditable, stop, saving, lastFileMod,
                   kitVars, envVars, toKit, storedVer>>

\* The kit's modified-status notification reaches the sessions: setModified.
HandleModified ==
    /\ KitAnswering
    /\ Head(fromKit).type = "modified"
    /\ fromKit' = Tail(fromKit)
    /\ isModified' = IF sessions # {} /\ downloaded THEN Head(fromKit).val ELSE isModified
    /\ UNCHANGED <<phase, child, sessions, readOnly, viewLoaded, closing, downloaded,
                   isLoaded, markToDestroy, lastEditable, stop, saving, lastFileMod,
                   kitVars, envVars, toKit, storedVer>>

\* The kit's socket closed after it died: childSocketTerminated shuts every
\* client down.  The end of the stream is seen after every frame the kit
\* wrote before it died.
ChildSocketTerminated ==
    /\ Serving
    /\ child = "dead"
    /\ fromKit = <<>>
    /\ child' = "gone"
    /\ SetBroker(ShutdownClients(BrokerRec))
    /\ UNCHANGED <<phase, readOnly, viewLoaded, closing, downloaded, isLoaded,
                   isModified, stop, kitVars, envVars, fromKit, storedVer>>

-----------------------------------------------------------------------------
(* The kit, as the broker sees it through its socket.                      *)

KitHead(t) == child = "alive" /\ toKit # <<>> /\ Head(toKit).type = t

\* "session <id> ...", then the client's load: the view loads.
KitSession ==
    /\ KitHead("session")
    /\ toKit' = Tail(toKit)
    /\ fromKit' = Append(fromKit, [type |-> "status", sid |-> Head(toKit).sid])
    /\ UNCHANGED <<brokerVars, kitVars, envVars, storedVer>>

KitEdit ==
    /\ KitHead("edit")
    /\ toKit' = Tail(toKit)
    /\ kitVer' = kitVer + 1
    /\ kitModified' = TRUE
    /\ fromKit' = IF kitModified THEN fromKit
                  ELSE Append(fromKit, [type |-> "modified", val |-> TRUE])
    /\ UNCHANGED <<brokerVars, fileVer, fileStamp, envVars, storedVer>>

\* Mutant: the kit writes the file even when the document is unmodified.
KitSaveAlwaysWriting(fails) ==
    /\ KitHead("save")
    /\ toKit' = Tail(toKit)
    /\ fileVer' = kitVer
    /\ fileStamp' = fileStamp + 1
    /\ kitModified' = FALSE
    /\ fromKit' = fromKit \o << [type |-> "modified", val |-> FALSE],
                                [type |-> "saveresult", sid |-> Head(toKit).sid,
                                 success |-> TRUE, result |-> ""] >>
    /\ UNCHANGED <<kitVer, failed, brokerVars, joined, shutdownFlag, sentEdits,
                   clientSaves, idleFired, stopCalled, storedVer>>

\* "uno .uno:Save" with DontSaveIfUnmodified: an unmodified document is not
\* written; a modified one is written to the jailed file, or the save fails.
KitSave(fails) ==
    /\ KitHead("save")
    /\ toKit' = Tail(toKit)
    /\ LET s == Head(toKit).sid
           answer(ok, res) == [type |-> "saveresult", sid |-> s, success |-> ok,
                               result |-> res]
       IN IF ~kitModified
          THEN /\ fromKit' = Append(fromKit, answer(FALSE, "unmodified"))
               /\ UNCHANGED <<kitVars, failed>>
          ELSE IF fails
          THEN /\ fromKit' = Append(fromKit, answer(FALSE, "failed"))
               /\ failed' = TRUE
               /\ UNCHANGED kitVars
          ELSE /\ fileVer' = kitVer
               /\ fileStamp' = fileStamp + 1
               /\ kitModified' = FALSE
               /\ fromKit' = fromKit \o << [type |-> "modified", val |-> FALSE],
                                           answer(TRUE, "") >>
               /\ UNCHANGED <<kitVer, failed>>
    /\ UNCHANGED <<brokerVars, joined, shutdownFlag, sentEdits, clientSaves, idleFired, stopCalled,
                   storedVer>>

KitDisconnect ==
    /\ KitHead("disconnect")
    /\ toKit' = Tail(toKit)
    /\ UNCHANGED <<brokerVars, kitVars, envVars, fromKit, storedVer>>

KitCrash ==
    /\ KitCanCrash
    /\ child = "alive"
    /\ child' = "dead"
    /\ toKit' = <<>>
    /\ failed' = TRUE
    /\ UNCHANGED <<phase, sessions, readOnly, viewLoaded, closing, downloaded, isLoaded,
                   isModified, markToDestroy, lastEditable, stop, saving, lastFileMod,
                   kitVars, joined, shutdownFlag, sentEdits, clientSaves, idleFired, stopCalled,
                   fromKit, storedVer>>

-----------------------------------------------------------------------------
(* The specification.                                                      *)

Init ==
    /\ phase = "spawning"
    /\ child = "none"
    /\ sessions = {} /\ joined = {}
    /\ readOnly = [s \in Sessions |-> FALSE]
    /\ viewLoaded = [s \in Sessions |-> FALSE]
    /\ closing = [s \in Sessions |-> FALSE]
    /\ downloaded = FALSE /\ isLoaded = FALSE /\ isModified = FALSE
    /\ markToDestroy = FALSE /\ lastEditable = FALSE /\ stop = FALSE
    /\ saving = "idle"              \* _lastSaveRequestTime = now - COMMAND_TIMEOUT_MS
    /\ lastFileMod = Zero
    /\ shutdownFlag = FALSE
    /\ toKit = <<>> /\ fromKit = <<>>
    /\ kitModified = FALSE /\ kitVer = 0 /\ fileVer = 0 /\ fileStamp = 1
    /\ storedVer = 0
    /\ sentEdits = 0 /\ clientSaves = 0 /\ failed = FALSE /\ idleFired = FALSE
    /\ stopCalled = FALSE

\* The broker thread has returned; nothing happens any more.
Terminated == phase = "done" /\ UNCHANGED vars

BrokerStep ==
    \/ SpawnChild \/ SpawnFailed
    \/ AutoSaveTick \/ LoopExit \/ FlushDone
    \/ HandleSaveResult \/ HandleStatus \/ HandleModified \/ ChildSocketTerminated
    \/ SaveTimeout

KitStep == KitSession \/ KitEdit \/ KitSave(FALSE) \/ KitDisconnect

Next ==
    \/ BrokerStep
    \/ KitStep
    \/ KitSaveCanFail /\ KitSave(TRUE)
    \/ KitCrash
    \/ IdleTimeout
    \/ \E s \in Sessions, ok \in IF LoadCanFail THEN BOOLEAN ELSE {TRUE} :
            AddSession(s, ok)
    \/ \E s \in Sessions : ClientEdit(s) \/ ClientSave(s) \/ Disconnect(s)
    \/ RequestShutdown
    \/ OutsideStop /\ (Stop \/ CloseDocument)
    \/ Terminated

\* The broker thread runs its loop and its handlers whenever it can (poll()
\* wakes at least every poll timeout), the kit answers what it is sent, and
\* a pending save request times out.  Clients, crashes, the idle timeout and
\* the shutdown request are not fair.
Fairness ==
    /\ WF_vars(SpawnChild \/ SpawnFailed)
    /\ WF_vars(AutoSaveTick)
    /\ WF_vars(LoopExit) /\ WF_vars(FlushDone)
    /\ WF_vars(HandleSaveResult) /\ WF_vars(HandleStatus) /\ WF_vars(HandleModified)
    /\ WF_vars(ChildSocketTerminated) /\ WF_vars(SaveTimeout)
    /\ WF_vars(KitStep)

Spec == Init /\ [][Next]_vars /\ Fairness

-----------------------------------------------------------------------------
(* Properties.                                                             *)

\* Every variable keeps its type; in particular the file stamp a kit save
\* writes stays within the stamps the kit can produce, and the joined
\* sessions include every attached one.
TypeOK ==
    /\ phase \in {"spawning", "polling", "flushing", "done"}
    /\ child \in {"none", "alive", "dead", "gone", "closed"}
    /\ sessions \subseteq joined /\ joined \subseteq Sessions
    /\ readOnly \in [Sessions -> BOOLEAN] /\ viewLoaded \in [Sessions -> BOOLEAN]
    /\ closing \in [Sessions -> BOOLEAN]
    /\ {downloaded, isLoaded, isModified, markToDestroy, lastEditable, stop,
        shutdownFlag, kitModified, failed, idleFired, stopCalled} \subseteq BOOLEAN
    /\ saving \in {"idle", "pending", "expired"}
    /\ lastFileMod \in 0..MaxStamp /\ fileStamp \in 1..MaxStamp
    /\ toKit \in Seq(ToKitMsg) /\ fromKit \in Seq(FromKitMsg)
    /\ {kitVer, fileVer, storedVer, sentEdits} \subseteq 0..MaxEdits
    /\ clientSaves \in 0..MaxClientSaves

\* When the kit has no notification on its way and sessions are attached,
\* _isModified (what setModified last heard, cleared by a successful upload
\* in saveToStorageInternal) agrees with whether the kit's document really
\* has unsaved changes, so that autosave and the clients' indicator are right.
ModifiedFlagTracksKit ==
    (child = "alive" /\ fromKit = <<>> /\ sessions # {} /\ downloaded)
        => (isModified <=> kitModified)

\* The main loop of pollThread only sets _stop while a client is still
\* attached and has not closed its socket when the shutdown flag, the idle
\* timeout, stop() or closeDocument() asked for it: removeSession,
\* saveToStorage and addSession never leave a live session in a broker
\* that is about to tear down.
LiveSessionKeepsBrokerRunning ==
    (phase = "polling" /\ stop)
        => (shutdownFlag \/ idleFired \/ stopCalled \/ \A s \in sessions : closing[s])

\* Once every attached client has disconnected (removeSession, with its
\* forced save for the last editor), the broker eventually finishes its
\* thread, unless a new client attaches: saveToStorage removes the session
\* and sets _stop, or the loop sees the map empty.
AllLeftEventuallyTerminates ==
    (phase = "polling" /\ sessions # {} /\ \A s \in sessions : closing[s])
        ~> (phase = "done" \/ \E s \in sessions : ~closing[s])

\* Spec 7: when the kit dies, childSocketTerminated shuts every client
\* down and the broker drains; a kit closed by closeDocument is gone as
\* well.  Once the broker has no kit, its thread eventually finishes.
ChildDeathDrains ==
    (phase = "polling" /\ child \in {"gone", "closed"}) ~> (phase = "done")

\* Spec 4.2 and scenario 6: when the broker tears down after the last
\* editor left (not for a shutdown request or the idle timeout, and with no
\* storage, kit or process failure), every edit a client sent is in the
\* storage.
LastEditsPersisted ==
    (phase = "done" /\ ~shutdownFlag /\ ~idleFired /\ ~failed)
        => storedVer = sentEdits


-----------------------------------------------------------------------------
(* Refinement of the abstract lifecycle.                                   *)

\* The lifecycle state of spec 4.2.1 the broker's members stand for: the
\* thread's phase first, then whether a load downloaded the document,
\* whether the kit acknowledged it (_isLoaded), and the save gate.
LifecycleState ==
    CASE phase = "done"     -> "Terminated"
      [] phase = "flushing" -> "Draining"
      [] ~downloaded        -> "Starting"
      [] ~isLoaded          -> "Loading"
      [] saving = "pending" -> "Saving"
      [] OTHER              -> "Active"

Lifecycle == INSTANCE BrokerLifecycle WITH lstate <- LifecycleState

\* The broker moves through its lifecycle in the order of spec 4.2.1: no
\* save before the kit acknowledged the load (autoSave's _isLoaded test,
\* a client's save only on a loaded view), no return from the flush, and
\* no load after it.
LifecycleRefined == Lifecycle!SafeSpec


=============================================================================
