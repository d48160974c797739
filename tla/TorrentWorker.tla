--------------------------- MODULE TorrentWorker ----------------------------
(***************************************************************************)
(* PeerSync/MultiThreaded-Server-master/test.hpp: torrent() downloads one  *)
(* magnet link.  server.cpp's workers call it at once, one after another   *)
(* for the connections they take.  Each call has a libtorrent session of   *)
(* its own; all share the flag shut_down that SIGINT sets, and two files   *)
(* of the working directory, the resume data and the session state.        *)
(*                                                                         *)
(* libtorrent is external: it adds the torrent, downloads, answers each    *)
(* request to save with the state of that moment or with a failure, and    *)
(* posts alerts in order.  Alerts that change nothing are left out.        *)
(***************************************************************************)
EXTENDS Integers, Sequences

CONSTANTS Workers,
          Magnets,      \* what clients ask for; one torrent each
          NoMagnet,     \* a text that is no magnet link; also: no data
          Pieces,       \* the pieces of each torrent that are not there at first
          MaxRequests,  \* bound: requests of a session when it makes a periodic one
          Bounds        \* bounds: what each worker's clients send, one after another;
                        \*   mishaps, SIGINTs and errors of libtorrent

ASSUME TorrentAssumption ==
  /\ NoMagnet \notin Magnets
  /\ Pieces \in [Magnets -> Nat] /\ MaxRequests \in Nat
  /\ Bounds \subseteq [calls : [Workers -> Seq(Magnets \union {NoMagnet})], mishaps : Nat]

VARIABLES worker,    \* the locals of torrent() in each worker
          session,   \* lt::session ses of each worker
          file,      \* .resume_file and .session
          shut_down, handler,  \* the flag; SIGINT sets it and does not kill
          calls, mishaps,  \* what is left of the bounds
          failed,    \* history: libtorrent has reported an error
          shared     \* history: the files that two workers wrote at once

vars == <<worker, session, file, shut_down, handler, calls, mishaps, failed, shared>>
bounds == <<calls, mishaps, failed>>

Names == {"resume", "state"}

(* What a file holds: whose data, how far its download had come; torn when *)
(* two writes have mixed, so that reading it throws.                       *)
Empty == [of |-> NoMagnet, progress |-> 0, torn |-> FALSE]
Torn == [Empty EXCEPT !.torn = TRUE]
Data(m, p) == [of |-> m, progress |-> p, torn |-> FALSE]

NoSession == [status |-> "none", progress |-> 0, requests |-> 0, alerts |-> <<>>]
Idle == [pc |-> "idle", magnet |-> NoMagnet, h |-> FALSE, done |-> FALSE, alerts |-> <<>>,
         saved |-> -1, stopped |-> FALSE]

Init == /\ worker = [w \in Workers |-> Idle]
        /\ session = [w \in Workers |-> NoSession]
        /\ file = [n \in Names |-> Empty]
        /\ shut_down = FALSE /\ handler = FALSE
        /\ \E bound \in Bounds : calls = bound.calls /\ mishaps = bound.mishaps
        /\ failed = FALSE
        /\ shared = {}

(* A step of worker w from point from, whose locals become new.            *)
Runs(w, from, new) == worker[w].pc = from /\ worker' = [worker EXCEPT ![w] = new]
Request(w) == session' = [session EXCEPT ![w].requests = @ + 1]

-----------------------------------------------------------------------------
(* A worker calls torrent() for what its client sent.                      *)
Call(w) == /\ calls[w] # <<>>
           /\ calls' = [calls EXCEPT ![w] = Tail(@)]
           /\ Runs(w, "idle", [Idle EXCEPT !.pc = "load", !.magnet = Head(calls[w])])
           /\ UNCHANGED <<session, file, shut_down, handler, mishaps, failed, shared>>

(* The exception handler: the session is destroyed, -1 is returned.        *)
Throw(w, from) == /\ Runs(w, from, Idle)
                  /\ session' = [session EXCEPT ![w] = NoSession]

(* A text that is no magnet link throws, and so does a file that is torn.  *)
LoadFails(w) == /\ Throw(w, "load")
                /\ worker[w].magnet = NoMagnet \/ \E n \in Names : file[n].torn
                /\ UNCHANGED <<file, shut_down, handler, bounds, shared>>

(* Resume data of another torrent is ignored.                              *)
Load(w) ==
  LET m == worker[w].magnet
      resumed == IF file["resume"].of = m THEN file["resume"].progress ELSE 0
  IN /\ m # NoMagnet /\ \A n \in Names : ~file[n].torn
     /\ Runs(w, "load", [worker[w] EXCEPT !.pc = "pop"])
     /\ session' = [session EXCEPT ![w] = [NoSession EXCEPT !.status = "adding", !.progress = resumed]]
     /\ handler' = TRUE
     /\ UNCHANGED <<file, shut_down, bounds, shared>>

(* A turn of the loop: the alerts are popped, then the flag is read; what  *)
(* the session posts between the two comes with the next turn.             *)
PopAlerts(w) ==
  /\ Runs(w, "pop", [worker[w] EXCEPT !.pc = IF shut_down THEN "stop" ELSE "alerts",
                                      !.alerts = session[w].alerts])
  /\ session' = [session EXCEPT ![w].alerts = <<>>]
  /\ UNCHANGED <<file, shut_down, handler, bounds, shared>>

(* get_torrents is empty until the torrent has been added.                 *)
Added(w) == session[w].status \in {"running", "finished", "failed"}

StopDownload(w) ==
  /\ shut_down' = FALSE
  /\ Runs(w, "stop", [worker[w] EXCEPT !.pc = "alerts", !.done = @ \/ Added(w),
                                       !.stopped = @ \/ Added(w)])
  /\ IF Added(w) THEN Request(w) ELSE UNCHANGED session
  /\ UNCHANGED <<file, handler, bounds, shared>>

-----------------------------------------------------------------------------
(* The loop over the popped alerts.                                        *)
Handles(w, kind, new) == /\ worker[w].alerts # <<>>
                         /\ Head(worker[w].alerts)[1] = kind
                         /\ Runs(w, "alerts", [new EXCEPT !.alerts = Tail(@)])

(* As HandleAdded, the alert's error not looked at.                        *)
HandleAddedAlways(w) ==
  /\ \E kind \in {"added", "addfailed"} : Handles(w, kind, [worker[w] EXCEPT !.h = TRUE])
  /\ UNCHANGED <<session, file, shut_down, handler, bounds, shared>>

(* The handle of a refused torrent is not valid.                           *)
HandleAdded(w) ==
  /\ \E kind \in {"added", "addfailed"} :
       Handles(w, kind, [worker[w] EXCEPT !.h = (kind = "added")])
  /\ UNCHANGED <<session, file, shut_down, handler, bounds, shared>>

(* As HandleFinished, without the request that ends the loop.              *)
HandleFinishedForgets(w) ==
  /\ Handles(w, "finished", [worker[w] EXCEPT !.done = TRUE])
  /\ UNCHANGED <<session, file, shut_down, handler, bounds, shared>>

HandleFinished(w) ==
  /\ Handles(w, "finished", [worker[w] EXCEPT !.done = TRUE])
  /\ Request(w)
  /\ UNCHANGED <<file, shut_down, handler, bounds, shared>>

HandleError(w) ==
  /\ Handles(w, "error", [worker[w] EXCEPT !.done = TRUE, !.stopped = TRUE])
  /\ Request(w)
  /\ UNCHANGED <<file, shut_down, handler, bounds, shared>>

(* As AfterSave: any save ends the loop.                                   *)
AfterSaveAlways(w) == "closing"

AfterSave(w) == IF worker[w].done THEN "closing" ELSE "alerts"

HandleSaveFailed(w) ==
  /\ Handles(w, "savefailed", [worker[w] EXCEPT !.pc = AfterSave(w)])
  /\ UNCHANGED <<session, file, shut_down, handler, bounds, shared>>

(* A file is truncated when it is opened and written when the stream goes. *)
(* What another worker wrote in between is overwritten from its start.     *)
Writing(n) == {w \in Workers : worker[w].pc = IF n = "resume" THEN "saving" ELSE "writing"}

Opened(n, content) == /\ file' = [file EXCEPT ![n] = content]
                      /\ shared' = IF Writing(n) = {} THEN shared ELSE shared \union {n}

(* As OpenTruncated, the old content kept.                                 *)
OpenKept(n) == Opened(n, file[n])

OpenTruncated(n) == Opened(n, Empty)

Write(n, data) == \E content \in IF file[n] = Empty THEN {data} ELSE {data, Torn} :
                    file' = [file EXCEPT ![n] = content]

HandleSave(w) == /\ worker[w].pc = "alerts" /\ worker[w].alerts # <<>>
                 /\ Head(worker[w].alerts)[1] = "save"
                 /\ Runs(w, "alerts", [worker[w] EXCEPT !.pc = "saving"])
                 /\ OpenTruncated("resume")
                 /\ UNCHANGED <<session, shut_down, handler, bounds>>

WriteResume(w) ==
  LET p == Head(worker[w].alerts)[2] IN
  /\ Runs(w, "saving", [worker[w] EXCEPT !.pc = AfterSave(w), !.alerts = Tail(@), !.saved = p])
  /\ Write("resume", Data(worker[w].magnet, p))
  /\ UNCHANGED <<session, shut_down, handler, bounds, shared>>

(* The end of the batch: sleep, and save once every 30 seconds, which      *)
(* throws while there is no torrent.                                       *)
NextTurn(w) == /\ worker[w].alerts = <<>>
               /\ Runs(w, "alerts", [worker[w] EXCEPT !.pc = "pop"])

Sleep(w) == /\ NextTurn(w)
            /\ UNCHANGED <<session, file, shut_down, handler, bounds, shared>>

SavePeriodically(w) == /\ worker[w].h /\ session[w].requests < MaxRequests
                       /\ NextTurn(w)
                       /\ Request(w)
                       /\ UNCHANGED <<file, shut_down, handler, bounds, shared>>

SaveTooEarly(w) == /\ worker[w].alerts = <<>> /\ ~worker[w].h
                   /\ Throw(w, "alerts")
                   /\ UNCHANGED <<file, shut_down, handler, bounds, shared>>

(* done: the session state is written and torrent() is left.               *)
OpenState(w) == /\ Runs(w, "closing", [worker[w] EXCEPT !.pc = "writing"])
                /\ OpenTruncated("state")
                /\ UNCHANGED <<session, shut_down, handler, bounds>>

Return(w) == /\ Throw(w, "writing")
             /\ Write("state", Data(worker[w].magnet, 0))
             /\ UNCHANGED <<shut_down, handler, bounds, shared>>

torrent(w) == \/ LoadFails(w) \/ Load(w) \/ PopAlerts(w) \/ StopDownload(w)
              \/ HandleAdded(w) \/ HandleFinished(w) \/ HandleError(w) \/ HandleSaveFailed(w)
              \/ HandleSave(w) \/ WriteResume(w)
              \/ Sleep(w) \/ SavePeriodically(w) \/ SaveTooEarly(w)
              \/ OpenState(w) \/ Return(w)

-----------------------------------------------------------------------------
(* libtorrent.                                                             *)
Post(w, status, progress, alert) ==
  /\ session' = [session EXCEPT ![w].status = status, ![w].progress = progress,
                                ![w].alerts = Append(@, alert)]
  /\ UNCHANGED <<worker, file, shut_down, handler, calls, shared>>

Errs == mishaps > 0 /\ mishaps' = mishaps - 1 /\ failed' = TRUE
NoError == UNCHANGED <<mishaps, failed>>

Add(w) == /\ session[w].status = "adding"
          /\ \/ Post(w, "running", session[w].progress, <<"added", 0>>) /\ NoError
             \/ Post(w, "refused", session[w].progress, <<"addfailed", 0>>) /\ Errs

Download(w) == /\ session[w].status = "running" /\ session[w].progress < Pieces[worker[w].magnet]
               /\ session' = [session EXCEPT ![w].progress = @ + 1]
               /\ UNCHANGED <<worker, file, shut_down, handler, bounds, shared>>

Finish(w) == /\ session[w].status = "running"
             /\ session[w].progress = Pieces[worker[w].magnet]
             /\ Post(w, "finished", session[w].progress, <<"finished", 0>>)
             /\ NoError

Fail(w) == /\ session[w].status = "running"
           /\ Post(w, "failed", session[w].progress, <<"error", 0>>)
           /\ Errs

AnswerSave(w) ==
  /\ session[w].requests > 0
  /\ session' = [session EXCEPT ![w].requests = @ - 1,
                                ![w].alerts = Append(@, <<"save", session[w].progress>>)]
  /\ UNCHANGED <<worker, file, shut_down, handler, bounds, shared>>

RefuseSave(w) ==
  /\ session[w].requests > 0
  /\ session' = [session EXCEPT ![w].requests = @ - 1,
                                ![w].alerts = Append(@, <<"savefailed", 0>>)]
  /\ Errs
  /\ UNCHANGED <<worker, file, shut_down, handler, calls, shared>>

Answers(w) == Add(w) \/ Finish(w) \/ AnswerSave(w) \/ RefuseSave(w)

Interrupt == /\ handler /\ mishaps > 0
             /\ mishaps' = mishaps - 1
             /\ shut_down' = TRUE
             /\ UNCHANGED <<worker, session, file, handler, calls, failed, shared>>

Next == \/ \E w \in Workers : \/ Call(w) \/ torrent(w)
                              \/ Answers(w) \/ Download(w) \/ Fail(w)
        \/ Interrupt

Spec == Init /\ [][Next]_vars

(* Threads run and sessions answer; a download need not progress.          *)
FairSpec == Spec /\ \A w \in Workers : WF_vars(torrent(w)) /\ WF_vars(Answers(w))

-----------------------------------------------------------------------------
Alerts == Seq({"added", "addfailed", "finished", "error", "save", "savefailed"} \X Nat)

WorkerStates ==
  [pc : {"idle", "load", "pop", "stop", "alerts", "saving", "closing", "writing"},
   magnet : Magnets \union {NoMagnet}, h : BOOLEAN, done : BOOLEAN, alerts : Alerts,
   saved : Nat \union {-1}, stopped : BOOLEAN]
SessionStates ==
  [status : {"none", "adding", "refused", "running", "finished", "failed"},
   progress : Nat, requests : Nat, alerts : Alerts]
Contents == [of : Magnets \union {NoMagnet}, progress : Nat, torn : BOOLEAN]

Types == /\ worker \in [Workers -> WorkerStates]
         /\ session \in [Workers -> SessionStates]
         /\ file \in [Names -> Contents]
         /\ shut_down \in BOOLEAN /\ handler \in BOOLEAN
         /\ calls \in [Workers -> Seq(Magnets \union {NoMagnet})]
         /\ mishaps \in Nat /\ failed \in BOOLEAN
         /\ shared \subseteq Names

(* The variables keep their types; no worker holds a handle of a torrent   *)
(* that is not added, and none downloads more than there is.               *)
TypeOK == /\ Types
          /\ \A w \in Workers : /\ worker[w].h => Added(w)
                                /\ Added(w) => session[w].progress <= Pieces[worker[w].magnet]

(* A worker whose download came to its end, and that neither SIGINT nor an *)
(* error ended before, leaves only after it has saved the complete         *)
(* torrent, whatever saves were outstanding when it finished.              *)
FinishedIsSaved == \A w \in Workers :
  worker[w].pc \in {"closing", "writing"} /\ ~worker[w].stopped /\ ~failed =>
    worker[w].saved = Pieces[worker[w].magnet]

(* A file is torn, which makes every later call fail, only if two workers  *)
(* wrote it at once.                                                       *)
TornByTwo == \A n \in Names : file[n].torn => n \in shared

(* A worker that is done leaves torrent(): the save it waits for comes.    *)
Leaves == \A w \in Workers : worker[w].done ~> worker[w].pc = "idle"
=============================================================================
