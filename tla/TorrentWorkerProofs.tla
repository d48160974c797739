------------------------- MODULE TorrentWorkerProofs -------------------------
(***************************************************************************)
(* Of TorrentWorker, for all workers, torrents and bounds: the types; that *)
(* only two workers that write a file at once can tear it; and that what   *)
(* is saved of a finished download is all of it.                           *)
(***************************************************************************)
EXTENDS TorrentWorker, TLAPS

(* What a worker that is about to write finds is what it has just opened,  *)
(* empty, or the file is one that two have written at once.                *)
OneWrites ==
  \A n \in Names :
    /\ \A w \in Writing(n) : file[n] = Empty \/ n \in shared
    /\ \A v, w \in Writing(n) : v = w \/ n \in shared

(* A worker that writes resume data does so for an alert.                  *)
SavesAlert == \A w \in Workers : worker[w].pc = "saving" => worker[w].alerts # <<>>

(* The inductive invariant of TornByTwo.                                   *)
TornInv == Types /\ SavesAlert /\ TornByTwo /\ OneWrites

(* The types hold at first.                                                *)
LEMMA InitTypes == Init => Types
<1> SUFFICES ASSUME Init PROVE Types
  OBVIOUS
<1> PICK bound \in Bounds : calls = bound.calls /\ mishaps = bound.mishaps
  BY DEF Init
<1>1. bound \in [calls : [Workers -> Seq(Magnets \union {NoMagnet})], mishaps : Nat]
  BY TorrentAssumption
<1>2. <<>> \in Alerts
  BY DEF Alerts
<1>3. Idle \in WorkerStates /\ NoSession \in SessionStates /\ Empty \in Contents
  BY <1>2 DEF Idle, WorkerStates, NoSession, SessionStates, Empty, Contents
<1> QED
  BY <1>1, <1>3 DEF Init, Types

(* The head and the tail of what a worker has popped, and what a session   *)
(* posts, are alerts.                                                      *)
LEMMA AlertFacts ==
  /\ <<>> \in Alerts
  /\ \A s \in Alerts : s # <<>> => Tail(s) \in Alerts /\ Head(s)[2] \in Nat
  /\ \A s \in Alerts, k \in {"added", "addfailed", "finished", "error", "save", "savefailed"}, p \in Nat :
       Append(s, <<k, p>>) \in Alerts
<1> DEFINE A == {"added", "addfailed", "finished", "error", "save", "savefailed"} \X Nat
<1>1. Alerts = Seq(A)
  BY DEF Alerts
<1>2. ASSUME NEW s \in Seq(A), s # <<>> PROVE Tail(s) \in Seq(A) /\ Head(s) \in A
  BY <1>2
<1>3. ASSUME NEW s \in Seq(A), NEW a \in A PROVE Append(s, a) \in Seq(A)
  OBVIOUS
<1> HIDE DEF A
<1>4. \A a \in A : a[2] \in Nat
  BY DEF A
<1>5. \A k \in {"added", "addfailed", "finished", "error", "save", "savefailed"}, p \in Nat : <<k, p>> \in A
  BY DEF A
<1> QED
  BY <1>1, <1>2, <1>3, <1>4, <1>5

(* Each step of torrent(), of libtorrent and of the users keeps the types. *)
LEMMA WorkerTypes == ASSUME Types, SavesAlert, NEW w \in Workers, torrent(w) PROVE Types'
<1> USE AlertFacts
<1>0. worker[w] \in WorkerStates /\ session[w] \in SessionStates /\ worker[w].alerts \in Alerts
  BY DEF Types, WorkerStates
<1>1. Idle \in WorkerStates /\ NoSession \in SessionStates /\ Empty \in Contents
  BY DEF Idle, WorkerStates, NoSession, SessionStates, Empty, Contents
<1>2. ASSUME NEW m \in Magnets \union {NoMagnet}, NEW p \in Nat
      PROVE  Data(m, p) \in Contents /\ Torn \in Contents
  BY DEF Data, Torn, Empty, Contents
<1>3. Request(w) => session' \in [Workers -> SessionStates]
  <2>1. [session[w] EXCEPT !.requests = @ + 1] \in SessionStates
    BY <1>0 DEF SessionStates
  <2> QED
    BY <2>1 DEF Request, Types
<1>4. ASSUME NEW from, Throw(w, from)
      PROVE  worker' \in [Workers -> WorkerStates] /\ session' \in [Workers -> SessionStates]
  BY <1>1, <1>4 DEF Throw, Runs, Types
<1>5. CASE LoadFails(w)
  BY <1>4, <1>5 DEF LoadFails, bounds, Types
<1>6. CASE Load(w)
  BY <1>0, <1>1, <1>6 DEF Load, Runs, bounds, Types, WorkerStates, SessionStates, NoSession, Contents, Names
<1>7. CASE PopAlerts(w)
  BY <1>0, <1>7 DEF PopAlerts, Runs, bounds, Types, WorkerStates, SessionStates
<1>8. CASE StopDownload(w)
  BY <1>0, <1>3, <1>8 DEF StopDownload, Added, Runs, bounds, Types, WorkerStates
<1>9. CASE HandleAdded(w)
  <2> PICK kind \in {"added", "addfailed"} : Handles(w, kind, [worker[w] EXCEPT !.h = (kind = "added")])
    BY <1>9 DEF HandleAdded
  <2> DEFINE new == [worker[w] EXCEPT !.h = (kind = "added")]
  <2>1. (kind = "added") \in BOOLEAN
    OBVIOUS
  <2>2. new \in WorkerStates
    BY <1>0, <2>1, Zenon DEF WorkerStates
  <2>3. new.alerts = worker[w].alerts
    BY <1>0 DEF WorkerStates
  <2>4. worker[w].alerts # <<>> /\ worker' = [worker EXCEPT ![w] = [new EXCEPT !.alerts = Tail(@)]]
    BY DEF Handles, Runs
  <2> HIDE DEF new
  <2>5. [new EXCEPT !.alerts = Tail(@)] \in WorkerStates
    BY <1>0, <2>2, <2>3, <2>4 DEF WorkerStates
  <2> QED
    BY <1>9, <2>4, <2>5 DEF HandleAdded, bounds, Types
<1>10. CASE HandleFinished(w)
  BY <1>0, <1>3, <1>10 DEF HandleFinished, Handles, Runs, bounds, Types, WorkerStates
<1>11. CASE HandleError(w)
  BY <1>0, <1>3, <1>11 DEF HandleError, Handles, Runs, bounds, Types, WorkerStates
<1>12. CASE HandleSaveFailed(w)
  BY <1>0, <1>12 DEF HandleSaveFailed, AfterSave, Handles, Runs, bounds, Types, WorkerStates
<1>13. CASE HandleSave(w)
  BY <1>0, <1>1, <1>13 DEF HandleSave, OpenTruncated, Opened, Names, Runs, bounds, Types, WorkerStates
<1>14. CASE WriteResume(w)
  <2>1. Head(worker[w].alerts)[2] \in Nat /\ worker[w].magnet \in Magnets \union {NoMagnet}
    BY <1>0, <1>14 DEF WriteResume, Runs, SavesAlert, WorkerStates
  <2>2. Data(worker[w].magnet, Head(worker[w].alerts)[2]) \in Contents /\ Torn \in Contents
    BY <1>2, <2>1
  <2>3. file' \in [Names -> Contents]
    BY <1>14, <2>2 DEF WriteResume, Write, Names, Types
  <2> QED
    BY <1>0, <1>14, <2>1, <2>3 DEF SavesAlert, WriteResume, AfterSave, Runs, bounds, Types, WorkerStates
<1>15. CASE Sleep(w)
  BY <1>0, <1>15 DEF Sleep, NextTurn, Runs, bounds, Types, WorkerStates
<1>16. CASE SavePeriodically(w)
  BY <1>0, <1>3, <1>16 DEF SavePeriodically, NextTurn, Runs, bounds, Types, WorkerStates
<1>17. CASE SaveTooEarly(w)
  BY <1>4, <1>17 DEF SaveTooEarly, bounds, Types
<1>18. CASE OpenState(w)
  BY <1>0, <1>1, <1>18 DEF OpenState, OpenTruncated, Opened, Names, Runs, bounds, Types, WorkerStates
<1>19. CASE Return(w)
  <2>1. worker[w].magnet \in Magnets \union {NoMagnet}
    BY <1>0 DEF WorkerStates
  <2>2. Data(worker[w].magnet, 0) \in Contents /\ Torn \in Contents
    BY <1>2, <2>1
  <2>3. file' \in [Names -> Contents]
    BY <1>19, <2>2 DEF Return, Write, Names, Types
  <2> QED
    BY <1>4, <1>19, <2>3 DEF Return, bounds, Types
<1> QED
  BY <1>5, <1>6, <1>7, <1>8, <1>9, <1>10, <1>11, <1>12, <1>13, <1>14, <1>15, <1>16, <1>17,
     <1>18, <1>19 DEF torrent

(* The steps of a session keep them.                                       *)
LEMMA SessionTypes == ASSUME Types, NEW w \in Workers, Answers(w) \/ Download(w) \/ Fail(w)
                      PROVE Types'
<1>0. session[w] \in SessionStates
  BY DEF Types
<1>1. ASSUME NEW status \in {"running", "refused", "finished", "failed"}, NEW progress \in Nat,
             NEW kind \in {"added", "addfailed", "finished", "error"},
             Post(w, status, progress, <<kind, 0>>)
      PROVE  session' \in [Workers -> SessionStates] /\ UNCHANGED <<worker, file, shut_down, handler, calls, shared>>
  <2>1. Append(session[w].alerts, <<kind, 0>>) \in Alerts
    BY <1>0, AlertFacts DEF SessionStates
  <2>2. [session[w] EXCEPT !.status = status, !.progress = progress,
                           !.alerts = Append(@, <<kind, 0>>)] \in SessionStates
    BY <1>0, <2>1 DEF SessionStates
  <2> QED
    BY <1>1, <2>2 DEF Post, Types
<1>2. session[w].progress \in Nat
  BY <1>0 DEF SessionStates
<1>3. CASE Add(w)
  <2>1. CASE Post(w, "running", session[w].progress, <<"added", 0>>) /\ NoError
    BY <1>1, <1>2, <2>1 DEF NoError, Types
  <2>2. CASE Post(w, "refused", session[w].progress, <<"addfailed", 0>>) /\ Errs
    BY <1>1, <1>2, <2>2 DEF Errs, Types
  <2> QED
    BY <1>3, <2>1, <2>2 DEF Add
<1>4. CASE Finish(w)
  BY <1>1, <1>2, <1>4 DEF Finish, NoError, Types
<1>5. CASE Fail(w)
  BY <1>1, <1>2, <1>5 DEF Fail, Errs, Types
<1>6. CASE Download(w)
  <2>1. [session[w] EXCEPT !.progress = @ + 1] \in SessionStates
    BY <1>0 DEF SessionStates
  <2> QED
    BY <1>6, <2>1 DEF Download, bounds, Types
<1>7. CASE AnswerSave(w)
  <2>0. session[w].requests - 1 \in Nat
    BY <1>0, <1>7 DEF AnswerSave, SessionStates
  <2>1. Append(session[w].alerts, <<"save", session[w].progress>>) \in Alerts
    BY <1>0, AlertFacts DEF SessionStates
  <2>2. [session[w] EXCEPT !.requests = @ - 1,
                           !.alerts = Append(@, <<"save", session[w].progress>>)] \in SessionStates
    BY <1>0, <2>0, <2>1 DEF SessionStates
  <2> QED
    BY <1>7, <2>2 DEF AnswerSave, bounds, Types
<1>8. CASE RefuseSave(w)
  <2>0. session[w].requests - 1 \in Nat
    BY <1>0, <1>8 DEF RefuseSave, SessionStates
  <2>1. Append(session[w].alerts, <<"savefailed", 0>>) \in Alerts
    BY <1>0, AlertFacts DEF SessionStates
  <2>2. [session[w] EXCEPT !.requests = @ - 1, !.alerts = Append(@, <<"savefailed", 0>>)] \in SessionStates
    BY <1>0, <2>0, <2>1 DEF SessionStates
  <2> QED
    BY <1>8, <2>2 DEF RefuseSave, Errs, Types
<1> QED
  BY <1>3, <1>4, <1>5, <1>6, <1>7, <1>8 DEF Answers

(* So does every step.                                                     *)
LEMMA TypesStep == Types /\ SavesAlert /\ [Next]_vars => Types'
<1> SUFFICES ASSUME Types, SavesAlert, [Next]_vars PROVE Types'
  OBVIOUS
<1>1. CASE \E w \in Workers : Call(w)
  <2> PICK w \in Workers : Call(w)
    BY <1>1
  <2>1. Head(calls[w]) \in Magnets \union {NoMagnet} /\ Tail(calls[w]) \in Seq(Magnets \union {NoMagnet})
    BY DEF Call, Types
  <2>2. [Idle EXCEPT !.pc = "load", !.magnet = Head(calls[w])] \in WorkerStates
    BY <2>1, AlertFacts DEF Idle, WorkerStates
  <2> QED
    BY <2>1, <2>2 DEF Call, Runs, Types
<1>2. CASE Interrupt
  BY <1>2 DEF Interrupt, Types
<1>3. CASE UNCHANGED vars
  BY <1>3 DEF vars, Types
<1> QED
  BY <1>1, <1>2, <1>3, WorkerTypes, SessionTypes DEF Next

-----------------------------------------------------------------------------
(* To the files a step of torrent() is one of three: it leaves them alone  *)
(* and is not about to write; it opens one; or it writes the one it opened.*)
Point(n) == IF n = "resume" THEN "saving" ELSE "writing"

Moves(w) == \A v \in Workers : v # w => worker'[v] = worker[v]

Quiet(w) == /\ Moves(w) /\ UNCHANGED <<file, shared>>
            /\ worker'[w].pc \notin {"saving", "writing"}

Opens(w, n) == /\ Moves(w) /\ OpenTruncated(n)
               /\ worker'[w].pc = Point(n)
               /\ n = "resume" => worker'[w].alerts # <<>>

Writes(w, n) == /\ Moves(w) /\ shared' = shared
                /\ w \in Writing(n)
                /\ worker'[w].pc \notin {"saving", "writing"}
                /\ \E data \in Contents : ~data.torn /\ Write(n, data)

(* Each step of torrent() has one of the three shapes.                     *)
LEMMA Shapes == ASSUME Types, SavesAlert, NEW w \in Workers, torrent(w)
                PROVE  Quiet(w) \/ \E n \in Names : Opens(w, n) \/ Writes(w, n)
<1> USE AlertFacts
<1>0. worker \in [Workers -> WorkerStates] /\ worker[w] \in WorkerStates /\ worker[w].alerts \in Alerts
  BY DEF Types, WorkerStates
<1>1. ASSUME NEW from, NEW new, Runs(w, from, new) PROVE Moves(w) /\ worker'[w] = new
  BY <1>0, <1>1 DEF Runs, Moves
<1>2. ASSUME NEW from, Throw(w, from) PROVE Moves(w) /\ worker'[w].pc \notin {"saving", "writing"}
  BY <1>1, <1>2 DEF Throw, Idle
<1>3. ASSUME NEW kind, NEW new \in WorkerStates, Handles(w, kind, new)
      PROVE  Moves(w) /\ worker'[w].pc = new.pc
  BY <1>1, <1>3 DEF Handles, WorkerStates
<1>5. CASE LoadFails(w)
  BY <1>2, <1>5 DEF LoadFails, Quiet
<1>6. CASE Load(w)
  BY <1>0, <1>6 DEF Load, Runs, Moves, Quiet, WorkerStates
<1>7. CASE PopAlerts(w)
  BY <1>0, <1>7 DEF PopAlerts, Runs, Moves, Quiet, WorkerStates
<1>8. CASE StopDownload(w)
  BY <1>0, <1>8 DEF StopDownload, Runs, Moves, Quiet, WorkerStates
<1>9. CASE HandleAdded(w)
  <2> PICK kind \in {"added", "addfailed"} : Handles(w, kind, [worker[w] EXCEPT !.h = (kind = "added")])
    BY <1>9 DEF HandleAdded
  <2> DEFINE new == [worker[w] EXCEPT !.h = (kind = "added")]
  <2>1. (kind = "added") \in BOOLEAN
    OBVIOUS
  <2>2. new \in WorkerStates
    BY <1>0, <2>1, Zenon DEF WorkerStates
  <2>3. new.pc = worker[w].pc /\ worker[w].pc = "alerts"
    BY <1>0 DEF Handles, Runs, WorkerStates
  <2>4. Handles(w, kind, new)
    OBVIOUS
  <2> HIDE DEF new
  <2> QED
    BY <1>3, <1>9, <2>2, <2>3, <2>4 DEF HandleAdded, Quiet
<1>10. CASE HandleFinished(w)
  BY <1>0, <1>10 DEF HandleFinished, Handles, Runs, Moves, Quiet, WorkerStates
<1>11. CASE HandleError(w)
  BY <1>0, <1>11 DEF HandleError, Handles, Runs, Moves, Quiet, WorkerStates
<1>12. CASE HandleSaveFailed(w)
  BY <1>0, <1>12 DEF HandleSaveFailed, AfterSave, Handles, Runs, Moves, Quiet, WorkerStates
<1>13. CASE HandleSave(w)
  <2> Opens(w, "resume")
    BY <1>0, <1>13 DEF HandleSave, Runs, Moves, Opens, Point, WorkerStates
  <2> QED
    BY DEF Names
<1>14. CASE WriteResume(w)
  <2> DEFINE data == Data(worker[w].magnet, Head(worker[w].alerts)[2])
  <2>1. data \in Contents /\ ~data.torn
    BY <1>0, <1>14 DEF WriteResume, Runs, SavesAlert, Data, Contents, WorkerStates
  <2>2. Write("resume", data) /\ shared' = shared /\ w \in Writing("resume")
    BY <1>14 DEF WriteResume, Runs, Writing
  <2>3. Moves(w) /\ worker'[w].pc \notin {"saving", "writing"}
    BY <1>0, <1>14 DEF WriteResume, AfterSave, Runs, Moves, WorkerStates
  <2> HIDE DEF data
  <2> QED
    BY <2>1, <2>2, <2>3 DEF Writes, Names
<1>15. CASE Sleep(w)
  BY <1>0, <1>15 DEF Sleep, NextTurn, Runs, Moves, Quiet, WorkerStates
<1>16. CASE SavePeriodically(w)
  BY <1>0, <1>16 DEF SavePeriodically, NextTurn, Runs, Moves, Quiet, WorkerStates
<1>17. CASE SaveTooEarly(w)
  BY <1>2, <1>17 DEF SaveTooEarly, Quiet
<1>18. CASE OpenState(w)
  <2> Opens(w, "state")
    BY <1>0, <1>18 DEF OpenState, Runs, Moves, Opens, Point, WorkerStates
  <2> QED
    BY DEF Names
<1>19. CASE Return(w)
  <2> DEFINE data == Data(worker[w].magnet, 0)
  <2>1. data \in Contents /\ ~data.torn
    BY <1>0 DEF Data, Contents, WorkerStates
  <2>2. Write("state", data) /\ shared' = shared /\ w \in Writing("state")
    BY <1>19 DEF Return, Throw, Runs, Writing
  <2>3. Moves(w) /\ worker'[w].pc \notin {"saving", "writing"}
    BY <1>2, <1>19 DEF Return
  <2> HIDE DEF data
  <2> QED
    BY <2>1, <2>2, <2>3 DEF Writes, Names
<1> QED
  BY <1>5, <1>6, <1>7, <1>8, <1>9, <1>10, <1>11, <1>12, <1>13, <1>14, <1>15, <1>16, <1>17,
     <1>18, <1>19 DEF torrent

(* Whatever the shape, the invariant is kept.                              *)
LEMMA QuietStep == ASSUME TornInv, Types', NEW w \in Workers, Quiet(w) PROVE TornInv'
<1> USE DEF TornInv
<1>1. \A v \in Workers : v # w => worker'[v] = worker[v]
  BY DEF Quiet, Moves, Types
<1>2. SavesAlert'
  BY <1>1 DEF SavesAlert, Quiet
<1>3. TornByTwo'
  BY DEF TornByTwo, Quiet
<1>4. \A n \in Names : Writing(n)' \subseteq Writing(n)
  BY <1>1 DEF Writing, Quiet
<1>5. OneWrites'
  BY <1>4 DEF OneWrites, Quiet
<1> QED
  BY <1>2, <1>3, <1>5

(* A file that is opened is empty, or others were writing it.              *)
LEMMA OpenStep == ASSUME TornInv, Types', NEW w \in Workers, NEW n \in Names, Opens(w, n)
                  PROVE  TornInv'
<1> USE DEF TornInv
<1>1. \A v \in Workers : v # w => worker'[v] = worker[v]
  BY DEF Opens, Moves, Types
<1>2. SavesAlert'
  BY <1>1 DEF SavesAlert, Opens, Point, Names
<1>3. /\ file'[n] = Empty /\ shared \subseteq shared'
      /\ \A k \in Names : k # n => file'[k] = file[k]
      /\ Writing(n) # {} => n \in shared'
  BY DEF Opens, OpenTruncated, Opened, Types
<1>4. TornByTwo'
  BY <1>3 DEF TornByTwo, Empty
<1>5. /\ Writing(n)' \subseteq Writing(n) \union {w}
      /\ \A k \in Names : k # n => Writing(k)' \subseteq Writing(k)
  BY <1>1 DEF Writing, Opens, Point, Names
<1>6. OneWrites'
  BY <1>3, <1>5 DEF OneWrites
<1> QED
  BY <1>2, <1>4, <1>6

(* A write tears nothing but a file that two have written at once.         *)
LEMMA WriteStep == ASSUME TornInv, Types', NEW w \in Workers, NEW n \in Names, Writes(w, n)
                   PROVE  TornInv'
<1> USE DEF TornInv
<1>1. \A v \in Workers : v # w => worker'[v] = worker[v]
  BY DEF Writes, Moves, Types
<1>2. SavesAlert'
  BY <1>1 DEF SavesAlert, Writes
<1>3. PICK data \in Contents : ~data.torn /\ Write(n, data)
  BY DEF Writes
<1>4. /\ shared' = shared
      /\ \A k \in Names : k # n => file'[k] = file[k]
      /\ file[n] = Empty => file'[n] = data
  BY <1>3 DEF Writes, Write, Types
<1>5. file[n] = Empty \/ n \in shared
  BY DEF OneWrites, Writes
<1>6. TornByTwo'
  BY <1>3, <1>4, <1>5 DEF TornByTwo
<1>7. \A k \in Names : Writing(k)' \subseteq Writing(k) \ {w}
  BY <1>1 DEF Writing, Writes
<1>8. Writing(n)' = {} \/ n \in shared
  BY <1>7 DEF OneWrites, Writes
<1>9. OneWrites'
  BY <1>4, <1>7, <1>8 DEF OneWrites
<1> QED
  BY <1>2, <1>6, <1>9

-----------------------------------------------------------------------------
(* At first nobody writes.                                                 *)
LEMMA InitTorn == Init => TornInv
<1> SUFFICES ASSUME Init PROVE TornInv
  OBVIOUS
<1>1. \A n \in Names : ~file[n].torn /\ Writing(n) = {}
  BY DEF Init, Idle, Empty, Writing
<1> QED
  BY <1>1, InitTypes DEF Init, TornInv, SavesAlert, TornByTwo, OneWrites, Idle

(* Every step keeps TornInv, by its shape.                                 *)
LEMMA TornStep == TornInv /\ [Next]_vars => TornInv'
<1> SUFFICES ASSUME TornInv, [Next]_vars PROVE TornInv'
  OBVIOUS
<1>0. Types'
  BY TypesStep DEF TornInv
<1>1. ASSUME UNCHANGED <<worker, file, shared>> PROVE TornInv'
  BY <1>0, <1>1 DEF TornInv, SavesAlert, TornByTwo, OneWrites, Writing
<1>2. CASE \E w \in Workers : torrent(w)
  BY <1>0, <1>2, Shapes, QuietStep, OpenStep, WriteStep DEF TornInv
<1>3. CASE \E w \in Workers : Call(w)
  <2> PICK w \in Workers : Call(w)
    BY <1>3
  <2>1. Quiet(w)
    BY DEF Call, Runs, Idle, TornInv, Types, Quiet, Moves
  <2> QED
    BY <1>0, <2>1, QuietStep
<1>4. CASE \E w \in Workers : Answers(w) \/ Download(w) \/ Fail(w)
  BY <1>1, <1>4 DEF Answers, Add, Finish, AnswerSave, RefuseSave, Download, Fail, Post
<1>5. CASE Interrupt
  BY <1>1, <1>5 DEF Interrupt
<1>6. CASE UNCHANGED vars
  BY <1>1, <1>6 DEF vars
<1> QED
  BY <1>2, <1>3, <1>4, <1>5, <1>6 DEF Next

(* A file that later calls cannot read any more, because two writes have   *)
(* mixed in it, was written by two workers of the server at once: one      *)
(* worker alone, whatever libtorrent answers and whenever SIGINT comes,    *)
(* always leaves whole files.                                              *)
THEOREM TornOnlyByTwo == Spec => []TornByTwo
<1>1. TornInv => TornByTwo
  BY DEF TornInv
<1> QED
  BY InitTorn, TornStep, <1>1, PTL DEF Spec
-----------------------------------------------------------------------------
(* What an operator of the proof says of a queue of alerts: it lists one   *)
(* of a kind; its saves are of at most, or exactly, p pieces; and those    *)
(* after the alert "finished" are of exactly p.                            *)
Has(q, kind) == \E i \in 1 .. Len(q) : q[i][1] = kind
Below(q, p) == \A i \in 1 .. Len(q) : q[i][1] = "save" => q[i][2] <= p
Full(q, p) == \A i \in 1 .. Len(q) : q[i][1] = "save" => q[i][2] = p
Ordered(q, p) == \A i, j \in 1 .. Len(q) :
                   i < j /\ q[i][1] = "finished" /\ q[j][1] = "save" => q[j][2] = p

Kinds == {"added", "addfailed", "finished", "error", "save", "savefailed"}

(* An empty queue says all of these.                                       *)
LEMMA EmptyQueue == ASSUME NEW p, NEW kind
                    PROVE  /\ ~Has(<<>>, kind) /\ Below(<<>>, p) /\ Full(<<>>, p)
                           /\ Ordered(<<>>, p)
BY DEF Has, Below, Full, Ordered

(* What is said of a queue that an alert is appended to.                   *)
LEMMA LongerQueue ==
  ASSUME NEW q \in Alerts, NEW kind \in Kinds, NEW x \in Nat, NEW p
  PROVE  LET r == Append(q, <<kind, x>>) IN
         /\ r \in Alerts
         /\ \A k : Has(r, k) <=> Has(q, k) \/ k = kind
         /\ Below(q, p) /\ (kind = "save" => x <= p) => Below(r, p)
         /\ Full(q, p) /\ (kind = "save" => x = p) => Full(r, p)
         /\ Ordered(q, p) /\ (kind = "save" /\ Has(q, "finished") => x = p) => Ordered(r, p)
<1> DEFINE r == Append(q, <<kind, x>>)
           A == {"added", "addfailed", "finished", "error", "save", "savefailed"} \X Nat
           e == <<kind, x>>
<1>1. q \in Seq(A)
  BY DEF Alerts
<1>2. e \in A /\ e[1] = kind /\ e[2] = x
  BY DEF Kinds
<1> HIDE DEF A, e
<1>3. /\ Append(q, e) \in Seq(A) /\ Len(q) \in Nat /\ Len(Append(q, e)) = Len(q) + 1
      /\ \A i \in 1 .. Len(q) : Append(q, e)[i] = q[i]
      /\ Append(q, e)[Len(q) + 1] = e
  BY <1>1, <1>2
<1>4. r = Append(q, e)
  BY DEF e
<1> HIDE DEF r
<1>5. /\ Len(q) \in Nat /\ Len(r) = Len(q) + 1
      /\ \A i \in 1 .. Len(q) : r[i] = q[i]
      /\ r[Len(q) + 1][1] = kind /\ r[Len(q) + 1][2] = x
  BY <1>2, <1>3, <1>4
<1>6. \A k : Has(r, k) <=> Has(q, k) \/ k = kind
  BY <1>5 DEF Has
<1>7. Below(q, p) /\ (kind = "save" => x <= p) => Below(r, p)
  BY <1>5 DEF Below
<1>8. Full(q, p) /\ (kind = "save" => x = p) => Full(r, p)
  BY <1>5 DEF Full
<1>9. Ordered(q, p) /\ (kind = "save" /\ Has(q, "finished") => x = p) => Ordered(r, p)
  BY <1>5 DEF Ordered, Has
<1>10. r \in Alerts
  BY <1>3, <1>4 DEF Alerts, A
<1> QED
  BY <1>6, <1>7, <1>8, <1>9, <1>10 DEF r

(* What is said of a queue whose head has been handled.                    *)
LEMMA ShorterQueue ==
  ASSUME NEW q \in Alerts, q # <<>>, NEW p
  PROVE  LET r == Tail(q)  e == Head(q) IN
         /\ r \in Alerts /\ e[1] \in Kinds /\ e[2] \in Nat
         /\ \A k : Has(q, k) <=> Has(r, k) \/ k = e[1]
         /\ Below(q, p) => Below(r, p) /\ (e[1] = "save" => e[2] <= p)
         /\ Full(q, p) => Full(r, p) /\ (e[1] = "save" => e[2] = p)
         /\ Ordered(q, p) => Ordered(r, p) /\ (e[1] = "finished" => Full(r, p))
<1> DEFINE A == {"added", "addfailed", "finished", "error", "save", "savefailed"} \X Nat
           r == Tail(q)
           e == Head(q)
<1>1. q \in Seq(A)
  BY DEF Alerts
<1>2. \A a \in A : a[1] \in Kinds /\ a[2] \in Nat
  BY DEF Kinds
<1> HIDE DEF A
<1>3. /\ r \in Seq(A) /\ Len(q) \in Nat /\ Len(q) >= 1 /\ Len(r) = Len(q) - 1
      /\ \A i \in 1 .. Len(r) : r[i] = q[i + 1]
      /\ e = q[1] /\ e \in A
  BY <1>1
<1>4. r \in Alerts /\ e[1] \in Kinds /\ e[2] \in Nat
  BY <1>2, <1>3 DEF Alerts, A
<1> HIDE DEF r, e
<1>5. \A k : Has(q, k) <=> Has(r, k) \/ k = e[1]
  <2>1. ASSUME NEW k, NEW i \in 1 .. Len(q), q[i][1] = k PROVE Has(r, k) \/ k = e[1]
    <3>1. CASE i = 1
      BY <1>3, <2>1, <3>1
    <3>2. CASE i # 1
      <4>1. i - 1 \in 1 .. Len(r) /\ r[i - 1] = q[i]
        BY <1>3, <3>2
      <4> QED
        BY <2>1, <4>1 DEF Has
    <3> QED
      BY <3>1, <3>2
  <2>2. ASSUME NEW k, Has(r, k) PROVE Has(q, k)
    BY <1>3, <2>2 DEF Has
  <2>3. Has(q, e[1])
    BY <1>3 DEF Has
  <2> QED
    BY <2>1, <2>2, <2>3 DEF Has
<1>6. Below(q, p) => Below(r, p) /\ (e[1] = "save" => e[2] <= p)
  BY <1>3 DEF Below
<1>7. Full(q, p) => Full(r, p) /\ (e[1] = "save" => e[2] = p)
  BY <1>3 DEF Full
<1>8. ASSUME Ordered(q, p) PROVE Ordered(r, p) /\ (e[1] = "finished" => Full(r, p))
  <2>1. Ordered(r, p)
    BY <1>3, <1>8 DEF Ordered
  <2>2. ASSUME e[1] = "finished", NEW j \in 1 .. Len(r), r[j][1] = "save" PROVE r[j][2] = p
    <3>1. j + 1 \in 1 .. Len(q) /\ 1 \in 1 .. Len(q) /\ 1 < j + 1 /\ r[j] = q[j + 1]
      BY <1>3
    <3> QED
      BY <1>3, <1>8, <2>2, <3>1 DEF Ordered
  <2> QED
    BY <2>1, <2>2 DEF Full
<1> QED
  BY <1>4, <1>5, <1>6, <1>7, <1>8 DEF r, e

(* Worker and session records as they go together, with their torrent:     *)
(* before and between calls there is no session; a handle, or the alert    *)
(* that brings it, is of a torrent that is there; and no progress, nor     *)
(* that in a save, is beyond the torrent's pieces.                         *)
Begun(a, s) ==
  /\ a.pc \in {"idle", "load"} => s = NoSession /\ a.alerts = <<>> /\ ~a.h /\ ~a.done
  /\ a.pc \notin {"idle", "load"} => s.status # "none" /\ a.magnet \in Magnets
  /\ a.pc = "pop" => a.alerts = <<>>
  /\ a.pc = "saving" => a.alerts # <<>> /\ Head(a.alerts)[1] = "save"

(* An alert of a kind is in one of the two queues.                         *)
Lists(a, s, kind) == Has(a.alerts, kind) \/ Has(s.alerts, kind)

Progress(a, s) ==
  /\ s.status # "none" => s.progress <= Pieces[a.magnet]
  /\ Below(a.alerts, Pieces[a.magnet]) /\ Below(s.alerts, Pieces[a.magnet])
  /\ a.h \/ Lists(a, s, "added") => s.status \in {"running", "finished", "failed"}

(* The alert "finished" comes when the torrent is complete, so that every  *)
(* save after it is; and a call that is done, and was not stopped, has     *)
(* handled it and awaits such a save.                                      *)
Finishes(a, s) ==
  /\ s.status = "finished" => s.progress = Pieces[a.magnet]
  /\ Lists(a, s, "finished") \/ (a.done /\ ~a.stopped) => s.status = "finished"
  /\ Ordered(a.alerts, Pieces[a.magnet]) /\ Ordered(s.alerts, Pieces[a.magnet])
  /\ Has(a.alerts, "finished") \/ (a.done /\ ~a.stopped) => Full(s.alerts, Pieces[a.magnet])
  /\ a.done /\ ~a.stopped => Full(a.alerts, Pieces[a.magnet])

(* What a call leaves with, unless it was stopped or saving failed, is     *)
(* all.                                                                    *)
Leaving(a, s, f) ==
  /\ Lists(a, s, "savefailed") => f
  /\ a.pc \in {"closing", "writing"} /\ ~a.stopped /\ ~f => a.saved = Pieces[a.magnet]

Good(a, s, f) == Begun(a, s) /\ Progress(a, s) /\ Finishes(a, s) /\ Leaving(a, s, f)

(* The resume data of a torrent is of no more pieces than it has.          *)
ResumeFits == file["resume"].of \in Magnets => file["resume"].progress <= Pieces[file["resume"].of]

(* The inductive invariant of FinishedIsSaved.                             *)
SaveInv == /\ Types /\ SavesAlert /\ ResumeFits
           /\ \A w \in Workers : Good(worker[w], session[w], failed)

(* An error that is reported makes no record worse.                        *)
LEMMA GoodStays == ASSUME NEW a, NEW s, NEW f, NEW g, Good(a, s, f), f => g PROVE Good(a, s, g)
BY DEF Good, Leaving

(* A worker without a call has no session.                                 *)
LEMMA GoodIdle ==
  ASSUME NEW a, NEW f, a.pc \in {"idle", "load"}, a.alerts = <<>>, ~a.h, ~a.done
  PROVE  Good(a, NoSession, f)
<1>1. NoSession.status = "none" /\ NoSession.alerts = <<>>
  BY DEF NoSession
<1>2. \A p, kind : ~Has(<<>>, kind) /\ Below(<<>>, p) /\ Full(<<>>, p) /\ Ordered(<<>>, p)
  BY EmptyQueue
<1> QED
  BY <1>1, <1>2 DEF Good, Begun, Progress, Finishes, Leaving, Lists

(* The locals of a call and its session after each step of torrent().      *)
LEMMA GoodTorrent ==
  ASSUME SaveInv, NEW w \in Workers, torrent(w)
  PROVE  Good(worker'[w], session'[w], failed')
<1> DEFINE a == worker[w]
           s == session[w]
           p == Pieces[a.magnet]
<1>0. /\ worker \in [Workers -> WorkerStates] /\ session \in [Workers -> SessionStates]
      /\ a \in WorkerStates /\ s \in SessionStates /\ Good(a, s, failed)
      /\ a.alerts \in Alerts /\ s.alerts \in Alerts
  BY DEF SaveInv, Types, WorkerStates, SessionStates
<1>1. ASSUME NEW from, NEW new, Runs(w, from, new) PROVE worker'[w] = new /\ a.pc = from
  BY <1>0, <1>1 DEF Runs
<1>2. ASSUME NEW new, session' = [session EXCEPT ![w] = new] PROVE session'[w] = new
  BY <1>0, <1>2
<1>3. ASSUME NEW from, Throw(w, from) PROVE Good(worker'[w], session'[w], failed')
  <2>1. worker'[w] = Idle /\ session'[w] = NoSession
    BY <1>0, <1>3 DEF Throw, Runs
  <2>2. Idle.pc = "idle" /\ Idle.alerts = <<>> /\ ~Idle.h /\ ~Idle.done
    BY DEF Idle
  <2> QED
    BY <2>1, <2>2, GoodIdle
<1>4. CASE LoadFails(w) \/ SaveTooEarly(w) \/ Return(w)
  BY <1>3, <1>4 DEF LoadFails, SaveTooEarly, Return
<1>5. CASE Load(w)
  <2> DEFINE resumed == IF file["resume"].of = a.magnet THEN file["resume"].progress ELSE 0
             b == [a EXCEPT !.pc = "pop"]
             z == [NoSession EXCEPT !.status = "adding", !.progress = resumed]
  <2>1. a.magnet \in Magnets /\ a.pc = "load" /\ worker'[w] = b /\ session'[w] = z /\ failed' = failed
    BY <1>0, <1>5 DEF Load, Runs, WorkerStates, bounds
  <2>2. p \in Nat /\ resumed <= p
    BY <2>1, TorrentAssumption DEF SaveInv, ResumeFits
  <2>3. a.alerts = <<>> /\ ~a.h /\ ~a.done
    BY <1>0, <2>1 DEF Good, Begun
  <2> HIDE DEF resumed
  <2>4. z.status = "adding" /\ z.progress = resumed /\ z.alerts = <<>>
    BY DEF NoSession
  <2>5. b.pc = "pop" /\ b.alerts = <<>> /\ ~b.h /\ ~b.done /\ b.magnet = a.magnet
    BY <1>0, <2>3 DEF WorkerStates
  <2> HIDE DEF b, z
  <2>6. Good(b, z, failed)
    BY <2>1, <2>2, <2>4, <2>5, EmptyQueue DEF Good, Begun, Progress, Finishes, Leaving, Lists
  <2> QED
    BY <2>1, <2>6
<1>6. CASE PopAlerts(w)
  <2> PICK pc \in {"stop", "alerts"} : Runs(w, "pop", [a EXCEPT !.pc = pc, !.alerts = s.alerts])
    BY <1>6 DEF PopAlerts
  <2> DEFINE b == [a EXCEPT !.pc = pc, !.alerts = s.alerts]
             z == [s EXCEPT !.alerts = <<>>]
  <2>1. worker'[w] = b /\ session'[w] = z /\ failed' = failed /\ a.pc = "pop"
    BY <1>0, <1>6 DEF PopAlerts, Runs, bounds
  <2>2. /\ b.pc = pc /\ b.alerts = s.alerts /\ b.h = a.h /\ b.done = a.done /\ b.magnet = a.magnet
        /\ b.stopped = a.stopped
        /\ z.status = s.status /\ z.progress = s.progress /\ z.alerts = <<>>
    BY <1>0 DEF WorkerStates, SessionStates
  <2> HIDE DEF b, z
  <2>3. Good(b, z, failed)
    BY <1>0, <2>1, <2>2, EmptyQueue DEF Good, Begun, Progress, Finishes, Leaving, Lists
  <2> QED
    BY <2>1, <2>3
(* A request leaves of the session what matters.                           *)
<1>7. /\ Request(w) => /\ session'[w].status = s.status /\ session'[w].progress = s.progress
                       /\ session'[w].alerts = s.alerts
      /\ session' = session => session'[w] = s
  BY <1>0 DEF Request, SessionStates
<1>8. CASE StopDownload(w)
  <2>1. /\ a.pc = "stop" /\ failed' = failed
        /\ worker'[w] = [a EXCEPT !.pc = "alerts", !.done = @ \/ Added(w), !.stopped = @ \/ Added(w)]
    BY <1>0, <1>8 DEF StopDownload, Runs, bounds
  <2> DEFINE b == worker'[w]
             z == session'[w]
  <2>2. /\ b.pc = "alerts" /\ b.alerts = a.alerts /\ b.h = a.h /\ b.magnet = a.magnet
        /\ b.done /\ ~b.stopped => a.done /\ ~a.stopped
    BY <1>0, <2>1 DEF WorkerStates
  <2>3. z.status = s.status /\ z.progress = s.progress /\ z.alerts = s.alerts
    BY <1>7, <1>8 DEF StopDownload
  <2> HIDE DEF b, z
  <2>4. Good(b, z, failed)
    BY <1>0, <2>1, <2>2, <2>3 DEF Good, Begun, Progress, Finishes, Leaving, Lists
  <2> QED
    BY <2>1, <2>4 DEF b, z
(* Turns of the loop, and the files opened, change where the call is.      *)
<1>9. ASSUME NEW pc \in {"pop", "alerts", "saving", "writing"}, Runs(w, a.pc, [a EXCEPT !.pc = pc]),
             Request(w) \/ session' = session, failed' = failed,
             a.pc \in {"alerts", "closing"},
             pc = "pop" => a.alerts = <<>>,
             pc = "saving" => a.alerts # <<>> /\ Head(a.alerts)[1] = "save",
             pc = "writing" <=> a.pc = "closing"
      PROVE  Good(worker'[w], session'[w], failed')
  <2> DEFINE b == worker'[w]
             z == session'[w]
  <2>1. /\ b.pc = pc /\ b.alerts = a.alerts /\ b.h = a.h /\ b.done = a.done /\ b.magnet = a.magnet
        /\ b.stopped = a.stopped /\ b.saved = a.saved
    BY <1>0, <1>1, <1>9 DEF WorkerStates
  <2>2. z.status = s.status /\ z.progress = s.progress /\ z.alerts = s.alerts
    BY <1>7, <1>9
  <2> HIDE DEF b, z
  <2>3. Good(b, z, failed)
    BY <1>0, <1>9, <2>1, <2>2 DEF Good, Begun, Progress, Finishes, Leaving, Lists
  <2> QED
    BY <1>9, <2>3 DEF b, z
<1>10. CASE Sleep(w) \/ SavePeriodically(w) \/ HandleSave(w) \/ OpenState(w)
  BY <1>9, <1>10 DEF Sleep, SavePeriodically, HandleSave, OpenState, NextTurn, Runs, bounds
(* The handling of an alert.                                               *)
<1>11. ASSUME NEW b \in WorkerStates, a.alerts # <<>>, worker'[w] = b, a.pc \in {"alerts", "saving"},
              b.alerts = Tail(a.alerts), b.magnet = a.magnet,
              Request(w) \/ session' = session, failed' = failed,
              b.pc \in {"alerts", "closing"},
              b.h => a.h \/ Head(a.alerts)[1] = "added",
              b.done /\ ~b.stopped => (a.done /\ ~a.stopped) \/ Head(a.alerts)[1] = "finished",
              b.pc = "closing" => b.done,
              b.pc = "closing" /\ ~b.stopped =>
                /\ a.done /\ ~a.stopped
                /\ \/ Head(a.alerts)[1] = "savefailed"
                   \/ Head(a.alerts)[1] = "save" /\ b.saved = Head(a.alerts)[2]
       PROVE  Good(worker'[w], session'[w], failed')
  <2> DEFINE r == Tail(a.alerts)
             e == Head(a.alerts)
             z == session'[w]
  <2>1. /\ \A k : Has(a.alerts, k) <=> Has(r, k) \/ k = e[1]
        /\ Below(a.alerts, p) => Below(r, p)
        /\ Full(a.alerts, p) => Full(r, p) /\ (e[1] = "save" => e[2] = p)
        /\ Ordered(a.alerts, p) => Ordered(r, p) /\ (e[1] = "finished" => Full(r, p))
    BY <1>0, <1>11, ShorterQueue
  <2>2. z.status = s.status /\ z.progress = s.progress /\ z.alerts = s.alerts
    BY <1>7, <1>11
  <2> HIDE DEF r, e, z
  <2>3. b.alerts = r
    BY <1>11 DEF r
  <2>4. /\ b.h => a.h \/ e[1] = "added"
        /\ b.done /\ ~b.stopped => (a.done /\ ~a.stopped) \/ e[1] = "finished"
        /\ b.pc = "closing" /\ ~b.stopped =>
                /\ a.done /\ ~a.stopped
                /\ \/ e[1] = "savefailed"
                   \/ e[1] = "save" /\ b.saved = e[2]
    BY <1>11 DEF e
  <2>5. Begun(b, z)
    BY <1>0, <1>11, <2>2 DEF Good, Begun
  <2>6. Progress(b, z)
    BY <1>0, <1>11, <2>1, <2>2, <2>3, <2>4 DEF Good, Progress, Lists
  <2>7. Finishes(b, z)
    BY <1>0, <1>11, <2>1, <2>2, <2>3, <2>4 DEF Good, Finishes, Lists
  <2>8. Leaving(b, z, failed)
    BY <1>0, <1>11, <2>1, <2>2, <2>3, <2>4 DEF Good, Finishes, Leaving, Lists
  <2> QED
    BY <1>11, <2>5, <2>6, <2>7, <2>8 DEF Good, z
<1>12. ASSUME a.alerts # <<>>
       PROVE  Tail(a.alerts) \in Alerts /\ Head(a.alerts)[1] \in Kinds /\ Head(a.alerts)[2] \in Nat
  BY <1>0, <1>12, ShorterQueue
<1>13. CASE HandleAdded(w)
  <2> PICK kind \in {"added", "addfailed"} : Handles(w, kind, [a EXCEPT !.h = (kind = "added")])
    BY <1>13 DEF HandleAdded
  <2> DEFINE b == [a EXCEPT !.h = (kind = "added"), !.alerts = Tail(a.alerts)]
  <2>1. /\ a.alerts # <<>> /\ Head(a.alerts)[1] = kind /\ a.pc = "alerts"
        /\ session' = session /\ failed' = failed
    BY <1>13 DEF HandleAdded, Handles, Runs, bounds
  <2>2. worker'[w] = b
    BY <1>0 DEF Handles, Runs, WorkerStates
  <2>3. (kind = "added") \in BOOLEAN
    OBVIOUS
  <2>4. b \in WorkerStates
    BY <1>0, <1>12, <2>1, <2>3 DEF WorkerStates
  <2>5. /\ b.alerts = Tail(a.alerts) /\ b.magnet = a.magnet /\ b.pc = "alerts"
        /\ b.h => kind = "added"
        /\ b.done = a.done /\ b.stopped = a.stopped
    BY <1>0, <2>1, Zenon DEF WorkerStates
  <2> HIDE DEF b
  <2> QED
    BY <1>11, <2>1, <2>2, <2>4, <2>5
<1>14. CASE HandleFinished(w)
  <2> DEFINE b == [a EXCEPT !.done = TRUE, !.alerts = Tail(a.alerts)]
  <2>1. /\ a.alerts # <<>> /\ Head(a.alerts)[1] = "finished" /\ a.pc = "alerts"
        /\ Request(w) /\ failed' = failed
        /\ worker'[w] = b
    BY <1>0, <1>14 DEF HandleFinished, Handles, Runs, bounds, WorkerStates
  <2>2. /\ b \in WorkerStates
        /\ b.alerts = Tail(a.alerts) /\ b.magnet = a.magnet /\ b.pc = "alerts" /\ b.h = a.h
    BY <1>0, <1>12, <2>1 DEF WorkerStates
  <2> HIDE DEF b
  <2> QED
    BY <1>11, <2>1, <2>2
<1>15. CASE HandleError(w)
  <2> DEFINE b == [a EXCEPT !.done = TRUE, !.stopped = TRUE, !.alerts = Tail(a.alerts)]
  <2>1. /\ a.alerts # <<>> /\ Head(a.alerts)[1] = "error" /\ a.pc = "alerts"
        /\ Request(w) /\ failed' = failed
        /\ worker'[w] = b
    BY <1>0, <1>15 DEF HandleError, Handles, Runs, bounds, WorkerStates
  <2>2. /\ b \in WorkerStates /\ b.stopped
        /\ b.alerts = Tail(a.alerts) /\ b.magnet = a.magnet /\ b.pc = "alerts" /\ b.h = a.h
    BY <1>0, <1>12, <2>1 DEF WorkerStates
  <2> HIDE DEF b
  <2> QED
    BY <1>11, <2>1, <2>2
<1>16. CASE HandleSaveFailed(w)
  <2> DEFINE b == [a EXCEPT !.pc = AfterSave(w), !.alerts = Tail(a.alerts)]
  <2>1. /\ a.alerts # <<>> /\ Head(a.alerts)[1] = "savefailed" /\ a.pc = "alerts"
        /\ session' = session /\ failed' = failed
        /\ worker'[w] = b
    BY <1>0, <1>16 DEF HandleSaveFailed, Handles, Runs, bounds, WorkerStates
  <2>2. /\ b \in WorkerStates /\ b.done = a.done /\ b.stopped = a.stopped
        /\ b.alerts = Tail(a.alerts) /\ b.magnet = a.magnet /\ b.h = a.h
        /\ b.pc = IF a.done THEN "closing" ELSE "alerts"
    BY <1>0, <1>12, <2>1 DEF WorkerStates, AfterSave
  <2> HIDE DEF b
  <2> QED
    BY <1>11, <2>1, <2>2
<1>17. CASE WriteResume(w)
  <2> DEFINE b == [a EXCEPT !.pc = AfterSave(w), !.alerts = Tail(a.alerts), !.saved = Head(a.alerts)[2]]
  <2>1. /\ a.alerts # <<>> /\ a.pc = "saving"
        /\ session' = session /\ failed' = failed
        /\ worker'[w] = b
    BY <1>0, <1>17 DEF WriteResume, Runs, bounds, WorkerStates, Good, Begun
  <2>2. /\ b \in WorkerStates /\ b.done = a.done /\ b.stopped = a.stopped
        /\ b.alerts = Tail(a.alerts) /\ b.magnet = a.magnet /\ b.h = a.h
        /\ b.saved = Head(a.alerts)[2]
        /\ b.pc = IF a.done THEN "closing" ELSE "alerts"
    BY <1>0, <1>12, <2>1 DEF WorkerStates, AfterSave
  <2>3. Head(a.alerts)[1] = "save"
    BY <1>0, <2>1 DEF Good, Begun
  <2> HIDE DEF b
  <2> QED
    BY <1>11, <2>1, <2>2, <2>3
<1> QED
  BY <1>4, <1>5, <1>6, <1>8, <1>10, <1>13, <1>14, <1>15, <1>16, <1>17 DEF torrent

(* The session, when libtorrent answers or downloads.                      *)
LEMMA GoodSession ==
  ASSUME SaveInv, NEW w \in Workers, Answers(w) \/ Download(w) \/ Fail(w)
  PROVE  Good(worker'[w], session'[w], failed')
<1> DEFINE a == worker[w]
           s == session[w]
           p == Pieces[a.magnet]
<1>0. /\ worker \in [Workers -> WorkerStates] /\ session \in [Workers -> SessionStates]
      /\ a \in WorkerStates /\ s \in SessionStates /\ Good(a, s, failed)
      /\ s.alerts \in Alerts /\ failed \in BOOLEAN
  BY DEF SaveInv, Types, WorkerStates, SessionStates
<1>1. ASSUME s.status # "none" PROVE a.pc \notin {"idle", "load"} /\ p \in Nat
  BY <1>0, <1>1, TorrentAssumption DEF Good, Begun, NoSession
<1>2. CASE Download(w)
  <2> DEFINE z == session'[w]
  <2>1. /\ s.status = "running" /\ s.progress < p /\ worker' = worker /\ failed' = failed
        /\ z.status = "running" /\ z.progress = s.progress + 1 /\ z.alerts = s.alerts
    BY <1>0, <1>2 DEF Download, bounds, SessionStates
  <2>2. s.progress \in Nat /\ p \in Nat /\ a.pc \notin {"idle", "load"}
    BY <1>0, <1>1, <2>1 DEF SessionStates
  <2> HIDE DEF z
  <2>3. Good(a, z, failed)
    BY <1>0, <2>1, <2>2 DEF Good, Begun, Progress, Finishes, Leaving, Lists
  <2> QED
    BY <2>1, <2>3 DEF z
(* An alert that is posted.                                                *)
<1>3. ASSUME NEW kind \in Kinds, NEW x \in Nat, s.status # "none", worker' = worker, failed => failed',
             session'[w].alerts = Append(s.alerts, <<kind, x>>),
             session'[w].progress = s.progress,
             session'[w].status # "none",
             session'[w].status = s.status \/ (s.status \in {"adding", "running"} /\ kind # "save"),
             s.status = "running" => session'[w].status \in {"running", "finished", "failed"},
             kind = "added" => session'[w].status = "running",
             session'[w].status = "finished" => s.status = "finished" \/ s.progress = p,
             kind = "finished" => session'[w].status = "finished",
             kind = "save" => x = s.progress,
             kind = "savefailed" => failed'
      PROVE  Good(worker'[w], session'[w], failed')
  <2> DEFINE z == session'[w]
             r == Append(s.alerts, <<kind, x>>)
  <2>1. /\ \A k : Has(r, k) <=> Has(s.alerts, k) \/ k = kind
        /\ Below(s.alerts, p) /\ (kind = "save" => x <= p) => Below(r, p)
        /\ Full(s.alerts, p) /\ (kind = "save" => x = p) => Full(r, p)
        /\ Ordered(s.alerts, p) /\ (kind = "save" /\ Has(s.alerts, "finished") => x = p) => Ordered(r, p)
    BY <1>0, <1>3, LongerQueue
  <2>2. a.pc \notin {"idle", "load"}
    BY <1>1, <1>3
  <2> HIDE DEF r
  <2>3. z.alerts = r
    BY <1>3 DEF r
  <2>4. Begun(a, z)
    BY <1>0, <1>3, <2>2 DEF Good, Begun
  <2>5. Progress(a, z)
    BY <1>0, <1>3, <2>1, <2>3 DEF Good, Progress, Lists
  <2>6. Finishes(a, z)
    BY <1>0, <1>3, <2>1, <2>3 DEF Good, Finishes, Lists
  <2>7. Leaving(a, z, failed')
    BY <1>0, <1>3, <2>1, <2>3 DEF Good, Leaving, Lists
  <2> QED
    BY <1>3, <2>4, <2>5, <2>6, <2>7 DEF Good
<1>4. ASSUME NEW status, NEW alert, Post(w, status, s.progress, alert)
      PROVE  /\ session'[w].status = status /\ session'[w].progress = s.progress
             /\ session'[w].alerts = Append(s.alerts, alert) /\ worker' = worker
  BY <1>0, <1>4 DEF Post, SessionStates
<1>5. Errs \/ NoError => (failed => failed')
  BY DEF Errs, NoError
<1>6. CASE Add(w)
  <2>1. CASE Post(w, "running", s.progress, <<"added", 0>>) /\ NoError
    BY <1>3, <1>4, <1>5, <1>6, <2>1 DEF Add, Kinds
  <2>2. CASE Post(w, "refused", s.progress, <<"addfailed", 0>>) /\ Errs
    BY <1>3, <1>4, <1>5, <1>6, <2>2 DEF Add, Kinds
  <2> QED
    BY <1>6, <2>1, <2>2 DEF Add
<1>7. CASE Finish(w)
  BY <1>3, <1>4, <1>5, <1>7 DEF Finish, Kinds
<1>8. CASE Fail(w)
  BY <1>3, <1>4, <1>5, <1>8 DEF Fail, Kinds
<1>9. s.requests > 0 => s.status # "none"
  BY <1>0 DEF Good, Begun, NoSession
<1>10. CASE AnswerSave(w)
  <2>1. /\ session'[w].status = s.status /\ session'[w].progress = s.progress /\ s.progress \in Nat
        /\ session'[w].alerts = Append(s.alerts, <<"save", s.progress>>)
        /\ worker' = worker /\ failed' = failed /\ s.status # "none"
    BY <1>0, <1>9, <1>10 DEF AnswerSave, SessionStates, bounds
  <2> QED
    BY <1>3, <2>1 DEF Kinds
<1>11. CASE RefuseSave(w)
  <2>1. /\ session'[w].status = s.status /\ session'[w].progress = s.progress
        /\ session'[w].alerts = Append(s.alerts, <<"savefailed", 0>>)
        /\ worker' = worker /\ failed' /\ s.status # "none"
    BY <1>0, <1>9, <1>11 DEF RefuseSave, SessionStates, Errs
  <2> QED
    BY <1>3, <2>1 DEF Kinds
<1> QED
  BY <1>2, <1>6, <1>7, <1>8, <1>10, <1>11 DEF Answers

(* The other records stay as they are, and what is saved fits.             *)
LEMMA SaveStep == SaveInv /\ [Next]_vars => SaveInv'
<1> SUFFICES ASSUME SaveInv, [Next]_vars PROVE SaveInv'
  OBVIOUS
<1>0. /\ Types /\ SavesAlert /\ ResumeFits /\ Types' /\ failed \in BOOLEAN
      /\ worker \in [Workers -> WorkerStates] /\ session \in [Workers -> SessionStates]
      /\ \A v \in Workers : Good(worker[v], session[v], failed)
  BY TypesStep DEF SaveInv, Types
<1>1. ASSUME \A v \in Workers : Good(worker'[v], session'[v], failed'), ResumeFits' PROVE SaveInv'
  <2>1. \A v \in Workers : worker'[v].pc = "saving" => worker'[v].alerts # <<>>
    BY <1>1 DEF Good, Begun
  <2> QED
    BY <1>0, <1>1, <2>1 DEF SaveInv, SavesAlert
<1>2. ASSUME NEW w \in Workers, Good(worker'[w], session'[w], failed'), failed => failed',
             \A v \in Workers : v # w => worker'[v] = worker[v] /\ session'[v] = session[v]
      PROVE  \A v \in Workers : Good(worker'[v], session'[v], failed')
  BY <1>0, <1>2, GoodStays
<1>3. CASE \E w \in Workers : torrent(w)
  <2> PICK w \in Workers : torrent(w)
    BY <1>3
  <2>1. failed' = failed
    BY Zenon DEF torrent, LoadFails, Load, PopAlerts, StopDownload, HandleAdded, HandleFinished,
       HandleError, HandleSaveFailed, HandleSave, WriteResume, Sleep, SavePeriodically,
       SaveTooEarly, OpenState, Return, bounds
  <2>2. \A v \in Workers : v # w => worker'[v] = worker[v]
    BY <1>0, Shapes DEF Quiet, Opens, Writes, Moves
  <2>3. session' = session \/ Request(w) \/ \E z : session' = [session EXCEPT ![w] = z]
    BY Zenon DEF torrent, LoadFails, Load, PopAlerts, StopDownload, HandleAdded, HandleFinished,
       HandleError, HandleSaveFailed, HandleSave, WriteResume, Sleep, SavePeriodically,
       SaveTooEarly, OpenState, Return, Throw
  <2>4. \A v \in Workers : v # w => session'[v] = session[v]
    BY <1>0, <2>3 DEF Request
  <2>5. Good(worker'[w], session'[w], failed')
    BY GoodTorrent
  <2>6. ResumeFits'
    <3>1. CASE file' = file
      BY <1>0, <3>1 DEF ResumeFits
    <3>2. CASE HandleSave(w) \/ OpenState(w) \/ Return(w)
      <4>1. file'["resume"].of = NoMagnet \/ file'["resume"] = file["resume"]
        BY <1>0, <3>2 DEF HandleSave, OpenState, Return, OpenTruncated, Opened, Write, Empty, Types, Names
      <4> QED
        BY <1>0, <4>1, TorrentAssumption DEF ResumeFits
    <3>3. CASE WriteResume(w)
      <4> DEFINE a == worker[w]
                 x == Head(a.alerts)[2]
      <4>1. a.pc = "saving" /\ a \in WorkerStates /\ Good(a, session[w], failed)
        BY <1>0, <3>3 DEF WriteResume, Runs
      <4>2. a.alerts # <<>> /\ Head(a.alerts)[1] = "save" /\ a.alerts \in Alerts
            /\ Below(a.alerts, Pieces[a.magnet])
        BY <4>1 DEF Good, Begun, Progress, WorkerStates
      <4>3. x <= Pieces[a.magnet]
        BY <4>2, ShorterQueue
      <4> HIDE DEF x, a
      <4>4. file'["resume"] = Data(a.magnet, x) \/ file'["resume"] = Torn
        BY <1>0, <3>3 DEF WriteResume, Write, Types, Names, a, x
      <4> QED
        BY <4>3, <4>4, TorrentAssumption DEF ResumeFits, Data, Torn, Empty
    <3> QED
      BY <3>1, <3>2, <3>3, Zenon DEF torrent, LoadFails, Load, PopAlerts, StopDownload, HandleAdded,
         HandleFinished, HandleError, HandleSaveFailed, Sleep, SavePeriodically, SaveTooEarly
  <2> QED
    BY <1>1, <1>2, <2>1, <2>2, <2>4, <2>5, <2>6
<1>4. CASE \E w \in Workers : Call(w)
  <2> PICK w \in Workers : Call(w)
    BY <1>4
  <2> DEFINE b == [Idle EXCEPT !.pc = "load", !.magnet = Head(calls[w])]
  <2>1. /\ worker[w].pc = "idle" /\ worker' = [worker EXCEPT ![w] = b] /\ session' = session
        /\ file' = file /\ failed' = failed
    BY DEF Call, Runs
  <2>2. b.pc = "load" /\ b.alerts = <<>> /\ ~b.h /\ ~b.done
    BY DEF Idle
  <2> HIDE DEF b
  <2>3. session[w] = NoSession
    BY <1>0, <2>1 DEF Good, Begun
  <2>4. Good(worker'[w], session'[w], failed')
    BY <1>0, <2>1, <2>2, <2>3, GoodIdle
  <2> QED
    BY <1>0, <1>1, <1>2, <2>1, <2>4 DEF ResumeFits
<1>5. CASE \E w \in Workers : Answers(w) \/ Download(w) \/ Fail(w)
  <2> PICK w \in Workers : Answers(w) \/ Download(w) \/ Fail(w)
    BY <1>5
  <2>1. /\ worker' = worker /\ file' = file /\ (failed => failed')
        /\ \A v \in Workers : v # w => session'[v] = session[v]
    BY <1>0 DEF Answers, Add, Finish, AnswerSave, RefuseSave, Download, Fail, Post, Errs, NoError, bounds
  <2>2. Good(worker'[w], session'[w], failed')
    BY GoodSession
  <2> QED
    BY <1>0, <1>1, <1>2, <2>1, <2>2 DEF ResumeFits
<1>6. CASE Interrupt \/ UNCHANGED vars
  BY <1>0, <1>1, <1>6 DEF Interrupt, vars, bounds, ResumeFits
<1> QED
  BY <1>3, <1>4, <1>5, <1>6 DEF Next

(* Before the first call there is no session and no file.                  *)
LEMMA InitSave == Init => SaveInv
<1> SUFFICES ASSUME Init PROVE SaveInv
  OBVIOUS
<1>1. Types /\ \A w \in Workers : worker[w] = Idle /\ session[w] = NoSession
  BY InitTypes DEF Init
<1>2. Idle.pc = "idle" /\ Idle.alerts = <<>> /\ ~Idle.h /\ ~Idle.done
  BY DEF Idle
<1>3. Good(Idle, NoSession, failed)
  BY <1>2, GoodIdle
<1>4. ResumeFits
  BY TorrentAssumption DEF Init, ResumeFits, Empty, Names
<1> QED
  BY <1>1, <1>2, <1>3, <1>4 DEF SaveInv, SavesAlert

(* The variables keep their types; a handle is of a torrent that is there, *)
(* and no session counts more pieces than its torrent has, whatever resume *)
(* data an earlier call, or another worker's, has left for it.             *)
THEOREM TypeCorrect == Spec => []TypeOK
<1>1. SaveInv => TypeOK
  <2> SUFFICES ASSUME SaveInv PROVE TypeOK
    OBVIOUS
  <2>1. ASSUME NEW w \in Workers
        PROVE  /\ worker[w].h => Added(w)
               /\ Added(w) => session[w].progress <= Pieces[worker[w].magnet]
    BY DEF SaveInv, Good, Progress, Added
  <2> QED
    BY <2>1 DEF SaveInv, TypeOK
<1> QED
  BY InitSave, SaveStep, <1>1, PTL DEF Spec

(* A download that came to its end, and that neither SIGINT nor an error   *)
(* ended before, has saved the complete torrent when torrent() is left:    *)
(* the saves asked for before it finished may still be answered before or  *)
(* after, and none of them ends the loop with less.                        *)
THEOREM SavesFinished == Spec => []FinishedIsSaved
<1>1. SaveInv => FinishedIsSaved
  BY DEF SaveInv, Good, Leaving, FinishedIsSaved
<1> QED
  BY InitSave, SaveStep, <1>1, PTL DEF Spec
=============================================================================
