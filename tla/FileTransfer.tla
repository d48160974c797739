---------------------------- MODULE FileTransfer ----------------------------
(***************************************************************************)
(* A4/question2: Server/server.cpp answers FILE, STAT and EXIT on one      *)
(* thread per connection; Client/client.cpp sends the commands its user    *)
(* types.  They talk over TCP, where a read returns what has arrived and   *)
(* may be shorter than the message written, and neither side frames its    *)
(* messages or reads again.                                                *)
(*                                                                         *)
(* A stream is a sequence of units <<kind, value, part>>: a header is      *)
(* HeaderLen units (5, 9 and 10 bytes in the code), a file name NameLen, a *)
(* byte of a file or a line of the statistics one unit.  What a buffer     *)
(* holds beyond a short read is a choice among what its stale bytes mean.  *)
(***************************************************************************)
EXTENDS Integers, Sequences, FiniteSets, SequencesExt

CONSTANTS Users,       \* the users, each with one client and one connection
          Files,       \* the names of regular files
          NoFile,      \* a name that no file has
          HeaderLen,   \* units of a command, a status or a size
          NameLen,     \* units of a file name
          Chunk,       \* units that one read of a loop asks for
          MaxFds,      \* descriptors that connections and files may take
          MaxSize,     \* bound: units of a file
          Bounds       \* bounds: commands that each user types; mishaps, which are short
                       \*   reads of headers, changes of files, and copies that cannot
                       \*   be opened or written; files there are at first

ASSUME TransferAssumption ==
  /\ NoFile \notin Files /\ IsFiniteSet(Files) /\ IsFiniteSet(Users)
  /\ {HeaderLen, NameLen, Chunk, MaxFds} \subseteq Nat \ {0}
  /\ MaxSize \in Nat /\ Bounds \subseteq [commands : [Users -> Nat], mishaps : Nat, files : SUBSET Files]

VARIABLES disk,     \* the length of each file, -1 when there is none
          up,       \* the server process runs
          server,   \* serve: the locals of the thread of each connection
          client,   \* main: the locals of each client, and what its user has got
          toServer, toClient,  \* the two directions of each connection
          mishaps,  \* what is left of the bound
          sound     \* history: no name, status or size was read in pieces on the
                    \*   connection, and no file changed under way

vars == <<disk, up, server, client, toServer, toClient, mishaps, sound>>

Header(kind, value, len) == [k \in 1..len |-> <<kind, value, k>>]
IsHeader(units, kind) == \A k \in DOMAIN units : units[k][1] = kind /\ units[k][3] = k
FileUnits(f, from, to) == [k \in 1..(to - from) |-> <<"data", f, from + k>>]
Statistics(n, files) == <<<<"count", n, 1>>>> \o SetToSeq({<<"file", f, 1>> : f \in files})

Init ==
  /\ up = TRUE
  /\ server = [u \in Users |-> [pc |-> "none", fname |-> NoFile, size |-> 0, offset |-> 0,
                                numBytesSent |-> 0, filesDownloaded |-> {}, open |-> 0]]
  /\ \E bound \in Bounds :
       /\ client = [u \in Users |-> [pc |-> "away", fname |-> NoFile, size |-> 0, file |-> <<>>,
                                     copy |-> <<>>, filefd |-> FALSE, kept |-> FALSE,
                                     response |-> <<>>, commands |-> bound.commands[u],
                                     received |-> 0, saved |-> {}]]
       /\ mishaps = bound.mishaps
       /\ disk = [f \in Files |-> IF f \in bound.files THEN MaxSize ELSE -1]
  /\ toServer = [u \in Users |-> <<>>]
  /\ toClient = [u \in Users |-> <<>>]
  /\ sound = [u \in Users |-> TRUE]

Gone(u) == client[u].pc = "gone"
Listening(u) == up /\ server[u].pc # "closed"     \* the server's end is open

(* A step of one side, which leaves the other alone; new is its state.     *)
Serves(u, from, new) == /\ up /\ server[u].pc = from
                        /\ server' = [server EXCEPT ![u] = new]
                        /\ UNCHANGED <<disk, client>>
Acts(u, from, new) == /\ client[u].pc = from
                      /\ client' = [client EXCEPT ![u] = new]
                      /\ UNCHANGED <<disk, up, server>>
Silently == UNCHANGED <<up, toServer, toClient, mishaps, sound>>

(* So many mishaps happen in a step.                                       *)
Costs(many) == many <= mishaps /\ mishaps' = mishaps - many
If(wrong) == IF wrong THEN 1 ELSE 0

(* read: between one unit and as many as were asked for and have come;     *)
(* it is short when fewer than len, the length of the header, are taken.   *)
ReadLengths(stream, max) == {n \in 1..max : n <= Len(stream)}
Rest(stream, n) == SubSeq(stream, n + 1, Len(stream))
StaysSound(u, still) == sound' = [sound EXCEPT ![u] = @ /\ still]
ServerReads(u, n, len, still) == /\ toServer' = [toServer EXCEPT ![u] = Rest(@, n)]
                                 /\ StaysSound(u, still) /\ Costs(If(n < len))
                                 /\ UNCHANGED <<up, toClient>>
ClientReads(u, n) == toClient' = [toClient EXCEPT ![u] = Rest(@, n)] /\ UNCHANGED toServer

(* write to a client that is gone: the units are lost, and the kernel may  *)
(* kill the process (SIGPIPE is not handled).                              *)
ServerWrites(u, units) == /\ IF Gone(u)
                               THEN up' \in BOOLEAN /\ UNCHANGED toClient
                               ELSE up' = up /\ toClient' = [toClient EXCEPT ![u] = @ \o units]
                          /\ UNCHANGED <<toServer, mishaps, sound>>

-----------------------------------------------------------------------------
(* A thread holds its socket, which only a short read closes, and every    *)
(* file it has opened, which it never closes: they belong to the process   *)
(* and stay after the thread returns.                                      *)
Full == MapThenSumSet(LAMBDA u : server[u].open, Users) >= MaxFds

(* The client connects, if its user has commands to type; the server       *)
(* accepts and starts a thread; the user may kill the client at any time.  *)
Connect(u) == /\ client[u].commands > 0
              /\ Acts(u, "away", [client[u] EXCEPT !.pc = IF up THEN "prompt" ELSE "gone"])
              /\ UNCHANGED <<toServer, toClient, mishaps, sound>>

Accept(u) == /\ client[u].pc # "away" /\ ~Full
             /\ Serves(u, "none", [server[u] EXCEPT !.pc = "command", !.open = 1])
             /\ Silently

(* accept fails while the process is full, at once and again and again:    *)
(* each time main starts a thread for descriptor -1, which ends.  Threads  *)
(* are never joined, so a process that stays full runs out of them, the    *)
(* constructor of a thread throws, and the process dies.                   *)
AcceptFails == /\ up /\ Full /\ up' = FALSE
               /\ UNCHANGED <<disk, server, client, toServer, toClient, mishaps, sound>>

Kill(u) == /\ client[u].pc \notin {"away", "gone"}
           /\ client' = [client EXCEPT ![u].pc = "gone"]
           /\ UNCHANGED <<disk, server>> /\ Silently

(* Someone writes, truncates, creates or removes a file of the server.  An *)
(* open file that is removed is still read to its end, so its removal      *)
(* might as well come after; one that is measured or open and gets another *)
(* length makes the announced size wrong.                                  *)
Using(f, points) == {u \in Users : server[u].fname = f /\ server[u].pc \in points}

Change(f, len) ==
  /\ mishaps > 0 /\ len # disk[f]
  /\ len = -1 => Using(f, {"size", "send"}) = {}
  /\ disk' = [disk EXCEPT ![f] = len]
  /\ mishaps' = mishaps - 1
  /\ sound' = [u \in Users |-> /\ sound[u]
                               /\ len = -1 \/ u \notin Using(f, {"reopen", "size", "send"})]
  /\ UNCHANGED <<up, server, client, toServer, toClient>>

-----------------------------------------------------------------------------
(* serve, the thread of one connection.                                    *)
CommandIn(units) == IF Len(units) < HeaderLen THEN "closed"
                    ELSE CASE IsHeader(units, "FILE") -> "name"
                           [] IsHeader(units, "STAT") -> "stat"
                           [] IsHeader(units, "EXIT") -> "left"
                           [] OTHER -> "command"

AfterClose(open, next) == IF next = "closed" THEN open - 1 ELSE open

(* A command that comes in pieces is no command: the connection is closed. *)
ReadCommand(u) ==
  \E n \in ReadLengths(toServer[u], HeaderLen) :
    /\ LET next == CommandIn(SubSeq(toServer[u], 1, n)) IN
       Serves(u, "command", [server[u] EXCEPT !.pc = next, !.open = AfterClose(@, next)])
    /\ ServerReads(u, n, HeaderLen, TRUE)

(* A short read of the name leaves the end of it in the stream; what is in *)
(* the buffer may already be the whole name, or else no file's.            *)
ReadName(u) ==
  \E n \in ReadLengths(toServer[u], NameLen) :
    /\ \E name \in {toServer[u][1][2]} \union (IF n < NameLen THEN {NoFile} ELSE {}) :
         Serves(u, "name", [server[u] EXCEPT !.pc = "measure", !.fname = name])
    /\ ServerReads(u, n, NameLen, n = NameLen)

(* A read finds that the client is gone: in place of a command it closes   *)
(* the connection, in place of a name it goes on to the next command.      *)
ReadNothing(u) == /\ Gone(u)
                  /\ \/ Serves(u, "command", [server[u] EXCEPT !.pc = "closed", !.open = AfterClose(@, "closed")])
                     \/ Serves(u, "name", [server[u] EXCEPT !.pc = "command"])
                  /\ Silently

Exists(f) == f \in Files /\ disk[f] # -1

(* fopen and open fail when there is no file, or no free descriptor.       *)
CanOpen(f) == Exists(f) /\ ~Full

(* fopen, fseek, ftell, fclose.                                            *)
Measure(u) == LET f == server[u].fname IN
  /\ CanOpen(f)
  /\ Serves(u, "measure", [server[u] EXCEPT !.pc = "reopen", !.size = disk[f]])
  /\ Silently

(* fopen failed, and fclose is called all the same: it reads through the   *)
(* null pointer and the process dies.                                      *)
CloseNull(u) == /\ ~CanOpen(server[u].fname)
                /\ Serves(u, "measure", server[u])
                /\ up' = FALSE
                /\ UNCHANGED <<toServer, toClient, mishaps, sound>>

(* open: the file of Measure, or the descriptor it used, may have gone.    *)
Reopen(u) == /\ CanOpen(server[u].fname)
             /\ Serves(u, "reopen", [server[u] EXCEPT !.pc = "size", !.offset = 0, !.open = @ + 1])
             /\ ServerWrites(u, Header("FOUND", 0, HeaderLen))

NotFound(u) == /\ ~CanOpen(server[u].fname)
               /\ Serves(u, "reopen", [server[u] EXCEPT !.pc = "command"])
               /\ ServerWrites(u, Header("NOTFOUND", 0, HeaderLen))

SendSize(u) == /\ Serves(u, "size", [server[u] EXCEPT !.pc = "send"])
               /\ ServerWrites(u, Header("size", server[u].size, HeaderLen))

(* What the next read of the open file returns.                            *)
Available(u) == LET ahead == disk[server[u].fname] - server[u].offset IN
                IF ahead > Chunk THEN Chunk ELSE ahead

(* One turn of the loop, which moves on by step units and counts counted.  *)
(* A write that fails without killing the process ends the loop.           *)
Turn(u, step, counted) ==
  LET s == server[u] IN
  /\ \E next \in {"send"} \union (IF Gone(u) THEN {"finish"} ELSE {}) :
       Serves(u, "send", [s EXCEPT !.pc = next, !.offset = @ + step,
                                   !.numBytesSent = @ + counted])
  /\ Available(u) > 0
  /\ ServerWrites(u, FileUnits(s.fname, s.offset, s.offset + Available(u)))

(* Two mistakes this code could have made, kept to see the properties      *)
(* notice: the size of the buffer taken for what was read.                 *)
SendChunkSkips(u) == server[u].pc = "send" /\ Turn(u, Chunk, Available(u))
SendChunkCountsBuffer(u) == server[u].pc = "send" /\ Turn(u, Available(u), Chunk)

SendChunk(u) == server[u].pc = "send" /\ Turn(u, Available(u), Available(u))

FinishFile(u) ==
  LET done == [server[u] EXCEPT !.pc = "command", !.filesDownloaded = @ \union {server[u].fname}]
  IN /\ \/ Serves(u, "finish", done)
        \/ Serves(u, "send", done) /\ Available(u) <= 0
     /\ Silently

(* STAT: the size of the text, then the text.                              *)
SendSizeOfText(u, size) == /\ Serves(u, "stat", [server[u] EXCEPT !.pc = "text"])
                           /\ ServerWrites(u, Header("size", size, HeaderLen))

(* As SendStatSize, without the line of the count.                         *)
SendStatSizeShort(u) == SendSizeOfText(u, Cardinality(server[u].filesDownloaded))

SendStatSize(u) == SendSizeOfText(u, 1 + Cardinality(server[u].filesDownloaded))

SendStat(u) == /\ Serves(u, "text", [server[u] EXCEPT !.pc = "command"])
               /\ ServerWrites(u, Statistics(server[u].numBytesSent, server[u].filesDownloaded))

serve(u) == \/ Accept(u) \/ ReadCommand(u) \/ ReadName(u) \/ ReadNothing(u)
            \/ Measure(u) \/ CloseNull(u) \/ Reopen(u) \/ NotFound(u)
            \/ SendSize(u) \/ SendChunk(u) \/ FinishFile(u) \/ SendStatSize(u) \/ SendStat(u)

-----------------------------------------------------------------------------
(* The client's main.  A write to a server that has closed is lost, or     *)
(* kills the client.                                                       *)
Writes(u, from, new, units) ==
  /\ \/ Acts(u, from, new)
     \/ ~Listening(u) /\ Acts(u, from, [client[u] EXCEPT !.pc = "gone"])
  /\ toServer' = IF Listening(u) THEN [toServer EXCEPT ![u] = @ \o units] ELSE toServer
  /\ UNCHANGED <<toClient, mishaps, sound>>

Command(u, kind, new) ==
  /\ client[u].commands > 0
  /\ Writes(u, "prompt", [new EXCEPT !.commands = @ - 1, !.response = <<>>],
            Header(kind, 0, HeaderLen))

AskFile(u, f) == Command(u, "FILE", [client[u] EXCEPT !.pc = "name", !.fname = f])
AskStat(u) == Command(u, "STAT", [client[u] EXCEPT !.pc = "statsize"])
Exit(u) == Command(u, "EXIT", [client[u] EXCEPT !.pc = "gone"])

SendName(u) == Writes(u, "name", [client[u] EXCEPT !.pc = "status"],
                      Header("name", client[u].fname, NameLen))

(* Only "FOUND" leads to the size; part of it may be enough.               *)
ReadStatus(u) ==
  \E n \in ReadLengths(toClient[u], HeaderLen) :
    LET found == IsHeader(SubSeq(toClient[u], 1, n), "FOUND") IN
    /\ \E next \in (IF found THEN {"size"} ELSE {})
                   \union (IF found /\ n = HeaderLen THEN {} ELSE {"prompt"}) :
         Acts(u, "status", [client[u] EXCEPT !.pc = next])
    /\ ClientReads(u, n) /\ StaysSound(u, n = HeaderLen) /\ Costs(If(n < HeaderLen))

(* stoi: the first digits of a number when they came alone; some number or *)
(* an exception, which ends the client, when the units are not a size.     *)
stoi(units) == IF ~IsHeader(units, "size") THEN -1..MaxSize
               ELSE {units[1][2]} \union (IF Len(units) < HeaderLen THEN 1..units[1][2] ELSE {})

ReadSize(u, from, opened, next, atZero, cost) ==
  \E n \in ReadLengths(toClient[u], HeaderLen) :
    LET units == SubSeq(toClient[u], 1, n) IN
    /\ \/ ~IsHeader(units, "size") /\ Acts(u, from, [client[u] EXCEPT !.pc = "gone"])
       \/ \E size \in stoi(units) :
            Acts(u, from, [opened EXCEPT !.pc = IF size = 0 THEN atZero ELSE next, !.size = size])
    /\ ClientReads(u, n) /\ StaysSound(u, n = HeaderLen) /\ Costs(If(n < HeaderLen) + cost)

(* open: nobody asks whether there is a copy to write to.  There is none   *)
(* where the directory does not allow it, or the name has a path.          *)
ReadFileSize(u) == \E opened \in BOOLEAN :
  ReadSize(u, "size", [client[u] EXCEPT !.file = <<>>, !.copy = <<>>, !.filefd = opened, !.kept = opened],
           "data", "saved", If(~opened))
ReadStatSize(u) == ReadSize(u, "statsize", client[u], "stats", "prompt", 0)

(* One turn of a receiving loop: whatever has come is taken, and the loop  *)
(* ends when the expected count, size, reaches zero exactly.               *)
LoopTurn(u, n, from, got, cost, left, ends) ==
  /\ Acts(u, from, [got EXCEPT !.pc = IF ~ends THEN from ELSE IF from = "data" THEN "saved" ELSE "prompt",
                               !.size = left])
  /\ ClientReads(u, n) /\ Costs(cost) /\ UNCHANGED sound

(* Two mistakes: a read shorter than the buffer is taken for the last one  *)
(* (a line the code has commented out); the buffer is counted.             *)
ReadTurnStopsShort(u, n, from, got, cost) ==
  LET left == client[u].size - n IN LoopTurn(u, n, from, got, cost, left, left = 0 \/ n < Chunk)
ReadTurnCountsBuffer(u, n, from, got, cost) ==
  LET left == client[u].size - Chunk IN LoopTurn(u, n, from, got, cost, left, left = 0)

ReadTurn(u, n, from, got, cost) ==
  LET left == client[u].size - n IN LoopTurn(u, n, from, got, cost, left, left = 0)

(* write: what of n units gets to the copy, which nobody asks either:      *)
(* nothing where it could not be opened, not all when the disk is full.    *)
Written(c, n) == IF c.filefd THEN 0..n ELSE {0}

Receive(u, before) ==
  LET c == client[u] IN
  \E n \in ReadLengths(toClient[u], Chunk) : \E m \in Written(c, n) :
    ReadTurn(u, n, "data", [c EXCEPT !.file = @ \o SubSeq(toClient[u], 1, n),
                                     !.copy = before \o SubSeq(toClient[u], 1, m),
                                     !.kept = @ /\ m = n], If(c.filefd /\ m < n))

(* As ReadData, the file truncated at every write.                         *)
ReadDataTruncates(u) == Receive(u, <<>>)

ReadData(u) == Receive(u, client[u].copy)

ReadStats(u) == \E n \in ReadLengths(toClient[u], Chunk) :
  ReadTurn(u, n, "stats", [client[u] EXCEPT !.response = @ \o SubSeq(toClient[u], 1, n)], 0)

(* "Saved at": printed however the loop ended.                             *)
Save(u) == LET c == client[u] IN
  /\ Acts(u, "saved", [c EXCEPT !.pc = "prompt", !.saved = @ \union {c.fname},
                                !.received = @ + Len(c.file)])
  /\ UNCHANGED <<toServer, toClient, mishaps, sound>>

(* read returns 0, or fails, because the server has closed: a loop ends;   *)
(* a header is taken from stale bytes, which are no status and no number.  *)
AfterEof(point) == CASE point \in {"status", "stats"} -> "prompt"
                     [] point \in {"size", "statsize"} -> "gone"
                     [] point = "data" -> "saved"

ReadEof(u) == /\ ~Listening(u)
              /\ \E point \in {"status", "size", "data", "statsize", "stats"} :
                   Acts(u, point, [client[u] EXCEPT !.pc = AfterEof(point)])
              /\ toClient' = [toClient EXCEPT ![u] = <<>>]
              /\ UNCHANGED <<toServer, mishaps, sound>>

Types(u) == AskStat(u) \/ Exit(u) \/ \E f \in Files : AskFile(u, f)
Receives(u) == \/ SendName(u) \/ ReadStatus(u) \/ ReadFileSize(u) \/ ReadData(u) \/ Save(u)
               \/ ReadStatSize(u) \/ ReadStats(u) \/ ReadEof(u)

Next == \/ AcceptFails
        \/ \E u \in Users : Connect(u) \/ Types(u) \/ Kill(u) \/ Receives(u) \/ serve(u)
        \/ \E f \in Files, len \in -1..MaxSize : Change(f, len)

Spec == Init /\ [][Next]_vars

(* Threads run and the network delivers; users need do nothing.  main goes *)
(* on calling accept, so that a process that stays full does end.          *)
FairSpec == /\ Spec /\ WF_vars(AcceptFails)
            /\ \A u \in Users : WF_vars(serve(u)) /\ WF_vars(Receives(u))

-----------------------------------------------------------------------------
Units == {"FILE", "STAT", "EXIT", "name", "FOUND", "NOTFOUND", "size", "data", "count", "file"}
         \X (Files \union {NoFile} \union Nat) \X Nat

ServerStates == [pc : {"none", "command", "name", "measure", "reopen", "size", "send", "finish",
                       "stat", "text", "left", "closed"},
                 fname : Files \union {NoFile}, size : 0..MaxSize, offset : 0..MaxSize,
                 numBytesSent : Nat, filesDownloaded : SUBSET Files, open : Nat]
ClientStates == [pc : {"away", "prompt", "name", "status", "size", "data", "saved",
                       "statsize", "stats", "gone"},
                 fname : Files \union {NoFile}, size : Int, file : Seq(Units),
                 copy : Seq(Units), filefd : BOOLEAN, kept : BOOLEAN,
                 response : Seq(Units), commands : Nat,
                 received : Nat, saved : SUBSET Files]

(* The variables keep their types: no thread reads past the end of a file, *)
(* or closes what it does not hold.                                        *)
TypeOK == /\ disk \in [Files -> -1..MaxSize]
          /\ up \in BOOLEAN
          /\ server \in [Users -> ServerStates]
          /\ client \in [Users -> ClientStates]
          /\ toServer \in [Users -> Seq(Units)]
          /\ toClient \in [Users -> Seq(Units)]
          /\ mishaps \in Nat
          /\ sound \in [Users -> BOOLEAN]

(* A connection is sound as long as no name, status or size on it was read *)
(* in pieces and no file changed between its measurement and its last byte *)
(* in a transfer over it.  Data in pieces, commands in pieces, other users *)
(* and the end of the server leave it sound.                               *)

(* While a transfer runs on a sound connection, what the client has        *)
(* received, what is on its way and what the server has yet to read make   *)
(* up the file: the two loops, which count in opposite directions, neither *)
(* lose nor repeat a byte, however the reads fall.                         *)
StreamIsFile == \A u \in Users :
  up /\ sound[u] /\ client[u].pc = "data" =>
    LET s == server[u]
        rest == IF s.pc = "send" THEN FileUnits(s.fname, s.offset, s.size) ELSE <<>>
    IN client[u].file \o toClient[u] \o rest = FileUnits(client[u].fname, 0, s.size)

(* If the connection is sound, and the copy was opened and every write to  *)
(* it complete (kept), what the client reports as saved is the file it     *)
(* asked for from its first byte on, and all that the server measured      *)
(* unless the server ended on the way.                                     *)
CopyIsFile == \A u \in Users :
  LET c == client[u] IN
  sound[u] /\ c.kept /\ c.pc = "saved" =>
    /\ c.copy = FileUnits(c.fname, 0, Len(c.copy))
    /\ Listening(u) => Len(c.copy) = server[u].size

(* On a sound connection a client at its prompt has read all that was sent *)
(* to it, so that the next answer is read from its first byte: nothing but *)
(* what makes it unsound takes the two sides out of step, a command that   *)
(* comes in pieces does not, for the server closes the connection.         *)
NoLeftovers == \A u \in Users : sound[u] /\ client[u].pc = "prompt" => toClient[u] = <<>>

(* On a sound connection statistics that a client got to their end tell    *)
(* exactly what it has received: the count and the names of the files it   *)
(* reported as saved.                                                      *)
StatIsTrue == \A u \in Users :
  LET c == client[u] IN
  sound[u] /\ c.pc = "prompt" /\ c.response # <<>> /\ c.size = 0 =>
    /\ c.response[1] = <<"count", c.received, 1>>
    /\ {c.response[k][2] : k \in 2..Len(c.response)} = c.saved

(* A user is not left waiting: on a connection that stays sound a command  *)
(* ends, with an answer or with the end of the server or the client.  One  *)
(* that is not accepted for want of a descriptor is answered in the end by *)
(* the death of the server.                                                *)
Waiting(u) == client[u].pc \notin {"away", "prompt", "gone"}
Answered == \A u \in Users : Waiting(u) ~> ~Waiting(u) \/ ~sound[u]

(* Report.md:69 "Checks if the file is on the system and then transmits    *)
(* it": a name without a file does not take the server away from its       *)
(* users, which only a client that is gone could (SIGPIPE).                *)
ServerSurvives == up \/ \E u \in Users : Gone(u)
=============================================================================
