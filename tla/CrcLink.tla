------------------------------ MODULE CrcLink -------------------------------
(***************************************************************************)
(* A4/question3: server.c sends random messages with a checksum for each   *)
(* block of eight bits, client.c checks and strips them.  The number of    *)
(* blocks and the message follow each other on a TCP stream without any    *)
(* frame: each read takes what has come, which may be part of what was     *)
(* meant or run on into what follows.                                      *)
(*                                                                         *)
(* A stream is a sequence of units <<kind, value>>: the greeting and the   *)
(* decimal number are one unit each, a bit is one.  The wire may flip bits *)
(* of a message: it is what the checksum is for.                           *)
(***************************************************************************)
EXTENDS Integers, Sequences, FiniteSets, SequencesExt

CONSTANTS Plans,     \* the messages, sequences of blocks, that one execution sends
          MaxBlocks, \* bound: what a number misread from other units may be
          MaxFlips,  \* bound: bits the wire flips, for each of Plans
          MaxAstray  \* bound: reads that take less or more than was meant for them

Bits == {0, 1}
Other == 2                      \* a character that is neither '0' nor '1'
Blocks == [1..8 -> Bits]

ASSUME LinkAssumption == /\ Plans \subseteq Seq(Seq(Blocks))
                         /\ MaxBlocks \in Nat /\ MaxAstray \in Nat /\ MaxFlips \in [Plans -> Nat]

-----------------------------------------------------------------------------
(* encode_crc and decode_crc.  POLYNOMIAL is 11011; a block of characters  *)
(* is divided by it in place, one leading bit after the other.             *)
Polynomial == <<1, 1, 0, 1, 1>>

(* As Subtract, without the carry dropped.                                 *)
SubtractAdds(block, j) ==
  [k \in 1..12 |-> IF k = j THEN 0
                   ELSE IF block[j] = 1 /\ k \in j+1 .. j+4 THEN block[k] + Polynomial[k - j + 1]
                   ELSE block[k]]

(* Turn j of the inner loops: where bit j was set the polynomial is        *)
(* subtracted, otherwise zeropoly; what does not equal it becomes '1'.     *)
Subtract(block, j) ==
  [k \in 1..12 |->
     IF k = j THEN 0
     ELSE IF k \in j+1 .. j+4
       THEN LET digit == IF block[j] = 1 THEN Polynomial[k - j + 1] ELSE 0
            IN IF block[k] = digit THEN 0 ELSE 1
     ELSE block[k]]

(* As Divide, with one bit left undivided.                                 *)
DivideSixBits(block) == FoldLeft(Subtract, block, <<1, 2, 3, 4, 5, 6>>)

(* Seven turns for the eight bits.                                         *)
Divide(block) == FoldLeft(Subtract, block, <<1, 2, 3, 4, 5, 6, 7>>)

encode_crc(block) == block \o SubSeq(Divide(block \o <<0, 0, 0, 0>>), 9, 12)

(* The i-th block of the received characters; nothing more came: NUL.      *)
Received(chars, i) == [k \in 1..12 |-> LET at == 12 * (i - 1) + k IN
                                       IF at <= Len(chars) THEN chars[at] ELSE Other]

(* As HasError, one character of the checksum not compared.                *)
HasErrorIn3(block, nul) == SubSeq(Divide(block), 9, 11) # <<0, 0, 0>> \/ ~nul

(* strcmp reads the four characters and the one after msgblock, which      *)
(* ends the string (nul), or does not, as the compiler laid out memory.    *)
HasError(block, nul) == SubSeq(Divide(block), 9, 12) # <<0, 0, 0, 0>> \/ ~nul

decode_crc(chars, N, nul) ==
  [data |-> [i \in 1..N |-> SubSeq(Received(chars, i), 1, 8)],
   errors |-> {i \in 1..N : HasError(Received(chars, i), nul)}]

-----------------------------------------------------------------------------
VARIABLES plan,    \* what generate_msg has yet to return
          ended,   \* whether a NUL follows msgblock in this build
          server, client,  \* where each is
          stream,  \* from the server to the client
          n,       \* the number of blocks the client expects
          result,  \* what decode_crc last printed
          flips,   \* what is left of the bound
          sent,    \* history: the messages as they were encoded
          received, decoded, \* history: the last message as it came, their number
          astray   \* history: reads that did not take what was meant for them

vars == <<plan, ended, server, client, stream, n, result, flips, sent, received, decoded, astray>>

Nothing == [data |-> <<>>, errors |-> {}]

Init == /\ plan \in Plans
        /\ ended \in BOOLEAN
        /\ server = "hello" /\ client = "hello"
        /\ stream = <<>>
        /\ n = 0
        /\ result = Nothing
        /\ flips = MaxFlips[plan]
        /\ sent = <<>> /\ received = <<>> /\ decoded = 0
        /\ astray = 0

Sends(units) == stream' = stream \o units

Encoded(message) == FlattenSeq([i \in DOMAIN message |-> encode_crc(message[i])])

(* main of the server: the greeting.                                       *)
SendHello == /\ server = "hello" /\ server' = "number"
             /\ Sends(<<<<"hello", 0>>>>)
             /\ UNCHANGED <<plan, ended, client, n, result, flips, sent, received, decoded, astray>>

(* crc_client: the user enters N, its decimal digits are sent, ...         *)
SendNumber == /\ server = "number" /\ plan # <<>>
              /\ server' = "message"
              /\ Sends(<<<<"number", Len(Head(plan))>>>>)
              /\ UNCHANGED <<plan, ended, client, n, result, flips, sent, received, decoded, astray>>

(* ... and then the encoded message.                                       *)
SendMessage ==
  LET encoded == Encoded(Head(plan)) IN
  /\ server = "message" /\ server' = "number"
  /\ plan' = Tail(plan)
  /\ Sends([k \in DOMAIN encoded |-> <<"bit", encoded[k]>>])
  /\ sent' = Append(sent, encoded)
  /\ UNCHANGED <<ended, client, n, result, flips, received, decoded, astray>>

(* The user ends the server.                                               *)
Quit == /\ server \in {"number", "message"}
        /\ server' = "gone"
        /\ UNCHANGED <<plan, ended, client, stream, n, result, flips, sent, received, decoded, astray>>

(* The wire flips a bit that is on its way.                                *)
Flip(k) == /\ flips > 0 /\ flips' = flips - 1
           /\ stream[k][1] = "bit"
           /\ stream' = [stream EXCEPT ![k] = <<"bit", 1 - @[2]>>]
           /\ UNCHANGED <<plan, ended, server, client, n, result, sent, received, decoded, astray>>

(* The client's read: the first count units; count is 0 only at the end of *)
(* the stream.  It is meant to take meant units.                           *)
Takes(count, meant) ==
  /\ count \in 0..Len(stream)
  /\ count = 0 => stream = <<>> /\ server = "gone"
  /\ stream' = SubSeq(stream, count + 1, Len(stream))
  /\ astray' = astray + (IF count = meant THEN 0 ELSE 1)
  /\ astray' <= MaxAstray

Taken(count) == SubSeq(stream, 1, count)

ReadHello == \E count \in 0..Len(stream) :
  /\ client = "hello" /\ client' = "number"
  /\ Takes(count, 1)
  /\ UNCHANGED <<plan, ended, server, n, result, flips, sent, received, decoded>>

(* atoi: of nothing 0; of other units than one number, some number, or one *)
(* so large that errorflag[N] is no array and the client dies.             *)
atoi(units) == IF units = <<>> THEN {0}
               ELSE IF Len(units) = 1 /\ units[1][1] = "number" THEN {units[1][2]}
               ELSE 0..MaxBlocks

ReadNumber == \E count \in 0..Len(stream) :
  /\ client = "number"
  /\ Takes(count, 1)
  /\ \/ client' = "message" /\ n' \in atoi(Taken(count))
     \/ count > 1 /\ client' = "gone" /\ UNCHANGED n
  /\ UNCHANGED <<plan, ended, server, result, flips, sent, received, decoded>>

(* The message is read and decoded.                                        *)
ReadBlocks(blocks) == \E count \in 0..Len(stream) :
  /\ client = "message" /\ client' = "number"
  /\ Takes(count, 12 * n)
  /\ received' = [k \in 1..count |-> IF stream[k][1] = "bit" THEN stream[k][2] ELSE Other]
  /\ result' = decode_crc(received', blocks, ended)
  /\ decoded' = IF astray' = 0 THEN decoded + 1 ELSE decoded
  /\ UNCHANGED <<plan, ended, server, n, flips, sent>>

(* As ReadMessage, the last block forgotten.                               *)
ReadMessageOneShort == ReadBlocks(n - 1)

ReadMessage == ReadBlocks(n)

Next == \/ SendHello \/ SendNumber \/ SendMessage \/ Quit
        \/ \E k \in DOMAIN stream : Flip(k)
        \/ ReadHello \/ ReadNumber \/ ReadMessage

Spec == Init /\ [][Next]_vars

-----------------------------------------------------------------------------
(* The variables keep their types: what is sent is made of bits.           *)
TypeOK ==
  /\ plan \in Seq(Seq(Blocks)) /\ ended \in BOOLEAN
  /\ server \in {"hello", "number", "message", "gone"}
  /\ client \in {"hello", "number", "message", "gone"}
  /\ stream \in Seq({"hello", "number", "bit"} \X Nat) /\ n \in Nat
  /\ result.data \in Seq(Seq(Bits \union {Other})) /\ result.errors \subseteq DOMAIN result.data
  /\ flips \in Nat
  /\ sent \in Seq(Seq(Bits)) /\ received \in Seq(Bits \union {Other})
  /\ decoded \in 0..Len(sent) + 1 /\ astray \in 0..MaxAstray

(* A message has been decoded, after reads that took what was meant.       *)
InStep == astray = 0 /\ client = "number" /\ decoded \in DOMAIN sent
Block(chars, i) == SubSeq(chars, 12 * i - 11, 12 * i)
NumBlocks == Len(sent[decoded]) \div 12

(* A message that is read as it was sent and not damaged on the way comes  *)
(* out as it went in, and no block is reported - in a build whose strcmp   *)
(* stops after four characters; in another one all blocks are.             *)
NoFalseAlarm ==
  InStep /\ received = sent[decoded] =>
    /\ result.data = [i \in 1..NumBlocks |-> SubSeq(Block(sent[decoded], i), 1, 8)]
    /\ result.errors = IF ended THEN {} ELSE 1..NumBlocks

(* The reference: multiples of x^4 + x^3 + x + 1 in the leading eleven     *)
(* bits, as the seven turns of the loop can subtract them.                 *)
Multiple(q) == [k \in 1..11 |->
  Cardinality({i \in 1..7 : k - i \in 0..4 /\ q[i] = 1 /\ Polynomial[k - i + 1] = 1}) % 2]
Multiples == {Multiple(q) : q \in [1..7 -> Bits]}
Damage(i) == [k \in 1..12 |-> (Block(sent[decoded], i)[k] + Block(received, i)[k]) % 2]
Invisible(e) == e[12] = 0 /\ \E m \in Multiples : \A k \in 1..11 \ {8} : e[k] = m[k]

(* A damaged block is reported exactly when the damage is no multiple of   *)
(* the polynomial over the first eleven bits, its eighth bit, the last one *)
(* of the data, left out of account: the loop stops one bit early.         *)
ReportsByDivision ==
  InStep /\ ended => \A i \in 1..NumBlocks : i \in result.errors <=> ~Invisible(Damage(i))

(* One flipped bit is reported wherever it is, but for the second and the  *)
(* last bit of the data: both leave a remainder only in that eighth bit.   *)
OneFlipIsSeen ==
  InStep /\ ended => \A i \in 1..NumBlocks : \A k \in 1..12 :
    {j \in 1..12 : Damage(i)[j] = 1} = {k} => (i \in result.errors <=> k \notin {2, 8})
=============================================================================
