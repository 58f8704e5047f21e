----------------------------- MODULE YmodemSend -----------------------------
(***************************************************************************)
(* Files on their way to the device: scripts/ymodem_send.py over a line    *)
(* that loses and garbles what is sent.                                    *)
(*                                                                         *)
(* An ACK does not say what it acknowledges.  The sender relies on it that *)
(* an answer does not come later than its timeout (for the header, which   *)
(* can take long on the device, this is a minute): unless late, a timeout   *)
(* comes only when nothing is on its way any more.                         *)
(*                                                                         *)
(* The receiver is the device's ymodem command, which is not in this       *)
(* repository; it is what the script takes it for.                         *)
(***************************************************************************)
EXTENDS Integers, Sequences

CONSTANTS
    Sizes,          \* of each file, the number of its blocks
    Numbers,        \* packets are numbered modulo this: 256
    Retries,        \* send_packet: 10
    EndTries,       \* the loop around EOT: 10; the first may be answered with NAK
    MaxLost,        \* bound: how often the line may fail
    MaxLine         \* bound: with so many packets on the line, none is late

ASSUME SizesAssumption == Sizes \in Seq(Nat)
ASSUME NumbersAssumption ==
    Numbers \in Nat /\ Numbers > 1 /\ Retries \in Nat \ {0}
    /\ EndTries \in Nat \ {0, 1} /\ MaxLost \in Nat /\ MaxLine \in Nat

VARIABLES
    late,           \* answers may come after the timeout
    step,           \* where the script is
    file,           \* the file that is sent
    number,         \* the block of it
    attempt,        \* how often this was sent
    line,           \* what is on its way to the device
    answers,        \* and from it
    device,         \* the receiver
    stored,         \* of each file, the blocks the device has stored
    lost            \* how often the line has failed

vars == <<late, step, file, number, attempt, line, answers, device, stored, lost>>
sender == <<step, file, number, attempt>>
receiver == <<late, device, stored>>

Files == DOMAIN Sizes
Waits == {"header", "data", "block", "end", "next", "batch"}
Over == {"ok", "failed"}
Receiving == {"first", "data", "eot"}

\* A packet has a number on the line; what is in it only the device sees.
Header(f) == [kind |-> "header", num |-> 0, of |-> f]
Block(n) == [kind |-> "block", num |-> n % Numbers, of |-> n]
NoMore == [kind |-> "header", num |-> 0, of |-> 0]
Eot == [kind |-> "EOT", num |-> 0, of |-> 0]
Can == [kind |-> "CAN", num |-> 0, of |-> 0]
Garbled == [kind |-> "garbled", num |-> 0, of |-> 0]

Init ==
    /\ late \in BOOLEAN
    /\ step = "header" /\ file = 1 /\ number = 1 /\ attempt = 1
    /\ Sizes # <<>>
    /\ line = <<Header(1)>> /\ answers = <<>>
    /\ device = [state |-> "header", file |-> 0, last |-> 0]
    /\ stored = [f \in Files |-> <<>>]
    /\ lost = 0

-----------------------------------------------------------------------------
(***************************************************************************)
(* The script.                                                             *)
(***************************************************************************)

\* The next thing to send or to wait for.
Sends(where, packet, f, n) ==
    /\ step' = where /\ line' = Append(line, packet)
    /\ file' = f /\ number' = n /\ attempt' = 1

\* send_file: the next block, or EOT.
SendsBlock(n) ==
    IF n <= Sizes[file] THEN Sends("block", Block(n), file, n)
    ELSE Sends("end", Eot, file, n)

\* main: the next file, or the empty header that ends the batch.
SendsFile(f) ==
    IF f \in Files THEN Sends("header", Header(f), f, 1)
    ELSE Sends("batch", NoMore, file, number)

Ends(how) == step' = how /\ UNCHANGED <<file, number, attempt>>

\* A failure: CAN CAN CAN CAN, so the device does not wait for more.
Fails == Ends("failed") /\ line' = Append(line, Can)

\* What step is waiting for; anything else is skipped.
\* Mutant: a NAK is not known.
OnlyAck(b) == b = IF step \in {"data", "next"} THEN "C" ELSE "ACK"
Wanted(b) ==
    IF step \in {"data", "next"} THEN b = "C" ELSE b \in {"ACK", "NAK"}

Packet ==
    CASE step = "header" -> Header(file)
      [] step = "block" -> Block(number)
      [] step = "batch" -> NoMore

\* Mutants: the loop goes round once more, or begins again.
OneMore == attempt <= Retries
TriesLeft == attempt < Retries

FromTheFirst(n) == 1
NextTry(n) == n + 1

\* send_packet, once more.
SendsAgain ==
    IF TriesLeft
    THEN /\ attempt' = NextTry(attempt) /\ line' = Append(line, Packet)
         /\ UNCHANGED <<step, file, number>>
    ELSE Fails

\* Mutant: any answer will do.
AnyAnswer(b) == b \in {"ACK", "NAK"}
Acknowledged(b) == b = "ACK"

\* What an answer leads to.
Answered(b) ==
    CASE step = "header" /\ Acknowledged(b) ->
             step' = "data" /\ UNCHANGED <<file, number, attempt, line>>
      [] step = "data" -> SendsBlock(1)
      [] step = "block" /\ Acknowledged(b) -> SendsBlock(number + 1)
      [] step = "batch" /\ Acknowledged(b) -> Ends("ok") /\ UNCHANGED line
      [] step = "next" -> SendsFile(file + 1)
      [] step = "end" ->
             IF Acknowledged(b) \/ attempt = EndTries
             THEN step' = "next" /\ UNCHANGED <<file, number, attempt, line>>
             ELSE /\ attempt' = attempt + 1 /\ line' = Append(line, Eot)
                  /\ UNCHANGED <<step, file, number>>
      [] OTHER -> SendsAgain

\* wait_for
ReadAnswer ==
    /\ step \in Waits /\ answers # <<>>
    /\ answers' = Tail(answers)
    /\ IF Wanted(Head(answers)) THEN Answered(Head(answers))
       ELSE IF Head(answers) = "CAN" THEN Fails
       ELSE UNCHANGED <<sender, line>>
    /\ UNCHANGED <<receiver, lost>>

\* Only send_packet goes on after a timeout.
Timeout ==
    /\ step \in Waits
    /\ \/ line = <<>> /\ \A i \in DOMAIN answers : ~Wanted(answers[i])
       \/ late /\ Len(line) < MaxLine
    /\ IF step \in {"header", "block", "batch"} THEN SendsAgain ELSE Fails
    /\ UNCHANGED <<answers, receiver, lost>>

-----------------------------------------------------------------------------
(***************************************************************************)
(* The line and the receiver.                                              *)
(***************************************************************************)

Lose ==
    /\ lost < MaxLost /\ lost' = lost + 1
    /\ \/ /\ line # <<>>
          /\ \/ line' = Tail(line)
             \/ /\ Head(line).kind \in {"header", "block"}
                /\ line' = <<Garbled>> \o Tail(line)
          /\ UNCHANGED answers
       \/ answers # <<>> /\ answers' = Tail(answers) /\ UNCHANGED line
    /\ UNCHANGED <<sender, receiver>>

Says(what) == answers' = answers \o what

\* A packet that was stored already is acknowledged again; one that cannot
\* come now ends the transfer.
Cancels == device' = [device EXCEPT !.state = "gone"] /\ Says(<<"CAN">>)

TakesHeader(p) ==
    /\ device' = IF p.of = 0 THEN [device EXCEPT !.state = "gone"]
                 ELSE [state |-> "first", file |-> p.of, last |-> 0]
    /\ Says(IF p.of = 0 THEN <<"ACK">> ELSE <<"ACK", "C">>)
    /\ UNCHANGED <<late, stored>>

TakesBlock(p) ==
    /\ \/ /\ p.num = (device.last + 1) % Numbers
          /\ device' = [device EXCEPT !.last = p.num, !.state = "data"]
          /\ stored' = [stored EXCEPT ![device.file] = Append(@, p.of)]
          /\ Says(<<"ACK">>) /\ UNCHANGED late
       \/ /\ p.num = device.last /\ Says(<<"ACK">>)
          /\ UNCHANGED receiver
       \/ /\ p.num \notin {device.last, (device.last + 1) % Numbers}
          /\ Cancels /\ UNCHANGED <<late, stored>>

TakesEot ==
    /\ \/ device' = [device EXCEPT !.state = "header"] /\ Says(<<"ACK", "C">>)
       \/ /\ device.state # "eot" /\ Says(<<"NAK">>)
          /\ device' = [device EXCEPT !.state = "eot"]
    /\ UNCHANGED <<late, stored>>

Receive ==
    /\ line # <<>> /\ line' = Tail(line)
    /\ LET p == Head(line)
       IN  CASE device.state = "gone" ->
                    UNCHANGED <<answers, receiver>>
             [] p.kind = "garbled" /\ device.state # "gone" ->
                    Says(<<"NAK">>) /\ UNCHANGED receiver
             [] p.kind = "CAN" /\ device.state # "gone" ->
                    /\ device' = [device EXCEPT !.state = "gone"]
                    /\ UNCHANGED <<late, answers, stored>>
             [] p.kind = "EOT" /\ device.state \in Receiving -> TakesEot
             [] p.kind = "EOT" /\ device.state = "header" ->
                    Says(<<"ACK", "C">>) /\ UNCHANGED receiver
             [] p.kind = "header" /\ device.state = "header" -> TakesHeader(p)
             [] p.kind = "block" /\ device.state = "header" ->
                    Cancels /\ UNCHANGED <<late, stored>>
             [] p.kind \in {"header", "block"}
                    /\ device.state \in Receiving -> TakesBlock(p)
    /\ UNCHANGED <<sender, lost>>

\* It says C every second until a packet comes.
Ask ==
    /\ line = <<>> /\ answers = <<>>
    /\ device.state \in {"header", "first"}
    /\ Says(<<"C">>)
    /\ UNCHANGED <<sender, receiver, line, lost>>

\* The device is reset or taken away; this too is a failure of the line.
Leave ==
    /\ lost < MaxLost /\ lost' = lost + 1
    /\ device' = [device EXCEPT !.state = "gone"]
    /\ line' = <<>> /\ answers' = <<>>
    /\ UNCHANGED <<late, sender, stored>>

Next == ReadAnswer \/ Timeout \/ Lose \/ Receive \/ Ask \/ Leave

\* The script goes on, and what is on the line arrives.
Spec ==
    /\ Init /\ [][Next]_vars
    /\ WF_vars(ReadAnswer) /\ WF_vars(Timeout) /\ WF_vars(Receive)

-----------------------------------------------------------------------------
Packets == [kind: {"header", "block", "EOT", "CAN", "garbled"},
            num: 0 .. Numbers - 1, of: Nat]

TypeOK ==
    /\ late \in BOOLEAN /\ step \in Waits \cup Over /\ file \in Files
    /\ number \in 1 .. Sizes[file] + 1
    /\ attempt \in 1 .. EndTries \/ step \notin {"end", "next"}
    /\ attempt \in 1 .. Retries \/ step \in {"end", "next", "failed"}
    /\ line \in Seq(Packets) /\ answers \in Seq({"ACK", "NAK", "CAN", "C"})
    /\ device.state \in Receiving \cup {"header", "gone"}
    /\ stored \in [Files -> Seq(Nat)]
    /\ lost \in 0 .. MaxLost

\* A file on the device is a beginning of the file that was sent: no block is
\* missing in it, twice in it or in another's place, whatever is sent again.
\* (An answer that is late acknowledges the next packet: when that is lost, the
\* device takes the blocks of one file for those of the file before.)
StoredInOrder ==
    ~late => \A f \in Files :
                 /\ Len(stored[f]) <= Sizes[f]
                 /\ \A i \in DOMAIN stored[f] : stored[f][i] = i

\* The script says that all is well: every file is there with every block.
OkMeansStored ==
    step = "ok" /\ ~late => \A f \in Files : Len(stored[f]) = Sizes[f]

\* Lost and garbled packets and answers change nothing in the files.
FilesArrive == StoredInOrder /\ OkMeansStored

\* It fails for the line or the device only: undisturbed, it comes to the end,
\* with a receiver that answers the first EOT with NAK as well.
FailsForACause == step = "failed" /\ ~late => lost > 0

\* The script ends, and does not send for ever to a device that is gone.
ScriptEnds == <>(step \in Over)

=============================================================================
