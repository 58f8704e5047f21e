-------------------------- MODULE YmodemSendProofs --------------------------
(***************************************************************************)
(* Proofs about YmodemSend, for files of any number and size, numbers of   *)
(* packets modulo anything, and any number of tries and failures: types,   *)
(* and for answers that come before the timeout that the files arrive, and *)
(* that the script fails for a cause only.                                 *)
(***************************************************************************)
EXTENDS YmodemSend, TLAPS

-----------------------------------------------------------------------------
(***************************************************************************)
(* The files, the packets and the answers.                                 *)
(***************************************************************************)

Replies == {"ACK", "NAK", "CAN", "C"}

\* A header is of a file, or of none.
Sendable == {p \in Packets : p.kind = "header" => p.of \in Files \cup {0}}

\* There are as many files as Sizes has entries.
LEMMA FilesFacts == /\ Len(Sizes) \in Nat /\ Files = 1 .. Len(Sizes)
                    /\ \A f \in Files : Sizes[f] \in Nat /\ f \in Nat
BY SizesAssumption DEF Files

\* The numbers of two packets that follow each other are different.
LEMMA NumberFacts ==
    ASSUME NEW n \in Nat
    PROVE  /\ n % Numbers \in 0 .. Numbers - 1
           /\ ((n % Numbers) + 1) % Numbers = (n + 1) % Numbers
           /\ n % Numbers # (n + 1) % Numbers
<1>. DEFINE q == n \div Numbers
            r == n % Numbers
<1>0. Numbers \in Nat /\ Numbers > 1
  BY NumbersAssumption
<1>1. q \in Nat /\ r \in 0 .. Numbers - 1 /\ n = Numbers * q + r
  BY <1>0, SMTT(30)
<1>. HIDE DEF q, r
<1>2. CASE r + 1 < Numbers
  <2>1. (r + 1) % Numbers = r + 1
    BY <1>0, <1>1, <1>2
  <2>2. (Numbers * q + (r + 1)) % Numbers = r + 1
    BY <1>0, <1>1, <1>2, SMTT(30)
  <2>3. n + 1 = Numbers * q + (r + 1)
    BY <1>0, <1>1, SMTT(30)
  <2>. QED
    BY <2>1, <2>2, <2>3, <1>1 DEF r
<1>3. CASE r + 1 = Numbers
  <2>1. (r + 1) % Numbers = 0
    BY <1>0, <1>3
  <2>2. (Numbers * (q + 1)) % Numbers = 0
    BY <1>0, <1>1, SMTT(30)
  <2>3. n + 1 = Numbers * (q + 1)
    BY <1>0, <1>1, <1>3, SMTT(30)
  <2>. QED
    BY <1>0, <1>1, <1>3, <2>1, <2>2, <2>3 DEF r
<1>. QED
  BY <1>0, <1>1, <1>2, <1>3

\* What is sent can be sent.
LEMMA PacketFacts ==
    /\ \A f \in Files : Header(f) \in Sendable
    /\ \A n \in Nat : Block(n) \in Sendable
    /\ {NoMore, Eot, Can, Garbled} \subseteq Sendable
<1>1. Files \subseteq Nat /\ 0 \in 0 .. Numbers - 1
  BY FilesFacts, NumbersAssumption
<1>2. \A n \in Nat : n % Numbers \in 0 .. Numbers - 1
  BY NumberFacts
<1>. QED
  BY <1>1, <1>2 DEF Sendable, Packets, Header, Block, NoMore, Eot, Can, Garbled

-----------------------------------------------------------------------------
(***************************************************************************)
(* Types.                                                                  *)
(***************************************************************************)

TypesInv ==
    /\ TypeOK /\ Sizes # <<>> /\ line \in Seq(Sendable)
    /\ step = "block" => number <= Sizes[file]
    /\ device \in [state: Receiving \cup {"header", "gone"}, file: Files \cup {0},
                   last: 0 .. Numbers - 1]
    /\ device.state \in Receiving => device.file \in Files

\* TypesInv of the sender, and of the line and the device.
SenderType ==
    /\ step \in Waits \cup Over /\ file \in Files
    /\ number \in 1 .. Sizes[file] + 1
    /\ attempt \in 1 .. EndTries \/ step \notin {"end", "next"}
    /\ attempt \in 1 .. Retries \/ step \in {"end", "next", "failed"}
    /\ step = "block" => number <= Sizes[file]
LineType ==
    /\ line \in Seq(Sendable) /\ answers \in Seq(Replies)
    /\ lost \in 0 .. MaxLost /\ late \in BOOLEAN
DeviceType ==
    /\ stored \in [Files -> Seq(Nat)]
    /\ device \in [state: Receiving \cup {"header", "gone"}, file: Files \cup {0},
                   last: 0 .. Numbers - 1]
    /\ device.state \in Receiving => device.file \in Files

\* TypesInv, of the parts that the steps change.
LEMMA TypesAre == TypesInv <=> SenderType /\ LineType /\ DeviceType /\ Sizes # <<>>
<1>1. line \in Seq(Sendable) => line \in Seq(Packets)
  BY DEF Sendable
<1>2. device \in [state: Receiving \cup {"header", "gone"}, file: Files \cup {0},
                  last: 0 .. Numbers - 1]
      => device.state \in Receiving \cup {"header", "gone"}
  OBVIOUS
<1>. QED
  BY <1>1, <1>2 DEF TypesInv, TypeOK, SenderType, LineType, DeviceType, Replies

\* The same behind a step.
LEMMA TypesAreNext ==
    TypesInv' <=> SenderType' /\ LineType' /\ DeviceType' /\ Sizes # <<>>
<1>1. line' \in Seq(Sendable) => line' \in Seq(Packets)
  BY DEF Sendable
<1>2. device' \in [state: Receiving \cup {"header", "gone"}, file: Files \cup {0},
                   last: 0 .. Numbers - 1]
      => device'.state \in Receiving \cup {"header", "gone"}
  OBVIOUS
<1>. QED
  BY <1>1, <1>2 DEF TypesInv, TypeOK, SenderType, LineType, DeviceType, Replies

\* The next thing is sent.
LEMMA SendsType ==
    ASSUME LineType, NEW where \in {"header", "block", "end", "batch"},
           NEW p \in Sendable, NEW f \in Files, NEW n \in 1 .. Sizes[f] + 1,
           Sends(where, p, f, n), where = "block" => n <= Sizes[f]
    PROVE  SenderType' /\ line' \in Seq(Sendable)
<1>1. 1 \in 1 .. EndTries /\ 1 \in 1 .. Retries
  BY NumbersAssumption
<1>. QED
  BY <1>1 DEF LineType, Sends, SenderType, Waits, Over

\* The script gives up.
LEMMA FailsType == ASSUME SenderType, LineType, Fails
                   PROVE  SenderType' /\ line' \in Seq(Sendable)
BY PacketFacts DEF SenderType, LineType, Fails, Ends, Over

\* send_packet sends once more, or gives up.
LEMMA SendsAgainType ==
    ASSUME SenderType, LineType, SendsAgain, step \in {"header", "block", "batch"}
    PROVE  SenderType' /\ line' \in Seq(Sendable)
<1>1. Packet \in Sendable
  BY PacketFacts, FilesFacts DEF Packet, SenderType
<1>2. CASE TriesLeft
  <2>1. attempt \in 1 .. Retries /\ Retries \in Nat /\ attempt < Retries
    BY <1>2, NumbersAssumption DEF SenderType, TriesLeft
  <2>2. /\ attempt' = attempt + 1 /\ line' = Append(line, Packet)
        /\ UNCHANGED <<step, file, number>>
    BY <1>2 DEF SendsAgain, NextTry
  <2>3. attempt' \in 1 .. Retries
    BY <2>1, <2>2
  <2>. QED
    BY <1>1, <2>2, <2>3 DEF SenderType, LineType
<1>3. CASE ~TriesLeft
  BY <1>3, FailsType DEF SendsAgain
<1>. QED
  BY <1>2, <1>3

\* wait_for keeps the types.
LEMMA ReadAnswerType == ASSUME TypesInv, ReadAnswer PROVE TypesInv'
<1>0. SenderType /\ LineType /\ DeviceType /\ Sizes # <<>>
  BY TypesAre
<1>. DEFINE b == Head(answers)
<1>1. answers' \in Seq(Replies) /\ b \in Replies
  BY <1>0 DEF LineType, ReadAnswer
<1>2. DeviceType' /\ lost' = lost /\ late' = late
  BY <1>0 DEF ReadAnswer, receiver, DeviceType
<1>3. ASSUME Wanted(b), Answered(b) PROVE SenderType' /\ line' \in Seq(Sendable)
  <2>1. CASE step = "header" /\ Acknowledged(b)
    BY <2>1, <1>0, <1>3 DEF Answered, SenderType, LineType, Waits
  <2>2. ASSUME NEW n \in 1 .. Sizes[file] + 1, SendsBlock(n)
        PROVE  SenderType' /\ line' \in Seq(Sendable)
    BY <2>2, <1>0, SendsType, PacketFacts, FilesFacts DEF SendsBlock, SenderType
  <2>3. CASE step = "data"
    BY <2>2, <2>3, <1>0, <1>3, FilesFacts DEF Answered, SenderType
  <2>4. CASE step = "block" /\ Acknowledged(b)
    BY <2>2, <2>4, <1>0, <1>3, FilesFacts DEF Answered, SenderType
  <2>5. CASE step = "batch" /\ Acknowledged(b)
    BY <2>5, <1>0, <1>3 DEF Answered, Ends, SenderType, LineType, Over
  <2>6. CASE step = "next"
    <3>1. SendsFile(file + 1)
      BY <2>6, <1>3 DEF Answered
    <3>2. CASE file + 1 \in Files
      BY <3>1, <3>2, <1>0, SendsType, PacketFacts, FilesFacts DEF SendsFile
    <3>3. CASE file + 1 \notin Files
      BY <3>1, <3>3, <1>0, SendsType, PacketFacts, FilesFacts DEF SendsFile, SenderType
    <3>. QED
      BY <3>2, <3>3
  <2>7. CASE step = "end"
    <3>1. attempt \in 1 .. EndTries /\ EndTries \in Nat
      BY <2>7, <1>0, NumbersAssumption DEF SenderType
    <3>2. CASE Acknowledged(b) \/ attempt = EndTries
      BY <2>7, <3>1, <3>2, <1>0, <1>3 DEF Answered, SenderType, LineType, Waits
    <3>3. CASE ~(Acknowledged(b) \/ attempt = EndTries)
      <4>1. /\ attempt' = attempt + 1 /\ line' = Append(line, Eot)
            /\ UNCHANGED <<step, file, number>>
        BY <2>7, <3>3, <1>3 DEF Answered
      <4>2. attempt' \in 1 .. EndTries
        BY <3>1, <3>3, <4>1
      <4>. QED
        BY <2>7, <4>1, <4>2, <1>0, PacketFacts DEF SenderType, LineType
    <3>. QED
      BY <3>2, <3>3
  <2>8. CASE step \in {"header", "block", "batch"} /\ ~Acknowledged(b)
    BY <2>8, <1>0, <1>3, SendsAgainType DEF Answered
  <2>. QED
    BY <2>1, <2>3, <2>4, <2>5, <2>6, <2>7, <2>8 DEF ReadAnswer, Waits
<1>4. CASE Wanted(b)
  BY <1>0, <1>1, <1>2, <1>3, <1>4, TypesAreNext DEF ReadAnswer, LineType
<1>5. CASE ~Wanted(b) /\ b = "CAN"
  BY <1>0, <1>1, <1>2, <1>5, FailsType, TypesAreNext DEF ReadAnswer, LineType
<1>6. CASE ~Wanted(b) /\ b # "CAN"
  <2>1. UNCHANGED <<step, file, number, attempt, line>>
    BY <1>6 DEF ReadAnswer, sender
  <2>. QED
    BY <2>1, <1>0, <1>1, <1>2, TypesAreNext DEF LineType, SenderType
<1>. QED
  BY <1>4, <1>5, <1>6

\* A timeout keeps the types.
LEMMA TimeoutType == ASSUME TypesInv, Timeout PROVE TypesInv'
<1>0. SenderType /\ LineType /\ DeviceType /\ Sizes # <<>>
  BY TypesAre
<1>1. SenderType' /\ line' \in Seq(Sendable)
  BY <1>0, FailsType, SendsAgainType DEF Timeout
<1>. QED
  BY <1>0, <1>1, TypesAreNext DEF Timeout, receiver, LineType, DeviceType

\* The line, C and a device that goes away keep the types.
LEMMA LineSteps == ASSUME TypesInv, Lose \/ Ask \/ Leave PROVE TypesInv'
<1>0. SenderType /\ LineType /\ DeviceType /\ Sizes # <<>>
  BY TypesAre
<1>s. UNCHANGED sender /\ late' = late /\ stored' = stored
  BY DEF Lose, Ask, Leave, receiver
<1>1. SenderType'
  BY <1>0, <1>s DEF sender, SenderType
<1>2. LineType'
  <2>1. CASE Lose
    <3>1. lost' \in 0 .. MaxLost /\ late' = late
      BY <2>1, <1>0, NumbersAssumption DEF Lose, LineType, receiver
    <3>2. \/ line # <<>> /\ answers' = answers
             /\ line' \in {Tail(line), <<Garbled>> \o Tail(line)}
          \/ answers # <<>> /\ answers' = Tail(answers) /\ line' = line
      BY <2>1 DEF Lose
    <3>3. <<Garbled>> \in Seq(Sendable)
      BY PacketFacts
    <3>4. line # <<>> => Tail(line) \in Seq(Sendable)
                         /\ <<Garbled>> \o Tail(line) \in Seq(Sendable)
      BY <3>3, <1>0 DEF LineType
    <3>5. line' \in Seq(Sendable)
      BY <3>2, <3>4, <1>0 DEF LineType
    <3>6. answers' \in Seq(Replies)
      <4>1. answers # <<>> => Tail(answers) \in Seq(Replies)
        BY <1>0 DEF LineType
      <4>. QED
        BY <3>2, <4>1, <1>0 DEF LineType
    <3>. QED
      BY <3>1, <3>5, <3>6, <1>0 DEF LineType
  <2>2. CASE Ask
    BY <2>2, <1>0 DEF Ask, Says, LineType, receiver, Replies
  <2>3. CASE Leave
    BY <2>3, <1>0, NumbersAssumption DEF Leave, LineType
  <2>. QED
    BY <2>1, <2>2, <2>3
<1>3. DeviceType'
  BY <1>0 DEF Lose, Ask, Leave, receiver, DeviceType, Receiving
<1>. QED
  BY <1>0, <1>1, <1>2, <1>3, TypesAreNext

\* The receiver keeps the types.
LEMMA ReceiveType == ASSUME TypesInv, Receive PROVE TypesInv' /\ late' = late
<1>0. SenderType /\ LineType /\ DeviceType /\ Sizes # <<>>
  BY TypesAre
<1>. DEFINE p == Head(line)
<1>1. p \in Sendable /\ line' \in Seq(Sendable)
  BY <1>0 DEF LineType, Receive
<1>s. UNCHANGED <<step, file, number, attempt, lost>>
  BY DEF Receive, sender
<1>2. SenderType'
  BY <1>0, <1>s DEF SenderType
<1>3. /\ p.kind \in {"header", "block", "EOT", "CAN", "garbled"}
      /\ p.num \in 0 .. Numbers - 1 /\ p.of \in Nat
      /\ p.kind = "header" => p.of \in Files \cup {0}
  BY <1>1 DEF Sendable, Packets
<1>4. late' = late /\ answers' \in Seq(Replies) /\ DeviceType'
  <2>0. device.state \in Receiving \cup {"header", "gone"} /\ answers \in Seq(Replies)
    BY <1>0 DEF DeviceType, LineType
  <2>a. \A w \in Seq(Replies) : answers \o w \in Seq(Replies)
    BY <2>0
  <2>b. {<<"ACK">>, <<"NAK">>, <<"CAN">>, <<"ACK", "C">>} \subseteq Seq(Replies)
    BY DEF Replies
  <2>1. CASE device.state = "gone"
    <3>1. UNCHANGED <<answers, late, device, stored>>
      BY <2>1 DEF Receive, receiver, Receiving
    <3>. QED
      BY <3>1, <1>0 DEF DeviceType, LineType
  <2>2. CASE p.kind = "garbled" /\ device.state # "gone"
    <3>1. Says(<<"NAK">>) /\ UNCHANGED <<late, device, stored>>
      BY <2>2 DEF Receive, receiver
    <3>. QED
      BY <3>1, <2>a, <2>b, <1>0 DEF DeviceType, Says
  <2>3. CASE p.kind = "CAN" /\ device.state # "gone"
    <3>1. device' = [device EXCEPT !.state = "gone"] /\ UNCHANGED <<late, answers, stored>>
      BY <2>3 DEF Receive
    <3>. QED
      BY <3>1, <2>0, <1>0 DEF DeviceType, Receiving
  <2>4. CASE p.kind = "EOT" /\ device.state \in Receiving
    <3>1. TakesEot
      BY <2>4 DEF Receive, Receiving
    <3>. QED
      BY <3>1, <2>4, <2>a, <2>b, <1>0 DEF DeviceType, TakesEot, Says, Receiving
  <2>5. CASE p.kind = "EOT" /\ device.state = "header"
    <3>1. Says(<<"ACK", "C">>) /\ UNCHANGED <<late, device, stored>>
      BY <2>5 DEF Receive, receiver, Receiving
    <3>. QED
      BY <3>1, <2>a, <2>b, <1>0 DEF DeviceType, Says
  <2>6. CASE p.kind = "header" /\ device.state = "header"
    <3>1. TakesHeader(p)
      BY <2>6 DEF Receive, Receiving
    <3>. QED
      <4>1. answers' \in Seq(Replies) /\ late' = late /\ stored' = stored
        BY <3>1, <2>a, <2>b DEF TakesHeader, Says
      <4>2. CASE p.of = 0
        <5>1. device' = [device EXCEPT !.state = "gone"]
          BY <3>1, <4>2 DEF TakesHeader
        <5>. QED
          BY <5>1, <4>1, <1>0 DEF DeviceType, Receiving
      <4>3. CASE p.of # 0
        <5>1. device' = [state |-> "first", file |-> p.of, last |-> 0] /\ p.of \in Files
          BY <3>1, <4>3, <2>6, <1>3 DEF TakesHeader
        <5>. QED
          BY <5>1, <4>1, <1>0, NumbersAssumption DEF DeviceType, Receiving
      <4>. QED
        BY <4>2, <4>3
  <2>7. CASE p.kind = "block" /\ device.state = "header"
    <3>1. Cancels /\ UNCHANGED <<late, stored>>
      BY <2>7 DEF Receive, Receiving
    <3>. QED
      BY <3>1, <2>a, <2>b, <1>0 DEF DeviceType, Cancels, Says, Receiving
  <2>8. CASE p.kind \in {"header", "block"} /\ device.state \in Receiving
    <3>1. TakesBlock(p)
      BY <2>8 DEF Receive, Receiving
    <3>2. CASE /\ device' = [device EXCEPT !.last = p.num, !.state = "data"]
               /\ stored' = [stored EXCEPT ![device.file] = Append(@, p.of)]
               /\ Says(<<"ACK">>) /\ UNCHANGED late
      <4>1. stored' \in [Files -> Seq(Nat)]
        BY <3>2, <2>8, <1>0, <1>3 DEF DeviceType
      <4>2. device' \in [state: Receiving \cup {"header", "gone"}, file: Files \cup {0},
                         last: 0 .. Numbers - 1] /\ device'.file = device.file
        BY <3>2, <1>0, <1>3 DEF DeviceType, Receiving
      <4>. QED
        BY <4>1, <4>2, <3>2, <2>8, <2>a, <2>b, <1>0 DEF DeviceType, Says
    <3>3. CASE Says(<<"ACK">>) /\ UNCHANGED receiver
      BY <3>3, <2>a, <2>b, <1>0 DEF DeviceType, Says, receiver
    <3>4. CASE Cancels /\ UNCHANGED <<late, stored>>
      BY <3>4, <2>a, <2>b, <1>0 DEF DeviceType, Cancels, Says, Receiving
    <3>. QED
      BY <3>1, <3>2, <3>3, <3>4 DEF TakesBlock
  <2>. QED
    BY <2>0, <1>3, <2>1, <2>2, <2>3, <2>4, <2>5, <2>6, <2>7, <2>8
<1>. QED
  BY <1>0, <1>1, <1>2, <1>4, <1>s, TypesAreNext DEF LineType

\* The types hold in every state.
LEMMA TypesHold == Spec => []TypesInv
<1>1. Init => TypesInv
  <2>. SUFFICES ASSUME Init PROVE TypesInv
    OBVIOUS
  <2>1. 1 \in Files
    BY FilesFacts, SizesAssumption DEF Init
  <2>2. Header(1) \in Sendable /\ Sizes[1] \in Nat
    BY <2>1, PacketFacts, FilesFacts
  <2>. QED
    BY <2>1, <2>2, TypesAre, NumbersAssumption
    DEF Init, SenderType, LineType, DeviceType, Waits, Receiving
<1>2. TypesInv /\ [Next]_vars => TypesInv'
  <2>1. ASSUME TypesInv, UNCHANGED vars PROVE TypesInv'
    BY <2>1 DEF vars, TypesInv, TypeOK
  <2>. QED
    BY <2>1, ReadAnswerType, TimeoutType, LineSteps, ReceiveType DEF Next
<1>. QED
  BY <1>1, <1>2, PTL DEF Spec

\* Every variable keeps its type, late answers or not: a block that is sent is one
\* of the file, and no packet and no EOT is tried more often than the loops of the
\* script allow (send_packet, send_file, main).
THEOREM SendTypeCorrect == Spec => []TypeOK
<1>1. TypesInv => TypeOK
  BY DEF TypesInv
<1>. QED
  BY <1>1, TypesHold, PTL

-----------------------------------------------------------------------------
(***************************************************************************)
(* The answers on their way.                                               *)
(***************************************************************************)

OnlyC(s) == \A i \in DOMAIN s : s[i] = "C"
No(what, s) == \A i \in DOMAIN s : s[i] # what
OneReply(s) ==
    \A i, j \in DOMAIN s : s[i] # "C" /\ s[j] # "C" => i = j

\* An answer is read.
LEMMA TailReplies ==
    ASSUME NEW s \in Seq(Replies), s # <<>>
    PROVE  /\ Tail(s) \in Seq(Replies) /\ Head(s) \in Replies
           /\ OnlyC(s) => OnlyC(Tail(s)) /\ Head(s) = "C"
           /\ \A w \in Replies : No(w, s) => No(w, Tail(s)) /\ Head(s) # w
           /\ OneReply(s) => OneReply(Tail(s)) /\ (Head(s) # "C" => OnlyC(Tail(s)))
<1>. DEFINE t == Tail(s)
<1>1. /\ t \in Seq(Replies) /\ Head(s) = s[1] /\ 1 \in DOMAIN s /\ Head(s) \in Replies
      /\ \A i \in DOMAIN t : i + 1 \in DOMAIN s /\ t[i] = s[i + 1] /\ i \in Nat /\ i >= 1
  OBVIOUS
<1>. HIDE DEF t
<1>2. OnlyC(s) => OnlyC(t) /\ Head(s) = "C"
  BY <1>1 DEF OnlyC
<1>3. \A w \in Replies : No(w, s) => No(w, t) /\ Head(s) # w
  BY <1>1 DEF No
<1>4. ASSUME OneReply(s) PROVE OneReply(t)
  <2>. SUFFICES ASSUME NEW i \in DOMAIN t, NEW j \in DOMAIN t, t[i] # "C", t[j] # "C"
                PROVE  i = j
    BY DEF OneReply
  <2>1. i + 1 = j + 1
    BY <1>1, <1>4 DEF OneReply
  <2>. QED
    BY <2>1, <1>1
<1>5. ASSUME OneReply(s), Head(s) # "C", NEW i \in DOMAIN t PROVE t[i] = "C"
  <2>1. i + 1 # 1 /\ i + 1 \in DOMAIN s
    BY <1>1
  <2>. QED
    BY <2>1, <1>1, <1>5 DEF OneReply
<1>. QED
  BY <1>1, <1>2, <1>3, <1>4, <1>5 DEF t, OnlyC

\* An answer is given.
LEMMA OneMoreReply ==
    ASSUME NEW s \in Seq(Replies), NEW x \in Replies
    PROVE  /\ s \o <<x>> \in Seq(Replies)
           /\ \A v \in Replies : x # v /\ No(v, s) => No(v, s \o <<x>>)
           /\ OnlyC(s) => OneReply(s \o <<x>>)
           /\ x = "C" /\ OnlyC(s) => OnlyC(s \o <<x>>)
           /\ x = "C" /\ OneReply(s) => OneReply(s \o <<x>>)
<1>. DEFINE t == s \o <<x>>
            n == Len(s) + 1
<1>1. t \in Seq(Replies) /\ DOMAIN t = 1 .. n /\ DOMAIN s = 1 .. n - 1 /\ n \in Nat
  OBVIOUS
<1>2. (\A i \in 1 .. n - 1 : t[i] = s[i]) /\ t[n] = x
  OBVIOUS
<1>3. \A i \in DOMAIN t : \/ i \in DOMAIN s /\ t[i] = s[i]
                          \/ i = n /\ t[i] = x
  BY <1>1, <1>2
<1>. HIDE DEF t, n
<1>4. \A v \in Replies : x # v /\ No(v, s) => No(v, t)
  BY <1>3 DEF No
<1>5. OnlyC(s) => OneReply(t)
  BY <1>3 DEF OneReply, OnlyC
<1>6. x = "C" /\ OnlyC(s) => OnlyC(t)
  BY <1>3 DEF OnlyC
<1>7. x = "C" /\ OneReply(s) => OneReply(t)
  BY <1>3 DEF OneReply
<1>. QED
  BY <1>1, <1>4, <1>5, <1>6, <1>7 DEF t

\* A file or its end is acknowledged, and the next thing is asked for.
LEMMA AckAndC ==
    ASSUME NEW s \in Seq(Replies)
    PROVE  /\ s \o <<"ACK", "C">> \in Seq(Replies)
           /\ \A v \in {"NAK", "CAN"} : No(v, s) => No(v, s \o <<"ACK", "C">>)
           /\ OnlyC(s) => OneReply(s \o <<"ACK", "C">>)
<1>1. s \o <<"ACK", "C">> = (s \o <<"ACK">>) \o <<"C">>
  OBVIOUS
<1>2. "ACK" \in Replies /\ "C" \in Replies /\ {"NAK", "CAN"} \subseteq Replies
  BY DEF Replies
<1>. DEFINE t == s \o <<"ACK">>
<1>3. /\ t \in Seq(Replies) /\ (OnlyC(s) => OneReply(t))
      /\ \A v \in {"NAK", "CAN"} : No(v, s) => No(v, t)
  BY <1>2, OneMoreReply
<1>. HIDE DEF t
<1>4. /\ t \o <<"C">> \in Seq(Replies) /\ (OneReply(t) => OneReply(t \o <<"C">>))
      /\ \A v \in {"NAK", "CAN"} : No(v, t) => No(v, t \o <<"C">>)
  BY <1>2, <1>3, OneMoreReply
<1>. QED
  BY <1>1, <1>3, <1>4 DEF t

\* What follows for answers that are only C, and for none.
LEMMA OnlyCFacts ==
    ASSUME NEW s, OnlyC(s)
    PROVE  OneReply(s) /\ No("ACK", s) /\ No("NAK", s) /\ No("CAN", s)
BY DEF OnlyC, OneReply, No

-----------------------------------------------------------------------------
(***************************************************************************)
(* The invariant, for answers that come before the timeout.                *)
(***************************************************************************)

Holds(blocks, n) == Len(blocks) = n /\ \A i \in 1 .. n : blocks[i] = i
Has(f, n) == Holds(stored[f], n)
IsFile(f) == Has(f, Sizes[f])

\* What was sent last.
Sending == {"header", "block", "end", "batch"}
Sent == IF step = "end" THEN Eot ELSE Packet

\* At most one packet is on its way, or an answer to one.
LineInv ==
    /\ step \in Sending =>
         line \in {<<>>, <<Sent>>} \/ (step # "end" /\ line = <<Garbled>>)
    /\ step \in {"data", "next", "ok"} => line = <<>>
    /\ step = "failed" => line \in {<<>>, <<Can>>}
    /\ step # "failed" => OneReply(answers) /\ No("CAN", answers)
    /\ step \in {"data", "next"} => OnlyC(answers)
    /\ step \in Sending /\ line # <<>> => OnlyC(answers)

\* How much of the files is on the device.
FilesInv ==
    /\ step = "failed" => StoredInOrder
    /\ step # "failed" => \A f \in Files : /\ f < file => IsFile(f)
                                           /\ f > file => Has(f, 0)
    /\ step \in {"header", "data"} => Has(file, 0)
    /\ step = "block" => Has(file, number - 1) \/ Has(file, number)
    /\ step \in {"end", "next", "batch", "ok"} => IsFile(file)
    /\ step \in {"batch", "ok"} => file = Len(Sizes)

\* What the device waits for.
Gone == device.state = "gone"
Waiting(states, last) ==
    device.file = file /\ device.state \in states /\ device.last = last

DeviceInv ==
    /\ step = "header" =>
         \/ No("ACK", answers) /\ device.state \in {"header", "gone"}
         \/ Waiting({"first"}, 0)
    /\ step = "data" => Gone \/ Waiting({"first"}, 0)
    /\ step = "block" =>
         \/ /\ Has(file, number - 1) /\ No("ACK", answers)
            /\ Gone \/ Waiting({"first", "data"}, (number - 1) % Numbers)
         \/ Has(file, number) /\ (Gone \/ Waiting({"data"}, number % Numbers))
    /\ step = "end" =>
         /\ \/ device.state \in {"header", "gone"}
            \/ No("ACK", answers) /\ device.file = file /\ device.state \in Receiving
         /\ attempt > 1 => device.state \in {"eot", "header", "gone"}
         /\ No("NAK", answers) \/ (attempt = 1 /\ device.state = "eot")
    /\ step \in {"next", "batch"} => device.state \in {"header", "gone"}

\* As long as the line has not failed, what is waited for is on its way.
OnLine(packets, replies) == line = packets /\ answers = replies

Undisturbed ==
    /\ step \in Waits \cup {"ok"}
    /\ step \notin {"batch", "ok"} => ~Gone
    /\ step = "header" =>
         \/ OnLine(<<Sent>>, <<>>) /\ device.state = "header"
         \/ OnLine(<<>>, <<"ACK", "C">>)
    /\ step \in {"data", "next"} => OnLine(<<>>, <<"C">>)
    /\ step = "block" => OnLine(<<Sent>>, <<>>) \/ OnLine(<<>>, <<"ACK">>)
    /\ step = "end" => \/ OnLine(<<Sent>>, <<>>)
                       \/ OnLine(<<>>, <<"NAK">>)
                       \/ OnLine(<<>>, <<"ACK", "C">>)
    /\ step = "batch" => \/ OnLine(<<Sent>>, <<>>) /\ device.state = "header"
                         \/ OnLine(<<>>, <<"ACK">>) /\ Gone
    /\ step = "ok" => OnLine(<<>>, <<>>) /\ Gone

SendInv == LineInv /\ FilesInv /\ DeviceInv /\ (lost = 0 => Undisturbed)

\* The files up to the one that is sent are beginnings of what was sent.
LEMMA FilesAre ==
    ASSUME TypesInv, FilesInv
    PROVE  StoredInOrder /\ (step = "ok" => \A f \in Files : Len(stored[f]) = Sizes[f])
<1>1. /\ file \in Files /\ number \in 1 .. Sizes[file] + 1
      /\ step = "block" => number <= Sizes[file]
      /\ step \in Waits \cup Over
      /\ stored \in [Files -> Seq(Nat)]
  BY DEF TypesInv, TypeOK
<1>2. \A f \in Files, n \in Nat : Has(f, n) =>
        Len(stored[f]) = n /\ \A i \in DOMAIN stored[f] : stored[f][i] = i
  BY <1>1 DEF Has, Holds
<1>3. ASSUME step # "failed", NEW f \in Files
      PROVE  \E n \in 0 .. Sizes[f] : Has(f, n)
  <2>0. f \in Nat /\ file \in Nat /\ Sizes[f] \in Nat /\ Sizes[file] \in Nat
    BY <1>1, FilesFacts
  <2>1. CASE f < file
    BY <2>0, <2>1, <1>3 DEF FilesInv, IsFile
  <2>2. CASE f > file
    BY <2>0, <2>2, <1>3 DEF FilesInv
  <2>3. CASE f = file
    BY <2>0, <2>3, <1>1, <1>3 DEF FilesInv, IsFile, Waits, Over
  <2>. QED
    BY <2>0, <2>1, <2>2, <2>3
<1>4. StoredInOrder
  <2>1. CASE step = "failed"
    BY <2>1 DEF FilesInv
  <2>2. CASE step # "failed"
    <3>. SUFFICES ASSUME NEW f \in Files
                  PROVE  /\ Len(stored[f]) <= Sizes[f]
                         /\ \A i \in DOMAIN stored[f] : stored[f][i] = i
      BY DEF StoredInOrder
    <3>1. PICK n \in 0 .. Sizes[f] : Has(f, n)
      BY <2>2, <1>3
    <3>. QED
      BY <3>1, <1>2, FilesFacts
  <2>. QED
    BY <2>1, <2>2
<1>5. ASSUME step = "ok", NEW f \in Files PROVE Len(stored[f]) = Sizes[f]
  <2>1. f < file \/ f = file
    BY <1>5, <1>1, FilesFacts DEF FilesInv
  <2>2. IsFile(f)
    BY <2>1, <1>5 DEF FilesInv
  <2>. QED
    BY <2>2, <1>2, FilesFacts DEF IsFile
<1>. QED
  BY <1>4, <1>5

\* What is sent is on the line then, and only Cs come that are not for it.
LEMMA SentLine ==
    ASSUME step' \in Sending, line' = <<Sent'>>, OnlyC(answers')
    PROVE  LineInv'
BY OnlyCFacts DEF LineInv, Sending

\* Each step that sends leaves on the line what it has sent.
LEMMA SendsLine ==
    ASSUME NEW where \in Sending, NEW f, NEW n, line = <<>>, OnlyC(answers'),
           Sends(where, CASE where = "header" -> Header(f) [] where = "block" -> Block(n)
                          [] where = "end" -> Eot [] where = "batch" -> NoMore, f, n)
    PROVE  /\ LineInv' /\ line' = <<Sent'>> /\ step' = where /\ file' = f
           /\ number' = n /\ attempt' = 1
<1>1. step' = where /\ file' = f /\ number' = n /\ attempt' = 1
  BY DEF Sends
<1>2. line' = <<Sent'>>
  <2>1. CASE where = "header"
    BY <2>1, <1>1 DEF Sends, Sent, Packet
  <2>2. CASE where = "block"
    BY <2>2, <1>1 DEF Sends, Sent, Packet
  <2>3. CASE where = "end"
    BY <2>3, <1>1 DEF Sends, Sent, Packet
  <2>4. CASE where = "batch"
    BY <2>4, <1>1 DEF Sends, Sent, Packet
  <2>. QED
    BY <2>1, <2>2, <2>3, <2>4 DEF Sending
<1>. QED
  BY <1>1, <1>2, SentLine

\* CAN goes out on an empty line.
LEMMA FailsLine == ASSUME line = <<>>, Fails PROVE LineInv' /\ step' = "failed"
BY DEF Fails, Ends, LineInv, Sending

\* Nothing more is needed of a transfer that has failed.
LEMMA FailsInv ==
    ASSUME TypesInv, FilesInv, UNCHANGED <<late, stored>>, line = <<>>, Fails, lost' # 0
    PROVE  SendInv'
<1>1. StoredInOrder'
  BY FilesAre DEF StoredInOrder
<1>. QED
  BY <1>1, FailsLine DEF SendInv, FilesInv, DeviceInv

\* A packet is sent once more.
LEMMA SendsAgainInv ==
    ASSUME TypesInv, TypesInv', FilesInv, DeviceInv, UNCHANGED <<late, device, stored>>,
           step \in {"header", "block", "batch"}, line = <<>>, OnlyC(answers'),
           SendsAgain, lost' # 0
    PROVE  SendInv'
<1>1. CASE TriesLeft
  <2>1. UNCHANGED <<step, file, number, device, stored>> /\ line' = Append(line, Packet)
    BY <1>1 DEF SendsAgain
  <2>2. line' = <<Sent'>>
    BY <2>1 DEF Sent, Packet
  <2>3. LineInv'
    BY <2>1, <2>2, SentLine DEF Sending
  <2>4. FilesInv'
    BY <2>1 DEF FilesInv, IsFile, Has
  <2>5. DeviceInv'
    BY <2>1, OnlyCFacts DEF DeviceInv, Has, Waiting, Gone
  <2>. QED
    BY <2>3, <2>4, <2>5 DEF SendInv
<1>2. CASE ~TriesLeft
  BY <1>2, FailsInv DEF SendsAgain
<1>. QED
  BY <1>1, <1>2

\* The next block is sent, or EOT.
LEMMA SendsBlockInv ==
    ASSUME TypesInv, TypesInv', NEW n \in 1 .. Sizes[file] + 1, SendsBlock(n),
           step # "failed", line = <<>>, OnlyC(answers'), FilesInv,
           UNCHANGED <<device, stored>>, answers' = <<>> \/ lost # 0, lost' = lost,
           Has(file, n - 1), lost = 0 => ~Gone,
           Gone \/ Waiting({"first"} \cup {"data"}, (n - 1) % Numbers)
    PROVE  SendInv'
<1>0. file \in Files /\ Sizes[file] \in Nat
  BY FilesFacts DEF TypesInv, TypeOK
<1>1. CASE n <= Sizes[file]
  <2>1. /\ LineInv' /\ line' = <<Sent'>> /\ step' = "block" /\ file' = file
        /\ number' = n /\ attempt' = 1
    BY <1>1, SendsLine DEF SendsBlock, Sending
  <2>2. FilesInv'
    BY <2>1 DEF FilesInv, IsFile, Has
  <2>3. DeviceInv'
    BY <2>1, OnlyCFacts DEF DeviceInv, Has, Waiting, Gone
  <2>4. lost = 0 => Undisturbed'
    BY <2>1 DEF Undisturbed, OnLine, Waits, Gone
  <2>. QED
    BY <2>1, <2>2, <2>3, <2>4 DEF SendInv
<1>2. CASE ~(n <= Sizes[file])
  <2>1. /\ LineInv' /\ line' = <<Sent'>> /\ step' = "end" /\ file' = file
        /\ number' = n /\ attempt' = 1
    BY <1>2, SendsLine DEF SendsBlock, Sending
  <2>2. n - 1 = Sizes[file]
    BY <1>0, <1>2
  <2>3. FilesInv'
    BY <2>1, <2>2 DEF FilesInv, IsFile, Has
  <2>4. DeviceInv'
    BY <2>1, OnlyCFacts DEF DeviceInv, Has, Waiting, Gone, Receiving
  <2>5. lost = 0 => Undisturbed'
    BY <2>1 DEF Undisturbed, OnLine, Waits, Gone
  <2>. QED
    BY <2>1, <2>3, <2>4, <2>5 DEF SendInv
<1>. QED
  BY <1>1, <1>2

\* The next file is sent, or the batch ends.
LEMMA SendsFileInv ==
    ASSUME TypesInv, TypesInv', SendsFile(file + 1), step = "next",
           line = <<>>, OnlyC(answers'), FilesInv, DeviceInv,
           UNCHANGED <<device, stored>>, answers' = <<>> \/ lost # 0, lost' = lost,
           lost = 0 => ~Gone
    PROVE  SendInv'
<1>0. file \in Files /\ file \in Nat /\ Files = 1 .. Len(Sizes) /\ Len(Sizes) \in Nat
  BY FilesFacts DEF TypesInv, TypeOK
<1>1. /\ IsFile(file) /\ device.state \in {"header", "gone"}
      /\ \A f \in Files : (f < file => IsFile(f)) /\ (f > file => Has(f, 0))
  BY DEF FilesInv, DeviceInv
<1>2. CASE file + 1 \in Files
  <2>1. /\ LineInv' /\ line' = <<Sent'>> /\ step' = "header" /\ file' = file + 1
        /\ number' = 1 /\ attempt' = 1
    BY <1>2, SendsLine DEF SendsFile, Sending
  <2>2. \A f \in Files : (f < file + 1 => IsFile(f)) /\ (f > file + 1 => Has(f, 0))
    BY <1>0, <1>1
  <2>3. Has(file + 1, 0)
    BY <1>0, <1>1, <1>2
  <2>4. FilesInv'
    BY <2>1, <2>2, <2>3 DEF FilesInv, IsFile, Has
  <2>5. DeviceInv'
    BY <2>1, <1>1, OnlyCFacts DEF DeviceInv
  <2>6. lost = 0 => Undisturbed'
    BY <2>1, <1>1 DEF Undisturbed, OnLine, Waits, Gone
  <2>. QED
    BY <2>1, <2>4, <2>5, <2>6 DEF SendInv
<1>3. CASE file + 1 \notin Files
  <2>1. /\ LineInv' /\ line' = <<Sent'>> /\ step' = "batch" /\ file' = file
        /\ number' = number /\ attempt' = 1
    BY <1>3, SendsLine DEF SendsFile, Sending
  <2>2. file = Len(Sizes)
    BY <1>0, <1>3
  <2>4. FilesInv'
    BY <2>1, <2>2, <1>1 DEF FilesInv, IsFile, Has
  <2>5. DeviceInv'
    BY <2>1, <1>1 DEF DeviceInv
  <2>6. lost = 0 => Undisturbed'
    BY <2>1, <1>1 DEF Undisturbed, OnLine, Waits, Gone
  <2>. QED
    BY <2>1, <2>4, <2>5, <2>6 DEF SendInv
<1>. QED
  BY <1>2, <1>3

-----------------------------------------------------------------------------
(***************************************************************************)
(* The steps of the script.                                                *)
(***************************************************************************)

\* wait_for and what follows: an answer is to what was sent last.
LEMMA ReadInv == ASSUME TypesInv, TypesInv', ~late, SendInv, ReadAnswer PROVE SendInv'
<1>. DEFINE b == Head(answers)
<1>0. /\ LineInv /\ FilesInv /\ DeviceInv /\ (lost = 0 => Undisturbed)
      /\ step \in Waits /\ UNCHANGED <<late, device, stored, lost>>
      /\ answers # <<>> /\ answers' = Tail(answers) /\ answers \in Seq(Replies)
  BY TypesAre DEF SendInv, ReadAnswer, receiver, LineType
<1>1. /\ OneReply(answers) /\ No("CAN", answers)
      /\ {"ACK", "NAK", "CAN"} \subseteq Replies
  BY <1>0 DEF LineInv, Waits, Replies
<1>2. /\ OneReply(answers') /\ No("CAN", answers') /\ b \in {"ACK", "NAK", "C"}
      /\ b # "C" => OnlyC(answers')
      /\ OnlyC(answers) => OnlyC(answers') /\ b = "C"
      /\ No("ACK", answers) => No("ACK", answers') /\ b # "ACK"
      /\ No("NAK", answers) => No("NAK", answers') /\ b # "NAK"
  BY <1>0, <1>1, TailReplies DEF Replies
<1>3. (b # "C" /\ step \in Sending) \/ step \in {"data", "next"} => line = <<>>
  BY <1>0, <1>2 DEF LineInv
<1>4. lost = 0 => \/ answers \in {<<"ACK">>, <<"NAK">>, <<"C">>} /\ answers' = <<>>
                  \/ answers = <<"ACK", "C">> /\ answers' = <<"C">>
  <2>. SUFFICES ASSUME lost = 0
                PROVE  answers \in {<<"ACK">>, <<"NAK">>, <<"C">>, <<"ACK", "C">>}
    <3>1. \A x : Tail(<<x>>) = <<>>
      OBVIOUS
    <3>2. Tail(<<"ACK", "C">>) = <<"C">>
      OBVIOUS
    <3>. QED
      BY <3>1, <3>2, <1>0
  <2>. QED
    BY <1>0 DEF Undisturbed, OnLine, Waits
<1>. HIDE DEF b
<1>5. CASE ~Wanted(b)
  <2>1. /\ UNCHANGED <<step, file, number, attempt, line, device, stored, late, lost>>
        /\ step \in Sending => b = "C"
        /\ step \in {"data", "next"} => b # "C"
    BY <1>0, <1>2, <1>5 DEF ReadAnswer, sender, Wanted, b, Sending
  <2>2. LineInv'
    BY <2>1, <1>0, <1>2 DEF LineInv, Sent, Packet, Sending
  <2>3. FilesInv'
    BY <2>1, <1>0 DEF FilesInv, IsFile, Has, StoredInOrder
  <2>4. DeviceInv'
    BY <2>1, <1>0, <1>2 DEF DeviceInv, Has, Waiting, Gone
  <2>5. lost # 0
    BY <2>1, <1>0, <1>2 DEF Undisturbed, OnLine, Waits, Sending, b
  <2>. QED
    BY <2>1, <2>2, <2>3, <2>4, <2>5 DEF SendInv
<1>6. CASE Wanted(b)
  <2>0. Answered(b)
    BY <1>6 DEF ReadAnswer, b
  <2>1. CASE step = "header" /\ b = "ACK"
    <3>1. step' = "data" /\ UNCHANGED <<file, number, attempt, line>>
      BY <2>0, <2>1 DEF Answered, Acknowledged
    <3>2. Waiting({"first"}, 0) /\ OnlyC(answers') /\ line = <<>>
      BY <2>1, <1>0, <1>2, <1>3 DEF DeviceInv, Sending
    <3>3. LineInv'
      BY <3>1, <3>2, <1>2 DEF LineInv, Sending
    <3>4. FilesInv'
      BY <3>1, <2>1, <1>0 DEF FilesInv, IsFile, Has
    <3>5. DeviceInv'
      BY <3>1, <3>2, <1>0 DEF DeviceInv, Waiting, Gone
    <3>6. lost = 0 => Undisturbed'
      BY <3>1, <2>1, <1>0, <1>4 DEF Undisturbed, OnLine, Waits, Gone
    <3>. QED
      BY <3>3, <3>4, <3>5, <3>6, <1>0 DEF SendInv
  <2>2. CASE step = "data"
    <3>1. SendsBlock(1) /\ line = <<>> /\ OnlyC(answers')
      BY <2>0, <2>2, <1>0, <1>2, <1>3 DEF Answered, LineInv
    <3>2. answers' = <<>> \/ lost # 0
      BY <2>2, <1>0, <1>4 DEF Undisturbed, OnLine
    <3>3. /\ 1 \in 1 .. Sizes[file] + 1 /\ (1 - 1) % Numbers = 0 /\ Has(file, 1 - 1)
      <4>1. file \in Files /\ Sizes[file] \in Nat
        BY FilesFacts DEF TypesInv, TypeOK
      <4>2. 1 - 1 = 0 /\ 0 % Numbers = 0 /\ 1 \in 1 .. Sizes[file] + 1
        BY <4>1, NumbersAssumption
      <4>3. Has(file, 0)
        BY <2>2, <1>0 DEF FilesInv
      <4>. QED
        BY <4>2, <4>3
    <3>4. Gone \/ Waiting({"first"} \cup {"data"}, (1 - 1) % Numbers)
      BY <2>2, <3>3, <1>0 DEF DeviceInv, Waiting
    <3>5. lost = 0 => ~Gone
      BY <2>2, <1>0 DEF Undisturbed
    <3>. QED
      BY <2>2, <3>1, <3>2, <3>3, <3>4, <3>5, <1>0, SendsBlockInv
  <2>3. CASE step = "block" /\ b = "ACK"
    <3>0. number \in 1 .. Sizes[file] /\ Sizes[file] \in Nat
      <4>1. file \in Files /\ number \in 1 .. Sizes[file] + 1 /\ number <= Sizes[file]
        BY <2>3 DEF TypesInv, TypeOK
      <4>. QED
        BY <4>1, FilesFacts
    <3>1. SendsBlock(number + 1) /\ line = <<>> /\ OnlyC(answers')
      BY <2>0, <2>3, <1>2, <1>3 DEF Answered, Acknowledged, Sending
    <3>2. answers' = <<>> \/ lost # 0
      BY <2>3, <1>0, <1>4 DEF Undisturbed, OnLine
    <3>3. number + 1 \in 1 .. Sizes[file] + 1
      BY <3>0
    <3>4. Has(file, number) /\ (Gone \/ Waiting({"first"} \cup {"data"}, number % Numbers))
      BY <2>3, <1>0, <1>2 DEF DeviceInv, Waiting
    <3>5. lost = 0 => ~Gone
      BY <2>3, <1>0 DEF Undisturbed
    <3>7. PICK n \in 1 .. Sizes[file] + 1 : n = number + 1
      BY <3>3
    <3>8. /\ SendsBlock(n) /\ Has(file, n - 1)
          /\ Gone \/ Waiting({"first"} \cup {"data"}, (n - 1) % Numbers)
      <4>1. n - 1 = number
        BY <3>0, <3>7
      <4>. QED
        BY <3>1, <3>4, <3>7, <4>1
    <3>. QED
      BY <2>3, <3>1, <3>2, <3>5, <3>8, <1>0, SendsBlockInv
  <2>4. CASE step = "batch" /\ b = "ACK"
    <3>1. step' = "ok" /\ UNCHANGED <<file, number, attempt, line>>
      BY <2>0, <2>4 DEF Answered, Acknowledged, Ends
    <3>2. OnlyC(answers') /\ line = <<>>
      BY <2>4, <1>2, <1>3 DEF Sending
    <3>3. LineInv'
      BY <3>1, <3>2, <1>2 DEF LineInv, Sending
    <3>4. FilesInv'
      BY <3>1, <2>4, <1>0 DEF FilesInv, IsFile, Has
    <3>5. DeviceInv'
      BY <3>1 DEF DeviceInv
    <3>6. lost = 0 => Undisturbed'
      BY <3>1, <2>4, <1>0, <1>4 DEF Undisturbed, OnLine, Waits, Gone
    <3>. QED
      BY <3>3, <3>4, <3>5, <3>6, <1>0 DEF SendInv
  <2>5. CASE step = "next"
    <3>1. SendsFile(file + 1) /\ line = <<>> /\ OnlyC(answers')
      BY <2>0, <2>5, <1>0, <1>2, <1>3 DEF Answered, LineInv
    <3>2. (answers' = <<>> \/ lost # 0) /\ (lost = 0 => ~Gone)
      BY <2>5, <1>0, <1>4 DEF Undisturbed, OnLine
    <3>. QED
      BY <2>5, <3>1, <3>2, <1>0, SendsFileInv
  <2>6. CASE step = "end"
    <3>0. b \in {"ACK", "NAK"} /\ OnlyC(answers') /\ line = <<>>
      BY <2>6, <1>2, <1>3, <1>6 DEF Wanted, Sending
    <3>1. CASE b = "ACK"
      <4>1. step' = "next" /\ UNCHANGED <<file, number, attempt, line>>
        BY <2>0, <2>6, <3>1 DEF Answered, Acknowledged
      <4>2. device.state \in {"header", "gone"}
        BY <2>6, <3>1, <1>0, <1>2 DEF DeviceInv
      <4>3. LineInv'
        BY <4>1, <3>0, <1>2 DEF LineInv, Sending
      <4>4. FilesInv'
        BY <4>1, <2>6, <1>0 DEF FilesInv, IsFile, Has
      <4>5. DeviceInv'
        BY <4>1, <4>2, <1>0 DEF DeviceInv
      <4>6. lost = 0 => Undisturbed'
        BY <4>1, <2>6, <3>1, <1>0, <1>4 DEF Undisturbed, OnLine, Waits, Gone, b
      <4>. QED
        BY <4>3, <4>4, <4>5, <4>6, <1>0 DEF SendInv
    <3>2. CASE b = "NAK"
      <4>1. attempt = 1 /\ device.state = "eot" /\ attempt # EndTries
        BY <2>6, <3>2, <1>0, <1>2, NumbersAssumption DEF DeviceInv
      <4>2. attempt' = 2 /\ line' = <<Eot>> /\ UNCHANGED <<step, file, number>>
        BY <2>0, <2>6, <3>0, <3>2, <4>1 DEF Answered, Acknowledged
      <4>3. LineInv'
        BY <4>2, <2>6, <3>0, SentLine DEF Sent, Sending
      <4>4. FilesInv'
        BY <4>2, <2>6, <1>0 DEF FilesInv, IsFile, Has
      <4>5. DeviceInv'
        BY <4>1, <4>2, <2>6, <3>0, <1>0, OnlyCFacts DEF DeviceInv, Receiving
      <4>6. lost = 0 => Undisturbed'
        BY <4>1, <4>2, <2>6, <3>2, <1>0, <1>4 DEF Undisturbed, OnLine, Waits, Gone, Sent, b
      <4>. QED
        BY <4>3, <4>4, <4>5, <4>6, <1>0 DEF SendInv
    <3>. QED
      BY <3>0, <3>1, <3>2
  <2>7. CASE step \in {"header", "block", "batch"} /\ b # "ACK"
    <3>1. b = "NAK" /\ SendsAgain /\ OnlyC(answers') /\ line = <<>>
      BY <2>0, <2>7, <1>2, <1>3, <1>6 DEF Answered, Acknowledged, Wanted, Sending
    <3>2. lost' # 0
      BY <2>7, <3>1, <1>0 DEF Undisturbed, OnLine, b
    <3>. QED
      BY <2>7, <3>1, <3>2, <1>0, SendsAgainInv
  <2>. QED
    BY <1>0, <2>1, <2>2, <2>3, <2>4, <2>5, <2>6, <2>7 DEF Waits
<1>. QED
  BY <1>5, <1>6

\* A timeout comes only when something was lost.
LEMMA TimeoutInv == ASSUME TypesInv, TypesInv', ~late, SendInv, Timeout PROVE SendInv'
<1>0. /\ LineInv /\ FilesInv /\ DeviceInv /\ (lost = 0 => Undisturbed)
      /\ step \in Waits /\ UNCHANGED <<late, device, stored, lost, answers>>
      /\ line = <<>> /\ (\A i \in DOMAIN answers : ~Wanted(answers[i]))
      /\ answers \in Seq(Replies)
  BY TypesAre DEF SendInv, Timeout, receiver, LineType
<1>1. lost # 0
  <2>. SUFFICES ASSUME lost = 0 PROVE FALSE
    OBVIOUS
  <2>1. answers \in {<<"ACK">>, <<"ACK", "C">>, <<"NAK">>, <<"C">>}
        /\ (step \in {"data", "next"} => answers = <<"C">>)
        /\ (step \notin {"data", "next"} => answers # <<"C">>)
    BY <1>0 DEF Undisturbed, OnLine, Waits
  <2>2. 1 \in DOMAIN answers /\ answers[1] \in {"ACK", "NAK", "C"}
        /\ (answers # <<"C">> => answers[1] # "C")
    BY <2>1
  <2>3. Wanted(answers[1])
    BY <2>1, <2>2 DEF Wanted
  <2>. QED
    BY <2>2, <2>3, <1>0
<1>2. CASE step \in {"header", "block", "batch"}
  <2>1. SendsAgain
    BY <1>2 DEF Timeout
  <2>2. OnlyC(answers)
    <3>. SUFFICES ASSUME NEW i \in DOMAIN answers PROVE answers[i] = "C"
      BY DEF OnlyC
    <3>1. answers[i] \in Replies /\ ~Wanted(answers[i]) /\ answers[i] # "CAN"
      BY <1>0, <1>2 DEF LineInv, No
    <3>. QED
      BY <3>1, <1>2 DEF Wanted, Replies
  <2>. QED
    BY <1>0, <1>1, <1>2, <2>1, <2>2, SendsAgainInv
<1>3. CASE step \notin {"header", "block", "batch"}
  <2>1. Fails
    BY <1>3 DEF Timeout
  <2>. QED
    BY <1>0, <1>1, <2>1, FailsInv
<1>. QED
  BY <1>2, <1>3

-----------------------------------------------------------------------------
(***************************************************************************)
(* The steps of the line and of the receiver.                              *)
(***************************************************************************)

\* A packet or an answer is lost or garbled.
LEMMA LoseInv == ASSUME TypesInv, ~late, SendInv, Lose PROVE SendInv'
<1>0. /\ LineInv /\ FilesInv /\ DeviceInv /\ answers \in Seq(Replies)
      /\ UNCHANGED <<step, file, number, attempt, late, device, stored>>
      /\ {"ACK", "NAK", "CAN"} \subseteq Replies
  BY TypesAre DEF SendInv, Lose, sender, receiver, LineType, Replies
<1>1. lost' # 0
  BY NumbersAssumption DEF Lose, TypesInv, TypeOK
<1>2. FilesInv'
  BY <1>0 DEF FilesInv, IsFile, Has, StoredInOrder
<1>3. CASE /\ answers' = answers /\ line # <<>>
           /\ \/ line' = Tail(line)
              \/ /\ Head(line).kind \in {"header", "block"}
                 /\ line' = <<Garbled>> \o Tail(line)
  <2>1. step \in Sending \cup {"failed"}
    BY <1>0, <1>3 DEF LineInv, TypesInv, TypeOK, Waits, Over, Sending
  <2>2. \/ line' = <<>>
        \/ line' = <<Garbled>> /\ step \in Sending \ {"end"}
    <3>1. line \in {<<Sent>>, <<Garbled>>, <<Can>>}
          /\ (step \notin Sending \ {"end"} => line \in {<<Eot>>, <<Can>>})
      BY <2>1, <1>0, <1>3 DEF LineInv, Sent, Sending
    <3>2. (\A q : Tail(<<q>>) = <<>> /\ Head(<<q>>) = q) /\ <<Garbled>> \o <<>> = <<Garbled>>
      OBVIOUS
    <3>3. \/ line' = <<>>
          \/ line' = <<Garbled>> /\ Head(line).kind \in {"header", "block"}
      <4>1. Tail(line) = <<>>
        BY <3>1, <3>2
      <4>. QED
        BY <4>1, <3>2, <1>3
    <3>4. Eot.kind = "EOT" /\ Can.kind = "CAN"
      BY DEF Eot, Can
    <3>. QED
      BY <3>1, <3>2, <3>3, <3>4 DEF Sending
  <2>3. LineInv'
    BY <2>1, <2>2, <1>0, <1>3 DEF LineInv, Sending
  <2>4. DeviceInv'
    BY <1>0, <1>3 DEF DeviceInv, Has, Waiting, Gone
  <2>. QED
    BY <2>3, <2>4, <1>1, <1>2 DEF SendInv
<1>4. CASE answers # <<>> /\ answers' = Tail(answers) /\ line' = line
  <2>1. /\ OneReply(answers) => OneReply(answers')
        /\ OnlyC(answers) => OnlyC(answers')
        /\ \A w \in {"ACK", "NAK", "CAN"} : No(w, answers) => No(w, answers')
    BY <1>0, <1>4, TailReplies
  <2>2. LineInv'
    BY <2>1, <1>0, <1>4 DEF LineInv, Sending, Sent, Packet
  <2>3. DeviceInv'
    BY <2>1, <1>0, <1>4 DEF DeviceInv, Has, Waiting, Gone
  <2>. QED
    BY <2>2, <2>3, <1>1, <1>2 DEF SendInv
<1>. QED
  BY <1>3, <1>4 DEF Lose

\* C is no answer to a packet.
LEMMA AskInv == ASSUME TypesInv, ~late, SendInv, Ask PROVE SendInv'
<1>0. /\ LineInv /\ FilesInv /\ DeviceInv /\ answers = <<>> /\ line = <<>>
      /\ UNCHANGED <<step, file, number, attempt, late, device, stored, lost, line>>
      /\ device.state \in {"header", "first"} /\ step \in Waits \cup Over
  BY DEF SendInv, Ask, sender, receiver, TypesInv, TypeOK
<1>1. lost # 0
  BY <1>0 DEF SendInv, Undisturbed, OnLine, Waits, Over, Gone
<1>2. answers' = <<"C">>
  BY <1>0 DEF Ask, Says
<1>3. OnlyC(answers')
  BY <1>2 DEF OnlyC
<1>4. FilesInv'
  BY <1>0 DEF FilesInv, IsFile, Has, StoredInOrder
<1>5. LineInv'
  BY <1>0, <1>3, OnlyCFacts DEF LineInv, Sending
<1>6. DeviceInv'
  BY <1>0, <1>3, OnlyCFacts DEF DeviceInv, Has, Waiting, Gone
<1>. QED
  BY <1>0, <1>1, <1>4, <1>5, <1>6 DEF SendInv

\* A device that is gone has what it has stored.
LEMMA LeaveInv == ASSUME TypesInv, ~late, SendInv, Leave PROVE SendInv'
<1>0. /\ LineInv /\ FilesInv /\ DeviceInv /\ answers' = <<>> /\ line' = <<>>
      /\ UNCHANGED <<step, file, number, attempt, late, stored>>
      /\ step \in Waits \cup Over /\ device'.state = "gone"
  BY DEF SendInv, Leave, sender, TypesInv, TypeOK
<1>1. lost' # 0
  BY NumbersAssumption DEF Leave, TypesInv, TypeOK
<1>3. OnlyC(answers')
  BY <1>0 DEF OnlyC
<1>4. FilesInv'
  BY <1>0 DEF FilesInv, IsFile, Has, StoredInOrder
<1>5. LineInv'
  BY <1>0, <1>3, OnlyCFacts DEF LineInv, Sending
<1>6. DeviceInv'
  BY <1>0, <1>3, OnlyCFacts DEF DeviceInv, Has, Gone
<1>. QED
  BY <1>1, <1>4, <1>5, <1>6 DEF SendInv

\* The packet that is received is the one that was sent last.
LEMMA ReceivedFacts ==
    ASSUME TypesInv, LineInv, Receive
    PROVE  /\ UNCHANGED <<step, file, number, attempt, lost>> /\ line' = <<>>
           /\ step \in Sending \cup {"failed"}
           /\ step \in Sending =>
                /\ OnlyC(answers)
                /\ Head(line) = Sent \/ (Head(line) = Garbled /\ step # "end")
           /\ step = "failed" => Head(line) = Can
           /\ line = <<Head(line)>>
           /\ file \in Files /\ answers \in Seq(Replies)
           /\ device.state \in Receiving \cup {"header", "gone"}
<1>1. line # <<>> /\ line' = Tail(line) /\ UNCHANGED <<step, file, number, attempt, lost>>
  BY DEF Receive, sender
<1>2. file \in Files /\ answers \in Seq(Replies) /\ step \in Waits \cup Over
      /\ device.state \in Receiving \cup {"header", "gone"}
  BY TypesAre DEF SenderType, LineType, DeviceType
<1>3. step \in Sending \cup {"failed"}
  BY <1>1, <1>2 DEF LineInv, Waits, Over, Sending
<1>4. /\ step \in Sending => line = <<Sent>> \/ (line = <<Garbled>> /\ step # "end")
      /\ step = "failed" => line = <<Can>>
      /\ step \in Sending => OnlyC(answers)
  BY <1>1, <1>3 DEF LineInv
<1>5. \A q : Tail(<<q>>) = <<>> /\ Head(<<q>>) = q
  OBVIOUS
<1>6. PICK q : line = <<q>>
  BY <1>3, <1>4
<1>7. Head(line) = q /\ line' = <<>>
  BY <1>1, <1>5, <1>6
<1>8. step \in Sending => (q = Sent \/ (q = Garbled /\ step # "end"))
  BY <1>4, <1>6
<1>9. step = "failed" => q = Can
  BY <1>4, <1>6
<1>. QED
  BY <1>1, <1>2, <1>3, <1>4, <1>6, <1>7, <1>8, <1>9

\* What an answer to a packet makes of the line.
LEMMA AnsweredLine ==
    ASSUME step \in Sending, UNCHANGED <<step, file, number, attempt, lost>>,
           line' = <<>>, OnlyC(answers), answers \in Seq(Replies),
           NEW w \in {<<"ACK">>, <<"NAK">>, <<"ACK", "C">>}, Says(w)
    PROVE  /\ LineInv'
           /\ w # <<"NAK">> => No("NAK", answers')
           /\ w = <<"NAK">> => No("ACK", answers')
           /\ answers = <<>> => answers' = w
<1>1. No("ACK", answers) /\ No("NAK", answers) /\ No("CAN", answers)
  BY OnlyCFacts
<1>2. answers' = answers \o w /\ "ACK" \in Replies /\ "NAK" \in Replies /\ "CAN" \in Replies
  BY DEF Says, Replies
<1>3. OneReply(answers') /\ No("CAN", answers')
      /\ (w # <<"NAK">> => No("NAK", answers')) /\ (w = <<"NAK">> => No("ACK", answers'))
  <2>1. CASE w = <<"ACK">>
    BY <2>1, <1>1, <1>2, OneMoreReply
  <2>2. CASE w = <<"NAK">>
    BY <2>2, <1>1, <1>2, OneMoreReply
  <2>3. CASE w = <<"ACK", "C">>
    BY <2>3, <1>1, <1>2, AckAndC
  <2>. QED
    BY <2>1, <2>2, <2>3
<1>4. LineInv'
  BY <1>3 DEF LineInv, Sending
<1>5. answers = <<>> => answers' = w
  BY <1>2
<1>. QED
  BY <1>3, <1>4, <1>5

\* The kinds of packets.
LEMMA Kinds ==
    /\ \A f : Header(f).kind = "header" /\ Header(f).num = 0 /\ Header(f).of = f
    /\ \A n : Block(n).kind = "block" /\ Block(n).num = n % Numbers /\ Block(n).of = n
    /\ NoMore.kind = "header" /\ NoMore.of = 0 /\ Eot.kind = "EOT" /\ Can.kind = "CAN"
    /\ Garbled.kind = "garbled"
BY DEF Header, Block, NoMore, Eot, Can, Garbled

\* The receiver stores a block once, and in its place.
LEMMA ReceiveInv == ASSUME TypesInv, ~late, SendInv, Receive PROVE SendInv'
<1>. DEFINE p == Head(line)
<1>0. /\ LineInv /\ FilesInv /\ DeviceInv /\ (lost = 0 => Undisturbed)
      /\ UNCHANGED <<step, file, number, attempt, lost>> /\ line' = <<>>
      /\ step \in Sending \cup {"failed"}
      /\ file \in Files /\ answers \in Seq(Replies)
      /\ device.state \in Receiving \cup {"header", "gone"}
      /\ line = <<p>>
  BY ReceivedFacts DEF SendInv
<1>1. /\ step \in Sending => OnlyC(answers) /\ (p = Sent \/ (p = Garbled /\ step # "end"))
      /\ step = "failed" => p = Can
  BY <1>0, ReceivedFacts
<1>2. lost = 0 => answers = <<>> /\ p = Sent /\ ~Gone /\ step \in Sending
  <2>. SUFFICES ASSUME lost = 0 PROVE answers = <<>> /\ p = Sent /\ ~Gone /\ step \in Sending
    OBVIOUS
  <2>1. step \in Sending
    BY <1>0 DEF Undisturbed, Waits, Over
  <2>2. OnLine(<<Sent>>, <<>>) /\ ~Gone
    BY <2>1, <1>0 DEF Undisturbed, OnLine, Sending, Gone
  <2>. QED
    BY <2>1, <2>2, <1>0 DEF OnLine
<1>. HIDE DEF p
<1>3. CASE device.state = "gone"
  <2>1. UNCHANGED <<answers, late, device, stored>>
    BY <1>3 DEF Receive, receiver, Receiving
  <2>2. LineInv'
    BY <2>1, <1>0 DEF LineInv, Sending
  <2>3. FilesInv'
    BY <2>1, <1>0 DEF FilesInv, IsFile, Has, StoredInOrder
  <2>4. DeviceInv'
    BY <2>1, <1>0 DEF DeviceInv, Has, Waiting, Gone
  <2>5. lost' # 0
    BY <1>0, <1>2, <1>3 DEF Gone
  <2>. QED
    BY <2>2, <2>3, <2>4, <2>5 DEF SendInv
<1>4. CASE step = "failed" /\ device.state # "gone"
  <2>1. p.kind = "CAN"
    BY <1>1, <1>4, Kinds
  <2>2. UNCHANGED <<late, answers, stored>>
    BY <2>1, <1>4 DEF Receive, p
  <2>3. LineInv' /\ DeviceInv'
    BY <2>2, <1>0, <1>4 DEF LineInv, DeviceInv, Sending
  <2>4. FilesInv'
    BY <2>2, <1>0, <1>4 DEF FilesInv, StoredInOrder
  <2>5. lost' # 0
    BY <1>0, <1>2, <1>4 DEF Sending
  <2>. QED
    BY <2>3, <2>4, <2>5 DEF SendInv
<1>5. CASE step \in Sending /\ p = Garbled /\ step # "end" /\ device.state # "gone"
  <2>1. Says(<<"NAK">>) /\ UNCHANGED <<late, device, stored>>
    BY <1>5, Kinds DEF Receive, receiver, p
  <2>2. LineInv' /\ No("ACK", answers')
    BY <2>1, <1>0, <1>1, <1>5, AnsweredLine
  <2>3. FilesInv'
    BY <2>1, <1>0, <1>5 DEF FilesInv, IsFile, Has, Sending
  <2>4. DeviceInv'
    BY <2>1, <2>2, <1>0, <1>5 DEF DeviceInv, Has, Waiting, Gone, Sending
  <2>5. lost' # 0
    BY <1>0, <1>2, <1>5, Kinds DEF Sent, Packet, Sending
  <2>. QED
    BY <2>2, <2>3, <2>4, <2>5 DEF SendInv
<1>6. CASE step = "header" /\ p = Sent /\ device.state # "gone"
  <2>0. p = Header(file) /\ p.kind = "header" /\ p.num = 0 /\ p.of = file /\ file # 0
        /\ step \in Sending
    BY <1>0, <1>6, Kinds, FilesFacts DEF Sent, Packet, Sending
  <2>1. CASE device.state = "header"
    <3>1. TakesHeader(p)
      BY <2>0, <2>1 DEF Receive, Receiving, p
    <3>2. /\ device' = [state |-> "first", file |-> file, last |-> 0]
          /\ Says(<<"ACK", "C">>) /\ UNCHANGED <<late, stored>>
      BY <3>1, <2>0 DEF TakesHeader
    <3>3. LineInv' /\ (answers = <<>> => answers' = <<"ACK", "C">>)
      BY <3>2, <2>0, <1>0, <1>1, AnsweredLine
    <3>4. FilesInv'
      BY <3>2, <1>0, <1>6 DEF FilesInv, IsFile, Has
    <3>5. DeviceInv'
      BY <3>2, <1>0, <1>6 DEF DeviceInv, Waiting
    <3>6. lost' = 0 => Undisturbed'
      BY <3>2, <3>3, <1>0, <1>2, <1>6 DEF Undisturbed, OnLine, Waits, Gone
    <3>. QED
      BY <3>3, <3>4, <3>5, <3>6 DEF SendInv
  <2>2. CASE device.state # "header"
    <3>0. Waiting({"first"}, 0)
      BY <2>2, <1>0, <1>6 DEF DeviceInv
    <3>1. TakesBlock(p)
      BY <2>0, <3>0 DEF Receive, Receiving, Waiting, p
    <3>2. (0 + 1) % Numbers # 0
      BY NumbersAssumption
    <3>3. Says(<<"ACK">>) /\ UNCHANGED receiver
      BY <3>0, <3>1, <3>2, <2>0 DEF TakesBlock, Waiting
    <3>4. LineInv' /\ (answers = <<>> => answers' = <<"ACK">>)
      BY <3>3, <2>0, <1>0, <1>1, AnsweredLine
    <3>5. FilesInv'
      BY <3>3, <1>0, <1>6 DEF FilesInv, IsFile, Has, receiver
    <3>6. DeviceInv'
      BY <3>0, <3>3, <1>0, <1>6 DEF DeviceInv, Waiting, receiver
    <3>7. lost' # 0
      BY <2>2, <2>0, <1>0, <1>2, <1>6 DEF Undisturbed, OnLine
    <3>. QED
      BY <3>4, <3>5, <3>6, <3>7 DEF SendInv
  <2>. QED
    BY <2>1, <2>2
<1>7. CASE step = "block" /\ p = Sent /\ device.state # "gone"
  <2>0. /\ p.kind = "block" /\ p.num = number % Numbers /\ p.of = number
        /\ step \in Sending
    BY <1>0, <1>7, Kinds DEF Sent, Packet, Sending
  <2>n. number \in Nat \ {0} /\ stored \in [Files -> Seq(Nat)]
    BY <1>0, FilesFacts DEF TypesInv, TypeOK
  <2>m. /\ (((number - 1) % Numbers) + 1) % Numbers = number % Numbers
        /\ (number - 1) % Numbers # number % Numbers
        /\ ((number % Numbers) + 1) % Numbers # number % Numbers
    <3>1. number - 1 \in Nat /\ number - 1 + 1 = number /\ number \in Nat
      BY <2>n
    <3>2. PICK n \in Nat : n = number - 1 /\ n + 1 = number
      BY <3>1
    <3>3. ((n % Numbers) + 1) % Numbers = (n + 1) % Numbers
          /\ n % Numbers # (n + 1) % Numbers
      BY NumberFacts
    <3>4. ((number % Numbers) + 1) % Numbers = (number + 1) % Numbers
          /\ number % Numbers # (number + 1) % Numbers
      BY <3>1, NumberFacts
    <3>. QED
      BY <3>2, <3>3, <3>4
  <2>1. CASE Waiting({"first", "data"}, (number - 1) % Numbers) /\ Has(file, number - 1)
    <3>1. TakesBlock(p)
      BY <2>0, <2>1 DEF Receive, Receiving, Waiting, p
    <3>2. /\ device' = [device EXCEPT !.last = p.num, !.state = "data"]
          /\ stored' = [stored EXCEPT ![device.file] = Append(@, p.of)]
          /\ Says(<<"ACK">>) /\ late' = late
      BY <3>1, <2>0, <2>1, <2>m DEF TakesBlock, Waiting
    <3>3. LineInv' /\ (answers = <<>> => answers' = <<"ACK">>)
      BY <3>2, <2>0, <1>0, <1>1, AnsweredLine
    <3>4. Has(file, number)'
      <4>1. stored'[file] = Append(stored[file], number) /\ stored[file] \in Seq(Nat)
        BY <3>2, <2>0, <2>1, <2>n, <1>0 DEF Waiting
      <4>2. Holds(stored[file], number - 1)
        BY <2>1 DEF Has
      <4>3. Holds(Append(stored[file], number), number)
        BY <4>1, <4>2, <2>n DEF Holds
      <4>. QED
        BY <4>1, <4>3, <1>0 DEF Has
    <3>5. \A f \in Files : f # file => stored'[f] = stored[f]
      BY <3>2, <2>1, <2>n DEF Waiting
    <3>6. FilesInv'
      <4>1. \A f \in Files : (f < file => IsFile(f)') /\ (f > file => Has(f, 0)')
        <5>. SUFFICES ASSUME NEW f \in Files, f # file
                      PROVE (f < file => IsFile(f)') /\ (f > file => Has(f, 0)')
          BY <1>0, FilesFacts
        <5>. QED
          BY <3>5, <1>0, <1>7 DEF FilesInv, IsFile, Has
      <4>. QED
        BY <3>4, <4>1, <1>0, <1>7 DEF FilesInv
    <3>7. device'.file = file /\ device'.state = "data" /\ device'.last = number % Numbers
      BY <3>2, <2>0, <2>1 DEF Waiting, TypesInv
    <3>8. DeviceInv'
      BY <3>4, <3>7, <1>0, <1>7 DEF DeviceInv, Waiting
    <3>9. lost' = 0 => Undisturbed'
      BY <3>3, <3>7, <1>0, <1>2, <1>7 DEF Undisturbed, OnLine, Waits, Gone
    <3>. QED
      BY <3>3, <3>6, <3>8, <3>9 DEF SendInv
  <2>2. CASE Waiting({"data"}, number % Numbers) /\ Has(file, number)
    <3>1. TakesBlock(p)
      BY <2>0, <2>2 DEF Receive, Receiving, Waiting, p
    <3>2. Says(<<"ACK">>) /\ UNCHANGED receiver
      BY <3>1, <2>0, <2>2, <2>m DEF TakesBlock, Waiting
    <3>3. LineInv' /\ (answers = <<>> => answers' = <<"ACK">>)
      BY <3>2, <2>0, <1>0, <1>1, AnsweredLine
    <3>4. FilesInv'
      BY <3>2, <1>0, <1>7 DEF FilesInv, IsFile, Has, receiver
    <3>5. DeviceInv'
      BY <2>2, <3>2, <1>0, <1>7 DEF DeviceInv, Waiting, receiver, Has
    <3>6. lost' = 0 => Undisturbed'
      BY <2>2, <3>2, <3>3, <1>0, <1>2, <1>7
      DEF Undisturbed, OnLine, Waits, Gone, Waiting, receiver
    <3>. QED
      BY <3>3, <3>4, <3>5, <3>6 DEF SendInv
  <2>. QED
    BY <2>1, <2>2, <1>0, <1>7 DEF DeviceInv, Gone
<1>8. CASE step = "end" /\ device.state # "gone"
  <2>0. p.kind = "EOT" /\ step \in Sending
    BY <1>1, <1>8, Kinds DEF Sent, Sending
  <2>f. stored' = stored => FilesInv'
    BY <1>0, <1>8 DEF FilesInv, IsFile, Has
  <2>1. CASE device.state = "header"
    <3>1. Says(<<"ACK", "C">>) /\ UNCHANGED receiver
      BY <2>0, <2>1 DEF Receive, Receiving, p
    <3>2. LineInv' /\ (answers = <<>> => answers' = <<"ACK", "C">>) /\ No("NAK", answers')
      BY <3>1, <2>0, <1>0, <1>1, AnsweredLine
    <3>3. DeviceInv'
      BY <3>1, <3>2, <2>1, <1>0, <1>8 DEF DeviceInv, receiver
    <3>4. lost' = 0 => Undisturbed'
      BY <3>1, <3>2, <1>0, <1>2, <1>8 DEF Undisturbed, OnLine, Waits, Gone, receiver
    <3>. QED
      BY <2>f, <3>1, <3>2, <3>3, <3>4 DEF SendInv, receiver
  <2>2. CASE device.state # "header"
    <3>0. device.state \in Receiving /\ device.file = file
      BY <2>2, <1>0, <1>8 DEF DeviceInv
    <3>1. TakesEot
      BY <2>0, <3>0 DEF Receive, Receiving, p
    <3>2. CASE device' = [device EXCEPT !.state = "header"] /\ Says(<<"ACK", "C">>)
      <4>1. device'.state = "header"
        BY <3>2 DEF TypesInv
      <4>2. LineInv' /\ (answers = <<>> => answers' = <<"ACK", "C">>) /\ No("NAK", answers')
        BY <3>2, <2>0, <1>0, <1>1, AnsweredLine
      <4>3. DeviceInv'
        BY <4>1, <4>2, <1>0, <1>8 DEF DeviceInv
      <4>4. lost' = 0 => Undisturbed'
        BY <4>1, <4>2, <1>0, <1>2, <1>8 DEF Undisturbed, OnLine, Waits, Gone
      <4>. QED
        BY <2>f, <3>1, <4>2, <4>3, <4>4 DEF SendInv, TakesEot
    <3>3. CASE /\ device.state # "eot" /\ Says(<<"NAK">>)
               /\ device' = [device EXCEPT !.state = "eot"]
      <4>1. device'.state = "eot" /\ device'.file = file
        BY <3>0, <3>3 DEF TypesInv
      <4>2. attempt = 1
        <5>1. ~(attempt > 1) /\ attempt \in 1 .. EndTries
          BY <2>2, <3>3, <1>0, <1>8 DEF DeviceInv, TypesInv, TypeOK
        <5>. QED
          BY <5>1, NumbersAssumption
      <4>3. LineInv' /\ (answers = <<>> => answers' = <<"NAK">>) /\ No("ACK", answers')
        BY <3>3, <2>0, <1>0, <1>1, AnsweredLine
      <4>4. DeviceInv'
        BY <4>1, <4>2, <4>3, <1>0, <1>8 DEF DeviceInv, Receiving
      <4>5. lost' = 0 => Undisturbed'
        BY <4>1, <4>3, <1>0, <1>2, <1>8 DEF Undisturbed, OnLine, Waits, Gone
      <4>. QED
        BY <2>f, <3>1, <4>3, <4>4, <4>5 DEF SendInv, TakesEot
    <3>. QED
      BY <3>1, <3>2, <3>3 DEF TakesEot
  <2>. QED
    BY <2>1, <2>2
<1>9. CASE step = "batch" /\ p = Sent /\ device.state # "gone"
  <2>0. p.kind = "header" /\ p.of = 0 /\ step \in Sending
    BY <1>9, Kinds DEF Sent, Packet, Sending
  <2>1. device.state = "header"
    BY <1>0, <1>9 DEF DeviceInv
  <2>2. TakesHeader(p)
    BY <2>0, <2>1 DEF Receive, Receiving, p
  <2>3. /\ device' = [device EXCEPT !.state = "gone"] /\ Says(<<"ACK">>)
        /\ UNCHANGED <<late, stored>>
    BY <2>0, <2>2 DEF TakesHeader
  <2>4. device'.state = "gone"
    BY <2>3 DEF TypesInv
  <2>5. LineInv' /\ (answers = <<>> => answers' = <<"ACK">>)
    BY <2>3, <2>0, <1>0, <1>1, AnsweredLine
  <2>6. FilesInv'
    BY <2>3, <1>0, <1>9 DEF FilesInv, IsFile, Has
  <2>7. DeviceInv'
    BY <2>4, <1>0, <1>9 DEF DeviceInv
  <2>8. lost' = 0 => Undisturbed'
    BY <2>4, <2>5, <1>0, <1>2, <1>9 DEF Undisturbed, OnLine, Waits, Gone
  <2>. QED
    BY <2>5, <2>6, <2>7, <2>8 DEF SendInv
<1>. QED
  BY <1>0, <1>1, <1>3, <1>4, <1>5, <1>6, <1>7, <1>8, <1>9 DEF Sending

-----------------------------------------------------------------------------
(***************************************************************************)
(* The theorems.                                                           *)
(***************************************************************************)

\* The first header is on the line.
LEMMA SendInit == Init => SendInv
<1>. SUFFICES ASSUME Init PROVE SendInv
  OBVIOUS
<1>1. /\ line = <<Sent>> /\ step = "header" /\ file = 1 /\ answers = <<>>
      /\ device.state = "header" /\ OnlyC(answers)
  BY DEF Init, Sent, Packet, OnlyC
<1>2. \A f \in Files : Has(f, 0) /\ ~(f < 1)
  BY FilesFacts DEF Init, Has, Holds
<1>3. 1 \in Files
  BY FilesFacts, SizesAssumption DEF Init
<1>4. LineInv /\ DeviceInv
  BY <1>1, OnlyCFacts DEF LineInv, DeviceInv, Sending
<1>5. FilesInv
  BY <1>1, <1>2, <1>3 DEF FilesInv
<1>6. Undisturbed
  BY <1>1 DEF Undisturbed, OnLine, Waits, Gone
<1>. QED
  BY <1>4, <1>5, <1>6 DEF SendInv

\* The invariant holds in every state in which no answer is late.
LEMMA SendInvHolds == Spec => [](TypesInv /\ (~late => SendInv))
<1>1. TypesInv /\ TypesInv' /\ (~late => SendInv) /\ [Next]_vars => (~late => SendInv)'
  <2>. SUFFICES ASSUME TypesInv, TypesInv', ~late => SendInv, [Next]_vars, ~late'
                PROVE  SendInv'
    OBVIOUS
  <2>1. late' = late
    BY ReceiveType DEF Next, vars, ReadAnswer, Timeout, Lose, Ask, Leave, receiver
  <2>2. CASE UNCHANGED vars
    <3>0. SendInv /\ Sent' = Sent /\ UNCHANGED vars
      BY <2>1, <2>2 DEF vars, Sent, Packet
    <3>1. LineInv'
      BY <3>0 DEF vars, SendInv, LineInv
    <3>2. FilesInv'
      BY <3>0 DEF vars, SendInv, FilesInv, IsFile, Has, StoredInOrder
    <3>3. DeviceInv'
      BY <3>0 DEF vars, SendInv, DeviceInv, Has, Waiting, Gone
    <3>4. lost' = 0 => Undisturbed'
      BY <3>0 DEF vars, SendInv, Undisturbed, OnLine, Gone
    <3>. QED
      BY <3>1, <3>2, <3>3, <3>4 DEF SendInv
  <2>3. CASE Next
    BY <2>1, <2>3, ReadInv, TimeoutInv, LoseInv, ReceiveInv, AskInv, LeaveInv DEF Next
  <2>. QED
    BY <2>2, <2>3
<1>. QED
  BY <1>1, SendInit, TypesHold, PTL DEF Spec

\* With answers that come before the timeout, files of any number and size
\* arrive: on the device is a beginning of each, and all of it when the script
\* says so, wherever packets and answers are lost or garbled (send_file, main).
THEOREM FilesAlwaysArrive == Spec => []FilesArrive
<1>1. TypesInv /\ (~late => SendInv) => FilesArrive
  BY FilesAre DEF FilesArrive, OkMeansStored, StoredInOrder, SendInv
<1>. QED
  BY <1>1, SendInvHolds, PTL

\* With answers that come before the timeout, the script fails only when the line
\* or the device did, also with a receiver that answers EOT with NAK (main).
THEOREM SendFailsForACause == Spec => []FailsForACause
<1>1. TypesInv /\ (~late => SendInv) => FailsForACause
  <2>. SUFFICES ASSUME TypesInv, ~late, SendInv, step = "failed" PROVE lost > 0
    BY DEF FailsForACause
  <2>1. lost # 0
    BY DEF SendInv, Undisturbed, Waits
  <2>. QED
    BY <2>1, NumbersAssumption DEF TypesInv, TypeOK
<1>. QED
  BY <1>1, SendInvHolds, PTL

=============================================================================
