--------------------------- MODULE OpsConsoleProofs ---------------------------
(***************************************************************************)
(* The bridge, the watch and the replay for any streams, any length of the *)
(* history and any log: a stream that is attached gets every envelope      *)
(* once, every variable keeps its type, the watch misses no line, and what *)
(* a console is sent draws what the log says.                              *)
(***************************************************************************)
EXTENDS OpsConsole, FiniteSetTheorems, SequenceTheorems, TLAPS

-----------------------------------------------------------------------------
(* The ends of a sequence                                                  *)

Ends(s, t) ==
    /\ Len(s) <= Len(t)
    /\ \A i \in 1..Len(s) : s[i] = t[Len(t) - Len(s) + i]

LEMMA EndIsSuffix ==
    ASSUME NEW S, NEW s \in Seq(S), NEW t \in Seq(S), Ends(s, t)
    PROVE  IsSuffix(s, t)
<1> DEFINE fwd == Reverse(s)
           all == Reverse(t)
<1>1. fwd = [i \in 1..Len(s) |-> s[Len(s) - i + 1]] /\ all = [i \in 1..Len(t) |-> t[Len(t) - i + 1]]
  BY DEF Reverse
<1>2. fwd \in Seq(S) /\ all \in Seq(S) /\ Len(fwd) = Len(s) /\ Len(all) = Len(t)  BY <1>1
<1>3. \A i \in 1..Len(s) : fwd[i] = all[i]
  <2> TAKE i \in 1..Len(s)
  <2>1. Len(s) - i + 1 \in 1..Len(s) /\ i \in 1..Len(t)  BY DEF Ends
  <2>2. s[Len(s) - i + 1] = t[Len(t) - Len(s) + (Len(s) - i + 1)]  BY <2>1 DEF Ends
  <2>3. Len(t) - Len(s) + (Len(s) - i + 1) = Len(t) - i + 1  OBVIOUS
  <2> QED  BY <1>1, <2>1, <2>2, <2>3
<1> HIDE DEF fwd, all
<1>4. Len(fwd) <= Len(all)  BY <1>2 DEF Ends
<1>5. SubSeq(fwd, 1, Len(fwd)) = SubSeq(all, 1, Len(fwd))  BY <1>2, <1>3, <1>4
<1> QED  BY <1>4, <1>5 DEF IsSuffix, IsPrefix, fwd, all

\* Both grow by the same element.
LEMMA EndsGrow ==
    ASSUME NEW S, NEW s \in Seq(S), NEW t \in Seq(S), NEW e \in S, Ends(s, t)
    PROVE  Ends(Append(s, e), Append(t, e))
<1> DEFINE s1 == Append(s, e)
           t1 == Append(t, e)
<1>1. /\ s1 \in Seq(S) /\ Len(s1) = Len(s) + 1
      /\ \A i \in 1..Len(s) : s1[i] = s[i]
      /\ s1[Len(s) + 1] = e
  OBVIOUS
<1>2. /\ t1 \in Seq(S) /\ Len(t1) = Len(t) + 1
      /\ \A i \in 1..Len(t) : t1[i] = t[i]
      /\ t1[Len(t) + 1] = e
  OBVIOUS
<1>3. Len(s) \in Nat /\ Len(t) \in Nat /\ Len(s) <= Len(t)  BY DEF Ends
<1> HIDE DEF s1, t1
<1>4. ASSUME NEW i \in 1..Len(s1)
      PROVE  s1[i] = t1[Len(t1) - Len(s1) + i]
  <2>1. Len(t1) - Len(s1) + i = Len(t) - Len(s) + i  BY <1>1, <1>2, <1>3
  <2>2. CASE i = Len(s) + 1  BY <1>1, <1>2, <1>3, <2>1, <2>2
  <2>3. CASE i \in 1..Len(s)
    <3>1. s[i] = t[Len(t) - Len(s) + i]  BY <2>3 DEF Ends
    <3>2. Len(t) - Len(s) + i \in 1..Len(t)  BY <1>3, <2>3
    <3> QED  BY <1>1, <1>2, <2>1, <2>3, <3>1, <3>2
  <2> QED  BY <1>1, <1>3, <2>2, <2>3
<1>5. Len(s1) <= Len(t1)  BY <1>1, <1>2, <1>3
<1> QED  BY <1>4, <1>5 DEF Ends, s1, t1

\* The last elements of a sequence.
LEMMA TailEnds ==
    ASSUME NEW S, NEW t \in Seq(S), NEW n \in Nat \ {0}, n <= Len(t)
    PROVE  /\ SubSeq(t, Len(t) - n + 1, Len(t)) \in Seq(S)
           /\ Len(SubSeq(t, Len(t) - n + 1, Len(t))) = n
           /\ Ends(SubSeq(t, Len(t) - n + 1, Len(t)), t)
<1> DEFINE s == SubSeq(t, Len(t) - n + 1, Len(t))
<1>1. s \in Seq(S) /\ Len(s) = n  OBVIOUS
<1>2. \A i \in 1..n : s[i] = t[Len(t) - n + i]  OBVIOUS
<1> QED  BY <1>1, <1>2 DEF Ends

-----------------------------------------------------------------------------
(* The inductive invariant                                                 *)

Lists(S, s, q, g) ==
    /\ s \in Seq(S)
    /\ q \in [Streams -> Seq(S)]
    /\ g \in [Streams -> Seq(S)]

\* What is sent, received and on its way are sequences of some envelopes.
Listed == \E S : Lists(S, sent, queue, got)

\* The registered streams are those that are attached, or gone and not noticed;
\* only an attached one has received anything, and a watch has no queues.
Registration ==
    /\ stage \in [Streams -> {"away", "waiting", "attached", "gone"}]
    /\ \A c \in Streams :
        /\ stage[c] = "attached" => c \in subs
        /\ stage[c] \in {"away", "waiting"} => c \notin subs
        /\ stage[c] # "attached" => got[c] = <<>>
    /\ mode = "watch" => \A c \in Streams : queue[c] = <<>>

Fresh(received) ==
    /\ Ends(received, sent)
    /\ mode = "bridge" => Len(received) = Len(sent) \/ Len(received) >= HistoryCap

\* What an attached stream receives is the end of what was sent.
UpToDate == \A c \in Streams : stage[c] = "attached" => Fresh(Received(c))

\* A replay streams what it has loaded, and broadcasts nothing.
IInv == mode = "replay" \/ (mode \in {"bridge", "watch"} /\ Listed /\ Registration /\ UpToDate)

-----------------------------------------------------------------------------
LEMMA InitEstablishes == Init => IInv
<1> SUFFICES ASSUME Init, mode # "replay"
             PROVE  mode \in {"bridge", "watch"} /\ Listed /\ Registration /\ UpToDate
  BY DEF IInv
<1>1. mode \in {"bridge", "watch"}  BY OpsConsoleAssumption DEF Init
<1>2. Lists({}, sent, queue, got)  BY DEF Init, Lists
<1>3. Listed  BY <1>2 DEF Listed
<1>4. Registration /\ UpToDate  BY DEF Init, Registration, UpToDate
<1> QED  BY <1>1, <1>3, <1>4

\* Nothing that an attached stream sees changes.
LEMMA Unseen ==
    ASSUME IInv, UNCHANGED <<mode, sent, subs, queue, got>>,
           stage' = stage \/ \E c \in Streams : stage[c] = "away"
                                                /\ stage' = [stage EXCEPT ![c] = "waiting"]
    PROVE  IInv'
<1> SUFFICES ASSUME mode # "replay"
             PROVE  (mode \in {"bridge", "watch"} /\ Listed /\ Registration /\ UpToDate)'
  BY DEF IInv
<1>1. mode \in {"bridge", "watch"} /\ Listed /\ Registration /\ UpToDate  BY DEF IInv
<1>2. Listed'  BY <1>1 DEF Listed
<1>3. \A c \in Streams :
        /\ stage'[c] = "attached" <=> stage[c] = "attached"
        /\ stage'[c] \in {"away", "waiting"} <=> stage[c] \in {"away", "waiting"}
  BY <1>1 DEF Registration
<1>4. stage' \in [Streams -> {"away", "waiting", "attached", "gone"}]
  BY <1>1 DEF Registration
<1>5. Registration'  BY <1>1, <1>3, <1>4 DEF Registration
<1>6. UpToDate'  BY <1>1, <1>3 DEF UpToDate, Received, Fresh
<1> QED  BY <1>1, <1>2, <1>5, <1>6

\* What was fresh stays so when the same envelope is broadcast and received.
LEMMA FreshGrows ==
    ASSUME NEW S, sent \in Seq(S), NEW r \in Seq(S), NEW e \in S, Fresh(r),
           sent' = Append(sent, e), mode' = mode
    PROVE  Fresh(Append(r, e))'
<1>1. Ends(Append(r, e), Append(sent, e))  BY EndsGrow DEF Fresh
<1>2. Len(Append(r, e)) = Len(r) + 1 /\ Len(Append(sent, e)) = Len(sent) + 1
  OBVIOUS
<1>3. Len(r) \in Nat /\ Len(sent) \in Nat /\ HistoryCap \in Nat  BY OpsConsoleAssumption
<1>4. mode = "bridge" => \/ Len(Append(r, e)) = Len(Append(sent, e))
                         \/ Len(Append(r, e)) >= HistoryCap
  BY <1>2, <1>3 DEF Fresh
<1> QED  BY <1>1, <1>4 DEF Fresh

LEMMA BroadcastPreserves == IInv /\ Broadcast => IInv'
<1> SUFFICES ASSUME IInv, Broadcast, mode # "replay"
             PROVE  (mode \in {"bridge", "watch"} /\ Listed /\ Registration /\ UpToDate)'
  BY DEF IInv, Broadcast
<1>1. mode \in {"bridge", "watch"} /\ Listed /\ Registration /\ UpToDate  BY DEF IInv
<1>2. PICK S0 : Lists(S0, sent, queue, got)  BY <1>1 DEF Listed
<1>3. PICK e : e = Head(out)  OBVIOUS
<1>4. PICK S : S = S0 \cup {e}  OBVIOUS
<1>5. /\ sent \in Seq(S) /\ e \in S
      /\ queue \in [Streams -> Seq(S)] /\ got \in [Streams -> Seq(S)]
  <2>1. Seq(S0) \subseteq Seq(S)  BY <1>4
  <2> QED  BY <1>2, <1>4, <2>1 DEF Lists
<1>6. /\ sent' = Append(sent, e) /\ sent' \in Seq(S)
      /\ stage' = stage /\ mode' = mode
  BY <1>3, <1>5 DEF Broadcast
<1>7. CASE mode = "bridge"
  <2>1. /\ queue' = [c \in Streams |-> IF c \in subs THEN Append(queue[c], e) ELSE queue[c]]
        /\ subs' = subs /\ got' = got
    BY <1>3, <1>7 DEF Broadcast
  <2>2. queue' \in [Streams -> Seq(S)]  BY <1>5, <2>1
  <2>3. Listed'  BY <1>5, <1>6, <2>1, <2>2 DEF Lists, Listed
  <2>4. Registration'  BY <1>1, <1>6, <1>7, <2>1 DEF Registration
  <2>5. ASSUME NEW c \in Streams, stage[c] = "attached"
        PROVE  Fresh(Received(c))'
    <3>1. queue'[c] = Append(queue[c], e)  BY <1>1, <2>1, <2>5 DEF Registration
    <3>2. got[c] \in Seq(S) /\ queue[c] \in Seq(S)  BY <1>5
    <3>3. got[c] \o Append(queue[c], e) = Append(got[c] \o queue[c], e)  BY <1>5, <3>2
    <3>4. Received(c)' = Append(Received(c), e)  BY <2>1, <3>1, <3>3 DEF Received
    <3>5. Received(c) \in Seq(S)  BY <3>2 DEF Received
    <3>6. Fresh(Received(c))  BY <1>1, <2>5 DEF UpToDate
    <3>7. PICK r : r = Received(c)  OBVIOUS
    <3>8. Fresh(Append(r, e))'  BY <1>5, <1>6, <3>5, <3>6, <3>7, FreshGrows
    <3> QED  BY <3>4, <3>7, <3>8 DEF Fresh
  <2>6. UpToDate'  BY <1>6, <2>5 DEF UpToDate
  <2> QED  BY <1>1, <1>6, <2>3, <2>4, <2>6
<1>8. CASE mode = "watch"
  <2>1. /\ subs' = {c \in subs : stage[c] # "gone"} /\ queue' = queue
        /\ got' = [c \in Streams |-> IF c \in subs' THEN Append(got[c], e) ELSE got[c]]
    BY <1>3, <1>8 DEF Broadcast
  <2>2. got' \in [Streams -> Seq(S)]  BY <1>5, <2>1
  <2>3. Listed'  BY <1>5, <1>6, <2>1, <2>2 DEF Lists, Listed
  <2>4. \A c \in Streams : c \in subs' <=> stage[c] = "attached"
    BY <1>1, <2>1 DEF Registration
  <2>5. \A c \in Streams : stage[c] # "attached" => got'[c] = got[c]  BY <2>1, <2>4
  <2>6. Registration'  BY <1>1, <1>6, <2>1, <2>4, <2>5 DEF Registration
  <2>7. ASSUME NEW c \in Streams, stage[c] = "attached"
        PROVE  Fresh(Received(c))'
    <3>1. got'[c] = Append(got[c], e) /\ queue[c] = <<>>
      BY <1>1, <1>8, <2>1, <2>4, <2>7 DEF Registration
    <3>2. got[c] \in Seq(S) /\ got'[c] \in Seq(S)  BY <1>5, <2>2
    <3>3. Received(c) = got[c] /\ Received(c)' = got'[c]  BY <2>1, <3>1, <3>2 DEF Received
    <3>4. Fresh(Received(c))  BY <1>1, <2>7 DEF UpToDate
    <3>5. PICK r : r = Received(c)  OBVIOUS
    <3>6. Fresh(Append(r, e))'  BY <1>5, <1>6, <3>2, <3>3, <3>4, <3>5, FreshGrows
    <3> QED  BY <3>1, <3>3, <3>5, <3>6 DEF Fresh
  <2>8. UpToDate'  BY <1>6, <2>7 DEF UpToDate
  <2> QED  BY <1>1, <1>6, <2>3, <2>6, <2>8
<1> QED  BY <1>1, <1>7, <1>8

-----------------------------------------------------------------------------
\* The history is the end of what was sent, all of it or HistoryCap envelopes.
LEMMA HistoryFresh ==
    ASSUME NEW S, sent \in Seq(S)
    PROVE  History \in Seq(S) /\ Fresh(History)
<1>1. Len(sent) \in Nat /\ HistoryCap \in Nat \ {0}  BY OpsConsoleAssumption
<1>2. CASE Len(sent) > HistoryCap
  <2>1. History = SubSeq(sent, Len(sent) - HistoryCap + 1, Len(sent))  BY <1>2 DEF History
  <2>2. History \in Seq(S) /\ Len(History) = HistoryCap /\ Ends(History, sent)
    BY <1>1, <1>2, <2>1, TailEnds
  <2> QED  BY <1>1, <2>2 DEF Fresh
<1>3. CASE ~(Len(sent) > HistoryCap)
  <2>1. History = SubSeq(sent, 1, Len(sent))  BY <1>3 DEF History
  <2>2. History = sent  BY <1>1, <2>1
  <2>3. Ends(sent, sent)  BY <1>1 DEF Ends
  <2> QED  BY <2>2, <2>3 DEF Fresh
<1> QED  BY <1>2, <1>3

LEMMA AcceptPreserves ==
    ASSUME IInv, NEW c \in Streams, Accept(c)
    PROVE  IInv'
<1> SUFFICES ASSUME mode # "replay"
             PROVE  (mode \in {"bridge", "watch"} /\ Listed /\ Registration /\ UpToDate)'
  BY DEF IInv, Accept
<1>1. mode \in {"bridge", "watch"} /\ Listed /\ Registration /\ UpToDate  BY DEF IInv
<1>2. PICK S : Lists(S, sent, queue, got)  BY <1>1 DEF Listed
<1>3. PICK h : h = IF mode = "bridge" THEN History ELSE <<>>  OBVIOUS
<1>4. /\ mode' = mode /\ sent' = sent /\ got' = got
      /\ stage[c] = "waiting" /\ stage' = [stage EXCEPT ![c] = "attached"]
      /\ queue' = [queue EXCEPT ![c] = h]
      /\ subs' = subs \cup {c}
  BY <1>1, <1>3 DEF Accept
<1>5. h \in Seq(S) /\ Fresh(h)
  <2>1. sent \in Seq(S)  BY <1>2 DEF Lists
  <2>2. CASE mode = "bridge"  BY <1>3, <2>1, <2>2, HistoryFresh
  <2>3. CASE mode = "watch"
    <3>1. h = <<>>  BY <1>3, <2>3
    <3>2. Ends(h, sent)  BY <2>1, <3>1 DEF Ends
    <3> QED  BY <2>3, <3>1, <3>2 DEF Fresh
  <2> QED  BY <1>1, <2>2, <2>3
<1>6. Listed'  BY <1>2, <1>4, <1>5 DEF Lists, Listed
<1>7. got[c] = <<>>  BY <1>1, <1>4 DEF Registration
<1>8. Registration'
  <2>1. stage' \in [Streams -> {"away", "waiting", "attached", "gone"}]
    BY <1>1, <1>4 DEF Registration
  <2>2. ASSUME NEW d \in Streams
        PROVE  /\ stage'[d] = "attached" => d \in subs'
               /\ stage'[d] \in {"away", "waiting"} => d \notin subs'
               /\ stage'[d] # "attached" => got'[d] = <<>>
    BY <1>1, <1>4 DEF Registration
  <2>3. ASSUME mode = "watch", NEW d \in Streams
        PROVE  queue'[d] = <<>>
    BY <1>1, <1>2, <1>3, <1>4, <2>3 DEF Registration, Lists
  <2> QED  BY <1>4, <2>1, <2>2, <2>3 DEF Registration
<1>9. ASSUME NEW d \in Streams, stage'[d] = "attached"
      PROVE  Fresh(Received(d))'
  <2>1. CASE d = c
    <3>1. got'[c] = <<>> /\ queue'[c] = h  BY <1>2, <1>4, <1>7 DEF Lists
    <3>2. Received(c)' = h  BY <1>5, <3>1 DEF Received
    <3> QED  BY <1>4, <1>5, <2>1, <3>2 DEF Fresh
  <2>2. CASE d # c
    <3>1. stage[d] = "attached" /\ Received(d)' = Received(d)
      BY <1>1, <1>2, <1>4, <1>9, <2>2 DEF Registration, Received, Lists
    <3>2. Fresh(Received(d))  BY <1>1, <3>1 DEF UpToDate
    <3> QED  BY <1>4, <3>1, <3>2 DEF Fresh
  <2> QED  BY <2>1, <2>2
<1>10. UpToDate'  BY <1>9 DEF UpToDate
<1> QED  BY <1>1, <1>4, <1>6, <1>8, <1>10

\* What is on its way arrives.
LEMMA DeliverPreserves ==
    ASSUME IInv, NEW c \in Streams, Deliver(c)
    PROVE  IInv'
<1> SUFFICES ASSUME mode # "replay"
             PROVE  (mode \in {"bridge", "watch"} /\ Listed /\ Registration /\ UpToDate)'
  BY DEF IInv, Deliver
<1>1. mode \in {"bridge", "watch"} /\ Listed /\ Registration /\ UpToDate  BY DEF IInv
<1>2. PICK S : Lists(S, sent, queue, got)  BY <1>1 DEF Listed
<1>3. /\ mode' = mode /\ sent' = sent /\ subs' = subs /\ stage' = stage
      /\ stage[c] = "attached"
      /\ got' = [got EXCEPT ![c] = got[c] \o queue[c]]
      /\ queue' = [queue EXCEPT ![c] = <<>>]
  BY DEF Deliver
<1>4. got[c] \o queue[c] \in Seq(S) /\ <<>> \in Seq(S)  BY <1>2 DEF Lists
<1>5. Listed'
  <2>1. got' \in [Streams -> Seq(S)]  BY <1>2, <1>3, <1>4 DEF Lists
  <2>2. queue' \in [Streams -> Seq(S)]  BY <1>2, <1>3, <1>4 DEF Lists
  <2> QED  BY <1>2, <1>3, <2>1, <2>2 DEF Lists, Listed
<1>6. Registration'  BY <1>1, <1>2, <1>3 DEF Registration, Lists
<1>7. ASSUME NEW d \in Streams
      PROVE  Received(d)' = Received(d)
  <2>1. CASE d = c
    <3>1. got'[c] = got[c] \o queue[c] /\ queue'[c] = <<>>  BY <1>2, <1>3 DEF Lists
    <3>2. (got[c] \o queue[c]) \o <<>> = got[c] \o queue[c]  BY <1>4
    <3> QED  BY <2>1, <3>1, <3>2 DEF Received
  <2>2. CASE d # c  BY <1>2, <1>3, <2>2 DEF Received, Lists
  <2> QED  BY <2>1, <2>2
<1>8. UpToDate'  BY <1>1, <1>3, <1>7 DEF UpToDate, Fresh
<1> QED  BY <1>1, <1>3, <1>5, <1>6, <1>8

\* A stream that is no longer attached has received nothing.
LEMMA DetachPreserves ==
    ASSUME IInv, NEW c \in Streams, Leave(c) \/ (stage[c] = "gone" /\ Release(c, "away"))
    PROVE  IInv'
<1> SUFFICES ASSUME mode # "replay"
             PROVE  (mode \in {"bridge", "watch"} /\ Listed /\ Registration /\ UpToDate)'
  BY DEF IInv, Leave, Release
<1>1. mode \in {"bridge", "watch"} /\ Listed /\ Registration /\ UpToDate  BY DEF IInv
<1>2. PICK S : Lists(S, sent, queue, got)  BY <1>1 DEF Listed
<1>3. /\ mode' = mode /\ sent' = sent
      /\ got' = [got EXCEPT ![c] = <<>>]
      /\ queue' = queue \/ queue' = [queue EXCEPT ![c] = <<>>]
      /\ \/ stage' = [stage EXCEPT ![c] = "gone"] /\ subs' = subs /\ stage[c] = "attached"
         \/ stage' = [stage EXCEPT ![c] = "away"] /\ subs' = subs \ {c}
  BY DEF Leave, Release
<1>4. got' \in [Streams -> Seq(S)] /\ queue' \in [Streams -> Seq(S)]
  <2>1. <<>> \in Seq(S)  OBVIOUS
  <2>2. got' \in [Streams -> Seq(S)]  BY <1>2, <1>3, <2>1 DEF Lists
  <2>3. queue' \in [Streams -> Seq(S)]  BY <1>2, <1>3, <2>1 DEF Lists
  <2> QED  BY <2>2, <2>3
<1>5. Listed'  BY <1>2, <1>3, <1>4 DEF Lists, Listed
<1>6. Registration'
  <2>1. stage' \in [Streams -> {"away", "waiting", "attached", "gone"}]
    BY <1>1, <1>3 DEF Registration
  <2>2. ASSUME NEW d \in Streams
        PROVE  /\ stage'[d] = "attached" => d \in subs'
               /\ stage'[d] \in {"away", "waiting"} => d \notin subs'
               /\ stage'[d] # "attached" => got'[d] = <<>>
    BY <1>1, <1>2, <1>3 DEF Registration, Lists
  <2>3. ASSUME mode = "watch", NEW d \in Streams
        PROVE  queue'[d] = <<>>
    BY <1>1, <1>2, <1>3, <2>3 DEF Registration, Lists
  <2> QED  BY <1>3, <2>1, <2>2, <2>3 DEF Registration
<1>7. ASSUME NEW d \in Streams, stage'[d] = "attached"
      PROVE  Fresh(Received(d))'
  <2>1. stage[d] = "attached" /\ d # c  BY <1>1, <1>3, <1>7 DEF Registration
  <2>2. got'[d] = got[d] /\ queue'[d] = queue[d]  BY <1>2, <1>3, <2>1 DEF Lists
  <2>3. Fresh(Received(d))  BY <1>1, <2>1 DEF UpToDate
  <2> QED  BY <1>3, <2>2, <2>3 DEF Fresh, Received
<1>8. UpToDate'  BY <1>7 DEF UpToDate
<1> QED  BY <1>1, <1>3, <1>5, <1>6, <1>8

-----------------------------------------------------------------------------
LEMMA StepPreserves == IInv /\ [Next]_vars => IInv'
<1> SUFFICES ASSUME IInv, [Next]_vars
             PROVE  IInv'
  OBVIOUS
<1> USE DEF logVars, tailVars, pageVars
<1>1. ASSUME NEW line \in Lines, Write(line)
      PROVE  IInv'
  BY <1>1, Unseen DEF Write
<1>2. CASE WriteRest  BY <1>2, Unseen DEF WriteRest
<1>3. CASE Kill  BY <1>3, Unseen DEF Kill
<1>4. CASE Tailing
  <2>1. CASE TailLine  BY <2>1, Unseen DEF TailLine
  <2>2. CASE TailHalf  BY <2>2, Unseen DEF TailHalf
  <2>3. CASE WatchPoll  BY <2>3, Unseen DEF WatchPoll
  <2>4. CASE WatchLine  BY <2>4, Unseen DEF WatchLine
  <2>5. CASE Broadcast  BY <2>5, BroadcastPreserves
  <2> QED  BY <1>4, <2>1, <2>2, <2>3, <2>4, <2>5 DEF Tailing
<1>5. CASE LoadRun  BY <1>5 DEF LoadRun, IInv
<1>6. ASSUME NEW c \in Streams, Serving(c)
      PROVE  IInv'
  <2>1. CASE Accept(c)  BY <2>1, AcceptPreserves
  <2>2. CASE Deliver(c)  BY <2>2, DeliverPreserves
  <2>3. CASE EndReplay(c)  BY <2>3 DEF EndReplay, Release, IInv
  <2>4. CASE Notice(c)  BY <2>4, DetachPreserves DEF Notice
  <2> QED  BY <1>6, <2>1, <2>2, <2>3, <2>4 DEF Serving
<1>7. ASSUME NEW c \in Streams, Open(c)
      PROVE  IInv'
  BY <1>7, Unseen DEF Open
<1>8. ASSUME NEW c \in Streams, Leave(c)
      PROVE  IInv'
  BY <1>8, DetachPreserves
<1>9. CASE UNCHANGED vars  BY <1>9, Unseen DEF vars
<1> QED  BY <1>1, <1>2, <1>3, <1>4, <1>5, <1>6, <1>7, <1>8, <1>9 DEF Next

\* The inductive invariant holds in every state.
THEOREM Invariance == Spec => []IInv
BY InitEstablishes, StepPreserves, PTL DEF Spec

\* From either server, whatever the log, the connections and the length of the
\* history: an attached stream gets the envelopes in order up to the last, none
\* twice, and from the bridge all that its history held when it came.
THEOREM NoneTwice == Spec => []EachOnce
<1>1. IInv => EachOnce
  <2> SUFFICES ASSUME IInv, NEW c \in Streams, mode # "replay", stage[c] = "attached"
               PROVE  /\ IsSuffix(Received(c), sent)
                      /\ mode = "bridge" => \/ Len(Received(c)) = Len(sent)
                                            \/ Len(Received(c)) >= HistoryCap
    BY DEF EachOnce
  <2>1. Listed /\ UpToDate  BY DEF IInv
  <2>2. PICK S : Lists(S, sent, queue, got)  BY <2>1 DEF Listed
  <2>3. Received(c) \in Seq(S) /\ sent \in Seq(S)  BY <2>2 DEF Lists, Received
  <2>4. Fresh(Received(c))  BY <2>1 DEF UpToDate
  <2> QED  BY <2>3, <2>4, EndIsSuffix DEF Fresh
<1> QED  BY <1>1, Invariance, PTL

-----------------------------------------------------------------------------
\* Induction over the naturals, for a set rather than a predicate.
LEMMA NatSetInduction ==
    ASSUME NEW S, 0 \in S, \A n \in Nat : n \in S => n + 1 \in S
    PROVE  Nat \subseteq S
<1> SUFFICES ASSUME Nat \ S # {} PROVE FALSE
  OBVIOUS
<1>1. PICK R : R = OpToRel(<, Nat)  OBVIOUS
<1>2. IsWellFoundedOn(R, Nat)  BY <1>1, NatLessThanWellFounded
<1>3. \A x, y \in Nat : y < x => <<y, x>> \in R  BY <1>1 DEF OpToRel
<1>4. PICK T : T = Nat \ S  OBVIOUS
<1>5. T \subseteq Nat /\ T # {}  BY <1>4
<1>6. PICK n \in T : \A m \in T : ~(<<m, n>> \in R)
  BY <1>2, <1>5, WFMin
<1>7. n \in Nat /\ n \notin S /\ n # 0  BY <1>4, <1>6
<1>8. n - 1 \in Nat /\ n - 1 < n /\ (n - 1) + 1 = n  BY <1>7
<1>9. n - 1 \notin T  BY <1>3, <1>6, <1>7, <1>8
<1> QED  BY <1>4, <1>7, <1>8, <1>9

\* A set of naturals up to n that is not empty has its Max.
LEMMA MaxBounds ==
    ASSUME NEW n \in Nat, NEW S \in SUBSET (1..n), S # {}
    PROVE  Max(S) \in S /\ \A y \in S : y <= Max(S)
<1> DEFINE Below == {k \in Nat : (\E y \in S : k < y) \/ (\E x \in S : \A y \in S : x >= y)}
<1>1. 0 \in Below
  <2>1. PICK y \in S : TRUE  OBVIOUS
  <2>2. 0 < y  BY <2>1
  <2> QED  BY <2>1, <2>2
<1>2. ASSUME NEW k \in Nat, k \in Below PROVE k + 1 \in Below
  <2>1. CASE \E x \in S : \A y \in S : x >= y  BY <2>1
  <2>2. CASE \E y \in S : k < y
    <3>1. PICK y \in S : k < y  BY <2>2
    <3>2. CASE \E z \in S : k + 1 < z  BY <3>2
    <3>3. CASE \A z \in S : ~(k + 1 < z)
      <4>1. \A z \in S : y >= z  BY <3>1, <3>3
      <4> QED  BY <4>1
    <3> QED  BY <3>2, <3>3
  <2> QED  BY <1>2, <2>1, <2>2
<1> HIDE DEF Below
<1>3. n \in Below  BY <1>1, <1>2, NatSetInduction
<1>4. \E x \in S : \A y \in S : x >= y  BY <1>3 DEF Below
<1>5. Max(S) \in S /\ \A y \in S : Max(S) >= y  BY <1>4 DEF Max
<1> QED  BY <1>5

-----------------------------------------------------------------------------
(* What the translator makes is envelopes                                  *)

RunStates == [snapshotSent : BOOLEAN,
              taskOf : [Stations -> Nat],
              revAgent : [Stations -> Nat],
              revStation : [Stations -> Nat],
              completed : Nat, failed : Nat, seq : Nat]

Translated == [out : Seq(Envelopes), rs : RunStates]

LEMMA LineKinds ==
    ASSUME NEW line \in Lines
    PROVE  \/ line.event \in RunEvents \cup {"junk"} /\ line.at = {}
           \/ line.event \in StepEvents /\ \E s \in Stations : line.at = {s}
BY DEF Lines

LEMMA EnvsStamped ==
    ASSUME NEW envs \in Seq(Envelopes), NEW rs0 \in RunStates, NEW skip \in Nat
    PROVE  Emit(rs0, envs, skip) \in Translated
<1>1. rs0.seq \in Nat /\ rs0.seq + skip \in Nat /\ Len(envs) \in Nat  BY DEF RunStates
<1>2. ASSUME NEW n \in Nat
      PROVE  Stamped(envs, n) \in Seq(Envelopes)
  <2>1. \A i \in 1..Len(envs) : envs[i] \in Envelopes /\ n + i \in Nat  OBVIOUS
  <2>2. \A i \in 1..Len(envs) : [envs[i] EXCEPT !.seq = n + i] \in Envelopes
    BY <2>1 DEF Envelopes
  <2>3. PICK len \in Nat : len = Len(envs) /\ DOMAIN envs = 1..len  OBVIOUS
  <2>4. Stamped(envs, n) = [i \in 1..len |-> [envs[i] EXCEPT !.seq = n + i]]
    BY <2>3 DEF Stamped
  <2>5. Stamped(envs, n) \in [1..len -> Envelopes]  BY <2>2, <2>3, <2>4
  <2> QED  BY <2>5
<1>3. [rs0 EXCEPT !.seq = @ + skip + Len(envs)] \in RunStates
  <2>1. rs0.seq + skip + Len(envs) \in Nat  BY <1>1
  <2> QED  BY <2>1 DEF RunStates
<1> QED  BY <1>1, <1>2, <1>3 DEF Emit, Translated

LEMMA EnvTyped ==
    ASSUME NEW type \in {"snapshot", "log.appended", "task.enqueued", "task.assigned",
                         "task.completed", "task.failed", "agent.updated",
                         "station.updated", "alert.raised", "metrics.tick"},
           NEW at \in SUBSET Stations,
           NEW state \in {"", "busy", "idle", "drain", "dispatched", "returning",
                          "critical", "warning"},
           NEW num \in Seq(Nat)
    PROVE  Env(type, at, state, num) \in Envelopes
BY DEF Env, Envelopes

\* Short sequences of envelopes.
LEMMA ListsTyped ==
    ASSUME NEW a \in Envelopes, NEW b \in Envelopes, NEW c \in Envelopes,
           NEW d \in Envelopes, NEW e \in Envelopes
    PROVE  <<a>> \in Seq(Envelopes) /\ <<a, b, c>> \in Seq(Envelopes)
           /\ <<a, b, c, d, e>> \in Seq(Envelopes)
OBVIOUS

LEMMA SnapshotsTyped == Snapshot \in Envelopes /\ Log \in Envelopes
<1>1. <<>> \in Seq(Nat) /\ {} \in SUBSET Stations  OBVIOUS
<1> QED  BY <1>1, EnvTyped DEF Snapshot, Log

LEMMA StartTyped ==
    ASSUME NEW rs0 \in RunStates, NEW s \in Stations
    PROVE  TranslateStart(rs0, {s}, s) \in Translated
<1> DEFINE task == rs0.seq + 1
           now == [rs0 EXCEPT !.taskOf[s] = task, !.revAgent[s] = @ + 1, !.revStation[s] = @ + 1]
           envs == <<Env("task.enqueued", {s}, "", <<task>>),
                     Env("task.assigned", {s}, "", <<task>>),
                     Env("agent.updated", {s}, "dispatched", <<now.revAgent[s]>>),
                     Env("station.updated", {s}, "busy", <<now.revStation[s]>>), Log>>
<1>1. task \in Nat /\ rs0.revAgent[s] + 1 \in Nat /\ rs0.revStation[s] + 1 \in Nat
  BY DEF RunStates
<1>2. now \in RunStates  BY <1>1 DEF RunStates
<1> HIDE DEF now, task
<1>3. now.revAgent[s] \in Nat /\ now.revStation[s] \in Nat  BY <1>2 DEF RunStates
<1>4. /\ <<task>> \in Seq(Nat) /\ <<now.revAgent[s]>> \in Seq(Nat)
      /\ <<now.revStation[s]>> \in Seq(Nat) /\ {s} \in SUBSET Stations
  BY <1>1, <1>3 DEF task
<1>5. /\ Env("task.enqueued", {s}, "", <<task>>) \in Envelopes
      /\ Env("task.assigned", {s}, "", <<task>>) \in Envelopes
  BY <1>4, EnvTyped
<1>6. /\ Env("agent.updated", {s}, "dispatched", <<now.revAgent[s]>>) \in Envelopes
      /\ Env("station.updated", {s}, "busy", <<now.revStation[s]>>) \in Envelopes
  BY <1>4, EnvTyped
<1>7. envs \in Seq(Envelopes)  BY <1>5, <1>6, SnapshotsTyped, ListsTyped
<1> HIDE DEF envs
<1>8. Emit(now, envs, 1) \in Translated  BY <1>2, <1>7, EnvsStamped
<1>9. TranslateStart(rs0, {s}, s) = Emit(now, envs, 1)
  BY DEF TranslateStart, now, envs, task
<1> QED  BY <1>8, <1>9

LEMMA CompleteTyped ==
    ASSUME NEW rs0 \in RunStates, NEW s \in Stations
    PROVE  TranslateComplete(rs0, {s}, s) \in Translated
<1> DEFINE now == [rs0 EXCEPT !.completed = @ + 1, !.revAgent[s] = @ + 1, !.revStation[s] = @ + 1]
           envs == <<Env("task.completed", {s}, "", <<rs0.taskOf[s]>>),
                     Env("agent.updated", {s}, "returning", <<now.revAgent[s]>>),
                     Env("station.updated", {s}, "idle", <<now.revStation[s]>>),
                     Env("metrics.tick", {}, "", <<now.completed, now.failed>>), Log>>
<1>1. rs0.completed + 1 \in Nat /\ rs0.revAgent[s] + 1 \in Nat /\ rs0.revStation[s] + 1 \in Nat
  BY DEF RunStates
<1>2. now \in RunStates  BY <1>1 DEF RunStates
<1> HIDE DEF now
<1>3. /\ now.revAgent[s] \in Nat /\ now.revStation[s] \in Nat
      /\ now.completed \in Nat /\ now.failed \in Nat /\ rs0.taskOf[s] \in Nat
  BY <1>2 DEF RunStates
<1>4. /\ <<rs0.taskOf[s]>> \in Seq(Nat) /\ <<now.revAgent[s]>> \in Seq(Nat)
      /\ <<now.revStation[s]>> \in Seq(Nat) /\ <<now.completed, now.failed>> \in Seq(Nat)
      /\ {s} \in SUBSET Stations /\ {} \in SUBSET Stations
  BY <1>3
<1>5. /\ Env("task.completed", {s}, "", <<rs0.taskOf[s]>>) \in Envelopes
      /\ Env("metrics.tick", {}, "", <<now.completed, now.failed>>) \in Envelopes
  BY <1>4, EnvTyped
<1>6. /\ Env("agent.updated", {s}, "returning", <<now.revAgent[s]>>) \in Envelopes
      /\ Env("station.updated", {s}, "idle", <<now.revStation[s]>>) \in Envelopes
  BY <1>4, EnvTyped
<1>7. envs \in Seq(Envelopes)  BY <1>5, <1>6, SnapshotsTyped, ListsTyped
<1> HIDE DEF envs
<1>8. Emit(now, envs, 0) \in Translated  BY <1>2, <1>7, EnvsStamped
<1>9. TranslateComplete(rs0, {s}, s) = Emit(now, envs, 0)
  BY DEF TranslateComplete, now, envs
<1> QED  BY <1>8, <1>9

LEMMA FailedTyped ==
    ASSUME NEW rs0 \in RunStates, NEW s \in Stations
    PROVE  TranslateFailed(rs0, {s}, s) \in Translated
<1> DEFINE now == [rs0 EXCEPT !.failed = @ + 1, !.revStation[s] = @ + 1]
           ended == <<Env("task.failed", {s}, "", <<rs0.taskOf[s]>>)>>
           first == Emit(now, ended, 0)
           envs == <<Env("alert.raised", {s}, "warning", <<>>),
                     Env("station.updated", {s}, "idle", <<now.revStation[s]>>), Log>>
           rest == Emit(first.rs, envs, 1)
<1>1. rs0.failed + 1 \in Nat /\ rs0.revStation[s] + 1 \in Nat
  BY DEF RunStates
<1>2. now \in RunStates  BY <1>1 DEF RunStates
<1> HIDE DEF now
<1>3. now.revStation[s] \in Nat /\ rs0.taskOf[s] \in Nat
  BY <1>2 DEF RunStates
<1>4. /\ <<rs0.taskOf[s]>> \in Seq(Nat) /\ <<now.revStation[s]>> \in Seq(Nat)
      /\ <<>> \in Seq(Nat) /\ {s} \in SUBSET Stations
  BY <1>3
<1>5. /\ Env("task.failed", {s}, "", <<rs0.taskOf[s]>>) \in Envelopes
      /\ Env("alert.raised", {s}, "warning", <<>>) \in Envelopes
      /\ Env("station.updated", {s}, "idle", <<now.revStation[s]>>) \in Envelopes
  BY <1>4, EnvTyped
<1>6. ended \in Seq(Envelopes) /\ envs \in Seq(Envelopes)
  BY <1>5, SnapshotsTyped, ListsTyped
<1> HIDE DEF envs, ended
<1>7. first \in Translated  BY <1>2, <1>6, EnvsStamped
<1>8. first.rs \in RunStates /\ first.out \in Seq(Envelopes)  BY <1>7 DEF Translated
<1> HIDE DEF first
<1>9. rest \in Translated  BY <1>6, <1>8, EnvsStamped
<1>10. rest.rs \in RunStates /\ rest.out \in Seq(Envelopes)  BY <1>9 DEF Translated
<1> HIDE DEF rest
<1>11. first.out \o rest.out \in Seq(Envelopes)  BY <1>8, <1>10
<1>12. [out |-> first.out \o rest.out, rs |-> rest.rs] \in Translated
  BY <1>10, <1>11 DEF Translated
<1>13. TranslateFailed(rs0, {s}, s) = [out |-> first.out \o rest.out, rs |-> rest.rs]
  BY DEF TranslateFailed, now, envs, ended, first, rest
<1> QED  BY <1>12, <1>13

LEMMA LineTranslated ==
    ASSUME NEW rs0 \in RunStates, NEW line \in Lines
    PROVE  Translate(line, rs0) \in Translated
<1>1. /\ Snapshot \in Envelopes /\ Log \in Envelopes
      /\ <<Snapshot, Log>> \in Seq(Envelopes) /\ <<Log>> \in Seq(Envelopes)
      /\ (IF rs0.snapshotSent THEN <<>> ELSE <<Snapshot>>) \o <<Log>> \in Seq(Envelopes)
  BY SnapshotsTyped
<1>2. [rs0 EXCEPT !.snapshotSent = TRUE] \in RunStates  BY DEF RunStates
<1>3. CASE line.event \in RunEvents \cup {"junk"}
  <2>1. CASE line.event = "run.start"
    <3>1. Translate(line, rs0) = Emit([rs0 EXCEPT !.snapshotSent = TRUE], <<Snapshot, Log>>, 0)
      BY <2>1 DEF Translate
    <3> QED  BY <1>1, <1>2, <3>1, EnvsStamped
  <2>2. CASE line.event = "plan.created"
    <3>1. Translate(line, rs0) = Emit([rs0 EXCEPT !.snapshotSent = TRUE],
                     (IF rs0.snapshotSent THEN <<>> ELSE <<Snapshot>>) \o <<Log>>, 0)
      BY <2>2 DEF Translate
    <3> QED  BY <1>1, <1>2, <3>1, EnvsStamped
  <2>3. CASE line.event = "run.complete"
    <3>1. PICK tick : tick = Env("metrics.tick", {}, "", <<rs0.completed, rs0.failed>>)
      OBVIOUS
    <3>2. <<rs0.completed, rs0.failed>> \in Seq(Nat) /\ {} \in SUBSET Stations
      BY DEF RunStates
    <3>3. tick \in Envelopes  BY <3>1, <3>2, EnvTyped
    <3>4. <<tick, Log>> \in Seq(Envelopes)  BY <1>1, <3>3
    <3>5. Translate(line, rs0) = Emit(rs0, <<tick, Log>>, 0)  BY <2>3, <3>1 DEF Translate
    <3> QED  BY <3>4, <3>5, EnvsStamped
  <2>4. CASE line.event = "junk"
    <3>1. Translate(line, rs0) = [out |-> <<>>, rs |-> rs0]  BY <2>4 DEF Translate
    <3> QED  BY <3>1 DEF Translated
  <2> QED  BY <1>3, <2>1, <2>2, <2>3, <2>4 DEF RunEvents
<1>4. CASE line.event \in StepEvents
  <2>1. PICK s \in Stations : line.at = {s}
    BY <1>4, LineKinds DEF StepEvents, RunEvents
  <2>2. (CHOOSE x \in line.at : TRUE) = s  BY <2>1
  <2>3. CASE line.event = "step.start"
    <3>1. Translate(line, rs0) = TranslateStart(rs0, {s}, s)
      BY <2>1, <2>2, <2>3 DEF Translate
    <3> QED  BY <3>1, StartTyped
  <2>4. CASE line.event = "step.complete"
    <3>1. Translate(line, rs0) = TranslateComplete(rs0, {s}, s)
      BY <2>1, <2>2, <2>4 DEF Translate
    <3> QED  BY <3>1, CompleteTyped
  <2>5. CASE line.event = "step.failed"
    <3>1. Translate(line, rs0) = TranslateFailed(rs0, {s}, s)
      BY <2>1, <2>2, <2>5 DEF Translate
    <3> QED  BY <3>1, FailedTyped
  <2>6. CASE line.event = "retry"
    <3>1. PICK alert : alert = Env("alert.raised", line.at, "warning", <<>>)
      OBVIOUS
    <3>2. <<>> \in Seq(Nat) /\ line.at \in SUBSET Stations  BY <2>1
    <3>3. alert \in Envelopes  BY <3>1, <3>2, EnvTyped
    <3>4. <<alert, Log>> \in Seq(Envelopes)  BY <1>1, <3>3
    <3>5. Translate(line, rs0) = Emit(rs0, <<alert, Log>>, 1)  BY <2>6, <3>1 DEF Translate
    <3> QED  BY <3>4, <3>5, EnvsStamped
  <2>7. CASE line.event = "critic.review"
    <3>1. Translate(line, rs0) = Emit(rs0, <<Log>>, 0)  BY <2>7 DEF Translate
    <3> QED  BY <1>1, <3>1, EnvsStamped
  <2> QED  BY <1>4, <2>3, <2>4, <2>5, <2>6, <2>7 DEF StepEvents
<1> QED  BY <1>3, <1>4, LineKinds

-----------------------------------------------------------------------------
(* Folds: FoldLeft is a function on the sets of places, the last taken last *)

\* What a set of places is without the last of them.
LEMMA LastRemoved ==
    ASSUME NEW n \in Nat, NEW s \in SUBSET (1..n)
    PROVE  /\ IsFiniteSet(s) /\ Cardinality(s) \in Nat
           /\ Cardinality(s) = 0 <=> s = {}
           /\ s # {} => /\ Max(s) \in 1..n
                        /\ s \ {Max(s)} \in SUBSET (1..n)
                        /\ Cardinality(s \ {Max(s)}) = Cardinality(s) - 1
<1>1. IsFiniteSet(s) /\ Cardinality(s) \in Nat
  <2>1. IsFiniteSet(1..n)  BY FS_Interval
  <2> QED  BY <2>1, FS_Subset, FS_CardinalityType
<1>2. Cardinality(s) = 0 <=> s = {}  BY <1>1, FS_EmptySet
<1>3. ASSUME s # {}
      PROVE  /\ Max(s) \in 1..n
             /\ s \ {Max(s)} \in SUBSET (1..n)
             /\ Cardinality(s \ {Max(s)}) = Cardinality(s) - 1
  <2>1. Max(s) \in s  BY <1>3, MaxBounds
  <2>2. Cardinality(s \ {Max(s)}) = Cardinality(s) - 1  BY <1>1, <2>1, FS_RemoveElement
  <2> QED  BY <2>1, <2>2
<1> QED  BY <1>1, <1>2, <1>3

\* g folds s by the step F, wherever the results before are in T.
Folds(g, T, F, s, base) ==
    /\ g[{}] = base
    /\ \A p \in SUBSET (1..Len(s)) :
           p # {} /\ g[p \ {Max(p)}] \in T => g[p] = F[<<g[p \ {Max(p)}], s[Max(p)]>>]

\* t holds the results after each of the elements, of which the fold g is the last.
Results(t, T, F, s, base, g) ==
    /\ t \in [0..Len(s) -> T] /\ t[0] = base
    /\ \A i \in 1..Len(s) : t[i] = F[<<t[i - 1], s[i]>>]
    /\ t[Len(s)] = g[1..Len(s)]

\* Such a function exists for any step F that stays within T.
LEMMA FoldExists ==
    ASSUME NEW T, NEW A, NEW F \in [T \X A -> T], NEW s \in Seq(A), NEW base \in T
    PROVE  \E g \in [SUBSET (1..Len(s)) -> T] : Folds(g, T, F, s, base)
<1>1. PICK n \in Nat : n = Len(s)  OBVIOUS
<1> DEFINE then(g, p) == F[<<g[p \ {Max(p)}], s[Max(p)]>>]
           UpTo(k) == {g \in [SUBSET (1..n) -> T] : \A p \in SUBSET (1..n) :
                          Cardinality(p) <= k => g[p] = IF p = {} THEN base ELSE then(g, p)}
           Ns == {k \in Nat : UpTo(k) # {}}
<1>2. 0 \in Ns
  <2>1. [p \in SUBSET (1..n) |-> base] \in [SUBSET (1..n) -> T]  OBVIOUS
  <2>2. ASSUME NEW p \in SUBSET (1..n), Cardinality(p) <= 0
        PROVE  p = {}
    <3>1. Cardinality(p) \in Nat /\ (Cardinality(p) = 0 => p = {})  BY LastRemoved
    <3> QED  BY <2>2, <3>1
  <2>3. [p \in SUBSET (1..n) |-> base] \in UpTo(0)  BY <2>1, <2>2
  <2> QED  BY <2>3
<1>3. ASSUME NEW k \in Nat, k \in Ns
      PROVE  k + 1 \in Ns
  <2>1. PICK g : g \in UpTo(k)  BY <1>3
  <2>2. /\ g \in [SUBSET (1..n) -> T]
        /\ \A p \in SUBSET (1..n) : Cardinality(p) <= k =>
               g[p] = IF p = {} THEN base ELSE then(g, p)
    BY <2>1
  <2> DEFINE h == [p \in SUBSET (1..n) |-> IF p = {} THEN base ELSE then(g, p)]
  <2>3. ASSUME NEW p \in SUBSET (1..n), p # {}
        PROVE  then(g, p) \in T
    <3>1. Max(p) \in 1..n /\ p \ {Max(p)} \in SUBSET (1..n)  BY <2>3, LastRemoved
    <3>2. g[p \ {Max(p)}] \in T /\ s[Max(p)] \in A  BY <1>1, <2>2, <3>1
    <3> QED  BY <3>2
  <2> HIDE DEF then
  <2>4. h \in [SUBSET (1..n) -> T]  BY <2>3
  <2>5. ASSUME NEW p \in SUBSET (1..n), Cardinality(p) <= k
        PROVE  h[p] = g[p]
    BY <2>2, <2>5
  <2>6. ASSUME NEW p \in SUBSET (1..n), Cardinality(p) <= k + 1, p # {}
        PROVE  h[p] = then(h, p)
    <3>1. /\ p \ {Max(p)} \in SUBSET (1..n) /\ Cardinality(p) \in Nat
          /\ Cardinality(p \ {Max(p)}) = Cardinality(p) - 1
      BY <2>6, LastRemoved
    <3>2. Cardinality(p) - 1 <= k  BY <2>6, <3>1
    <3>3. Cardinality(p \ {Max(p)}) <= k  BY <3>1, <3>2
    <3>4. h[p \ {Max(p)}] = g[p \ {Max(p)}]  BY <2>5, <3>1, <3>3
    <3>5. then(h, p) = then(g, p)  BY <3>4 DEF then
    <3> QED  BY <2>6, <3>5
  <2>7. h[{}] = base  OBVIOUS
  <2> HIDE DEF h
  <2>8. h \in UpTo(k + 1)  BY <2>4, <2>6, <2>7
  <2>9. UpTo(k + 1) # {}  BY <2>8
  <2> HIDE DEF UpTo
  <2> QED  BY <2>9
<1> HIDE DEF Ns
<1>4. n \in Ns  BY <1>2, <1>3, NatSetInduction
<1>5. PICK g : g \in UpTo(n)  BY <1>4 DEF Ns
<1>6. \A p \in SUBSET (1..n) : Cardinality(p) <= n
  <2>1. IsFiniteSet(1..n) /\ Cardinality(1..n) = n  BY FS_Interval
  <2> QED  BY <2>1, FS_Subset
<1>7. g \in [SUBSET (1..n) -> T]  BY <1>5
<1>8. \A p \in SUBSET (1..n) : g[p] = IF p = {} THEN base ELSE then(g, p)
  BY <1>5, <1>6
<1>9. g[{}] = base  BY <1>8
<1> QED  BY <1>1, <1>7, <1>8, <1>9 DEF Folds

\* What any such function, even one defined by a step that is not confined to T,
\* makes of the first places, of the first two, and so on.
LEMMA FoldRuns ==
    ASSUME NEW T, NEW A, NEW F \in [T \X A -> T], NEW s \in Seq(A), NEW base \in T,
           NEW g, Folds(g, T, F, s, base)
    PROVE  \E t : Results(t, T, F, s, base, g)
<1>1. PICK n \in Nat : n = Len(s)  OBVIOUS
<1> DEFINE t == [k \in 0..n |-> g[1..k]]
           Ns == {k \in Nat : k <= n => t[k] \in T}
<1>2. t[0] = base
  <2>1. 1..0 = {} /\ 0 \in 0..n  OBVIOUS
  <2>2. g[1..0] = base  BY <2>1 DEF Folds
  <2> QED  BY <2>1, <2>2
<1>3. ASSUME NEW k \in 1..n, t[k - 1] \in T
      PROVE  t[k] = F[<<t[k - 1], s[k]>>]
  <2>1. PICK p \in SUBSET (1..n) : p = 1..k  OBVIOUS
  <2>2. k \in p /\ \A i \in p : i <= k  BY <2>1
  <2>3. Max(p) \in p /\ \A i \in p : i <= Max(p)  BY <2>2, MaxBounds
  <2>4. Max(p) = k  BY <2>1, <2>2, <2>3
  <2>5. p \ {k} = 1..(k - 1)  BY <2>1
  <2>6. k - 1 \in 0..n /\ k \in 0..n  OBVIOUS
  <2>7. g[1..(k - 1)] \in T  BY <1>3, <2>6
  <2>8. g[p] = F[<<g[1..(k - 1)], s[k]>>]  BY <1>1, <2>2, <2>4, <2>5, <2>7 DEF Folds
  <2> QED  BY <2>1, <2>6, <2>8
<1> HIDE DEF t
<1>4. 0 \in Ns  BY <1>2
<1>5. ASSUME NEW k \in Nat, k \in Ns
      PROVE  k + 1 \in Ns
  <2>1. ASSUME k + 1 <= n
        PROVE  t[k + 1] \in T
    <3>1. k + 1 \in 1..n /\ (k + 1) - 1 = k /\ t[k] \in T  BY <1>5, <2>1
    <3>2. s[k + 1] \in A  BY <1>1, <3>1
    <3>3. t[k + 1] = F[<<t[k], s[k + 1]>>]  BY <1>3, <3>1
    <3> QED  BY <3>1, <3>2, <3>3
  <2> QED  BY <2>1
<1> HIDE DEF Ns
<1>6. Nat \subseteq Ns  BY <1>4, <1>5, NatSetInduction
<1>7. \A k \in 0..n : t[k] \in T  BY <1>6 DEF Ns
<1>8. t \in [0..n -> T]  BY <1>7 DEF t
<1>9. \A i \in 1..n : t[i] = F[<<t[i - 1], s[i]>>]
  <2> TAKE i \in 1..n
  <2>1. i - 1 \in 0..n  OBVIOUS
  <2> QED  BY <1>3, <1>7, <2>1
<1>10. t[n] = g[1..n]  BY DEF t
<1>11. Results(t, T, F, s, base, g)  BY <1>1, <1>2, <1>8, <1>9, <1>10 DEF Results
<1> QED  BY <1>11

-----------------------------------------------------------------------------
(* Translating a whole log                                                 *)

\* What TranslateAll does with one more line.
TakeLine(acc, line) == LET t == Translate(line, acc.rs)
                       IN [out |-> acc.out \o t.out, rs |-> t.rs]

\* The equation of TranslateAll's fold.
TakesAll(g, lines, base) ==
    g = [s \in SUBSET DOMAIN lines |->
            IF s = {} THEN base ELSE TakeLine(g[s \ {Max(s)}], lines[Max(s)])]

LEMMA LineTaken ==
    ASSUME NEW acc \in Translated, NEW line \in Lines
    PROVE  TakeLine(acc, line) \in Translated
<1>1. acc.rs \in RunStates /\ acc.out \in Seq(Envelopes)  BY DEF Translated
<1>2. PICK t \in Translated : t = Translate(line, acc.rs)  BY <1>1, LineTranslated
<1>3. t.out \in Seq(Envelopes) /\ t.rs \in RunStates  BY <1>2 DEF Translated
<1>4. acc.out \o t.out \in Seq(Envelopes)  BY <1>1, <1>3
<1>5. TakeLine(acc, line) = [out |-> acc.out \o t.out, rs |-> t.rs]  BY <1>2 DEF TakeLine
<1> QED  BY <1>3, <1>4, <1>5 DEF Translated

\* Translating a log is translating its lines, one after the other.
LEMMA TranslatedInOrder ==
    ASSUME NEW lines \in Seq(Lines), NEW rs0 \in RunStates
    PROVE  \E t \in [0..Len(lines) -> Translated] :
               /\ t[0] = [out |-> <<>>, rs |-> rs0]
               /\ \A i \in 1..Len(lines) : t[i] = TakeLine(t[i - 1], lines[i])
               /\ TranslateAll(lines, rs0) = t[Len(lines)]
<1>1. PICK n \in Nat : n = Len(lines) /\ DOMAIN lines = 1..n  OBVIOUS
<1>2. PICK base \in Translated : base = [out |-> <<>>, rs |-> rs0]
  <2>1. <<>> \in Seq(Envelopes)  OBVIOUS
  <2>2. [out |-> <<>>, rs |-> rs0] \in Translated  BY <2>1 DEF Translated
  <2> QED  BY <2>2
<1>3. PICK F : F = [p \in Translated \X Lines |-> TakeLine(p[1], p[2])]  OBVIOUS
<1>4. /\ F \in [Translated \X Lines -> Translated]
      /\ \A acc \in Translated, line \in Lines : F[<<acc, line>>] = TakeLine(acc, line)
  BY <1>3, LineTaken
<1>5. \A p \in SUBSET (1..n) : p # {} => /\ p \ {Max(p)} \in SUBSET (1..n)
                                         /\ lines[Max(p)] \in Lines
  <2> TAKE p \in SUBSET (1..n)
  <2>1. p \ {Max(p)} \in SUBSET (1..n)  OBVIOUS
  <2>2. p # {} => Max(p) \in 1..n  BY LastRemoved
  <2>3. \A i \in 1..n : lines[i] \in Lines  BY <1>1
  <2> QED  BY <2>1, <2>2, <2>3
<1>6. \E g : TakesAll(g, lines, base)
  <2>1. PICK g \in [SUBSET (1..Len(lines)) -> Translated] : Folds(g, Translated, F, lines, base)
    BY <1>4, FoldExists
  <2>2. \A p \in SUBSET (1..n) :
            g[p] = IF p = {} THEN base ELSE TakeLine(g[p \ {Max(p)}], lines[Max(p)])
    BY <1>1, <1>4, <1>5, <2>1 DEF Folds
  <2>3. g = [p \in SUBSET (1..n) |-> g[p]]  BY <1>1
  <2>4. TakesAll(g, lines, base)  BY <1>1, <2>2, <2>3 DEF TakesAll
  <2> QED  BY <2>4
<1> DEFINE all == CHOOSE g : TakesAll(g, lines, base)
<1>7. TakesAll(all, lines, base)  BY <1>6
<1>8. TranslateAll(lines, rs0) = all[1..n]
  BY <1>1, <1>2 DEF TranslateAll, FoldLeft, MapThenFoldSet, TakesAll, TakeLine
<1>9. PICK g : g = all  OBVIOUS
<1> HIDE DEF all
<1>10. \A p \in SUBSET (1..n) :
           g[p] = IF p = {} THEN base ELSE TakeLine(g[p \ {Max(p)}], lines[Max(p)])
  BY <1>1, <1>7, <1>9 DEF TakesAll
<1>11. g[{}] = base  BY <1>10
<1>12. Folds(g, Translated, F, lines, base)
  <2>1. \A p \in SUBSET (1..n) : p # {} /\ g[p \ {Max(p)}] \in Translated =>
            g[p] = F[<<g[p \ {Max(p)}], lines[Max(p)]>>]
    BY <1>4, <1>5, <1>10
  <2> QED  BY <1>1, <1>11, <2>1 DEF Folds
<1>13. PICK t : Results(t, Translated, F, lines, base, g)
  BY <1>4, <1>12, FoldRuns
<1>14. \A i \in 1..n : t[i] = TakeLine(t[i - 1], lines[i])
  <2> TAKE i \in 1..n
  <2>1. i - 1 \in 0..n  OBVIOUS
  <2>2. t[i - 1] \in Translated /\ lines[i] \in Lines  BY <1>1, <1>13, <2>1 DEF Results
  <2> QED  BY <1>1, <1>4, <1>13, <2>2 DEF Results
<1> QED  BY <1>1, <1>2, <1>8, <1>9, <1>13, <1>14 DEF Results

-----------------------------------------------------------------------------
(* Types: the files, the tail thread, the feeds and the HTTP server          *)

\* The complete lines are lines, and at most one has only begun.
Files ==
    /\ mode \in {"bridge", "watch", "replay"} /\ mode \in Modes
    /\ log \in Seq(Lines)
    /\ half = <<>> \/ \E line \in Lines : half = <<line>>
    /\ writer \in Places

\* The lines of the log up to h that are no junk.
Sound(h) == {i \in 1..h : log[i] # Junk}

\* The watch has gone as far as the line h, which a poll that reads behind it
\* again passes: _watch_seen is how many lines it has taken, and never beyond h.
WatchAt ==
    \E h \in 0..Len(log) :
        /\ ToSet(taken) = Sound(h)
        /\ cursor = Len(taken) /\ cursor <= h
        /\ batch = <<>> \/ /\ \A i \in 1..Len(batch) : batch[i] = batch[1] + i - 1
                           /\ cursor < batch[1] /\ batch[1] <= h + 1
                           /\ h <= batch[1] + Len(batch) - 1
                           /\ batch[1] + Len(batch) - 1 <= Len(log)

\* The bridge takes every line in its turn, whole or torn.
BridgeAt == Len(taken) = cursor /\ \A i \in 1..Len(taken) : taken[i] \in {0, i}

Tails ==
    /\ bitten \in BOOLEAN
    /\ taken \in Seq(Nat) /\ batch \in Seq(Nat)
    /\ \A i \in 1..Len(taken) : taken[i] <= Len(log)
    /\ IF mode = "watch" THEN WatchAt ELSE batch = <<>> /\ cursor \in 0..Len(log)
    /\ mode = "bridge" => BridgeAt

Feeds ==
    /\ rs \in RunStates
    /\ out \in Seq(Envelopes) /\ sent \in Seq(Envelopes) /\ cached \in Seq(Envelopes)
    /\ loaded \in 0..Len(log)

\* The server is busy with the stream that is attached, or gone and not noticed.
Service ==
    /\ served \in Streams \cup {NoStream}
    /\ subs \subseteq {served} \ {NoStream}
    /\ stage \in [Streams -> {"away", "waiting", "attached", "gone"}]
    /\ \A c \in Streams : stage[c] \in {"attached", "gone"} <=> served = c
    /\ queue \in [Streams -> Seq(Envelopes)]
    /\ got \in [Streams -> Seq(Envelopes)]
    /\ visits \in 0..MaxVisits

Typed == Files /\ Tails /\ Feeds /\ Service

-----------------------------------------------------------------------------
LEMMA Grown ==
    ASSUME NEW S, NEW s \in Seq(S), NEW e \in S
    PROVE  /\ Append(s, e) \in Seq(S)
           /\ Len(Append(s, e)) = Len(s) + 1
           /\ Len(s) \in Nat
           /\ \A i \in 1..Len(s) : Append(s, e)[i] = s[i]
           /\ Append(s, e)[Len(s) + 1] = e
OBVIOUS

LEMMA JunkIsLine == Junk \in Lines
BY DEF Junk, RunLine, Lines

LEMMA RestIsLine == \A i : RestOf(i) \in Lines
BY DEF RestOf, Junk, RunLine, Lines, RunEvents

\* The log keeps its lines.
LogKept == /\ Len(log) \in Nat /\ Len(log') \in Nat /\ Len(log) <= Len(log')
           /\ \A i \in 1..Len(log) : log'[i] = log[i]

LEMMA FilesTyped == Files /\ [Next]_vars => Files' /\ LogKept /\ mode' = mode
<1> SUFFICES ASSUME Files, [Next]_vars
             PROVE  Files' /\ LogKept /\ mode' = mode
  OBVIOUS
<1> USE DEF logVars, tailVars, pageVars
<1>1. ASSUME NEW line \in Lines, Write(line)
      PROVE  Files' /\ LogKept /\ mode' = mode
  <2>1. writer' \in Places /\ mode' = mode  BY <1>1 DEF Write
  <2>2. CASE log' = log /\ half' = <<line>>
    BY <1>1, <2>1, <2>2 DEF Files, LogKept
  <2>3. CASE half' = <<>> /\ \E l \in {line, Junk} : log' = Append(log, l)
    <3>1. PICK l \in Lines : log' = Append(log, l)  BY <2>3, JunkIsLine
    <3>2. log' \in Seq(Lines) /\ LogKept  BY <3>1, Grown DEF Files, LogKept
    <3> QED  BY <2>1, <2>3, <3>2 DEF Files
  <2> QED  BY <1>1, <2>2, <2>3 DEF Write
<1>2. CASE WriteRest
  <2>1. PICK line \in Lines : half = <<line>>  BY <1>2 DEF Files, WriteRest
  <2>2. log' = Append(log, line) /\ half' = <<>> /\ mode' = mode /\ writer' = writer
    <3>1. log' = log \o half /\ half' = <<>> /\ mode' = mode /\ writer' = writer
      BY <1>2 DEF WriteRest
    <3> QED  BY <2>1, <3>1 DEF Files
  <2>3. log' \in Seq(Lines) /\ LogKept  BY <2>2, Grown DEF Files, LogKept
  <2> QED  BY <2>2, <2>3 DEF Files
<1>3. CASE Kill
  <2>1. /\ mode' = mode /\ log' = log /\ writer' = "off"
        /\ half' = <<>> \/ half' = <<Junk>>
    BY <1>3 DEF Kill, Orphan
  <2>2. Files'  BY <2>1, JunkIsLine DEF Files, Places
  <2> QED  BY <2>1, <2>2 DEF Files, LogKept
<1>4. CASE mode' = mode /\ log' = log /\ half' = half /\ writer' = writer
  BY <1>4 DEF Files, LogKept
<1>5. CASE Tailing
  BY <1>4, <1>5 DEF Tailing, TailLine, TailHalf, WatchPoll, WatchLine, Broadcast
<1>6. CASE LoadRun  BY <1>4, <1>6 DEF LoadRun
<1>7. ASSUME NEW c \in Streams, Serving(c) \/ Open(c) \/ Leave(c)
      PROVE  Files' /\ LogKept /\ mode' = mode
  BY <1>4, <1>7 DEF Serving, Accept, Deliver, EndReplay, Notice, Release, Open, Leave
<1>8. CASE UNCHANGED vars  BY <1>4, <1>8 DEF vars
<1> QED  BY <1>1, <1>2, <1>3, <1>5, <1>6, <1>7, <1>8 DEF Next

-----------------------------------------------------------------------------
(* The tail thread                                                         *)

LEMMA TakenGrows ==
    ASSUME NEW s \in Seq(Nat), NEW n \in Nat
    PROVE  ToSet(Append(s, n)) = ToSet(s) \cup {n}
<1>1. /\ DOMAIN s = 1..Len(s) /\ DOMAIN Append(s, n) = 1..(Len(s) + 1) /\ Len(s) \in Nat
      /\ \A i \in 1..Len(s) : Append(s, n)[i] = s[i]
      /\ Append(s, n)[Len(s) + 1] = n
  OBVIOUS
<1>2. 1..(Len(s) + 1) = (1..Len(s)) \cup {Len(s) + 1}  BY <1>1
<1> QED  BY <1>1, <1>2 DEF ToSet

LEMMA BoundKept ==
    ASSUME NEW s \in Seq(Nat), NEW m, NEW n \in Nat, n <= m, \A i \in 1..Len(s) : s[i] <= m
    PROVE  \A i \in 1..Len(Append(s, n)) : Append(s, n)[i] <= m
<1> TAKE i \in 1..Len(Append(s, n))
<1>1. CASE i = Len(s) + 1  BY <1>1
<1>2. CASE i # Len(s) + 1
  <2>1. i \in 1..Len(s)  BY <1>2
  <2>2. Append(s, n)[i] = s[i]  BY <2>1
  <2> QED  BY <2>1, <2>2
<1> QED  BY <1>1, <1>2

LEMMA SoundKept ==
    ASSUME LogKept, NEW h \in 0..Len(log)
    PROVE  Sound(h)' = Sound(h)
BY DEF LogKept, Sound

\* Where the watch is does not depend on what is written later.
LEMMA WatchUndisturbed ==
    ASSUME WatchAt, LogKept, batch \in Seq(Nat), UNCHANGED <<cursor, batch, taken>>
    PROVE  WatchAt'
<1>1. PICK h \in 0..Len(log) :
        /\ ToSet(taken) = Sound(h)
        /\ cursor = Len(taken) /\ cursor <= h
        /\ batch = <<>> \/ /\ \A i \in 1..Len(batch) : batch[i] = batch[1] + i - 1
                           /\ cursor < batch[1] /\ batch[1] <= h + 1
                           /\ h <= batch[1] + Len(batch) - 1
                           /\ batch[1] + Len(batch) - 1 <= Len(log)
  BY DEF WatchAt
<1>2. h \in 0..Len(log')  BY DEF LogKept
<1>3. PICK k : k = h /\ ToSet(taken') = {i \in 1..k : log'[i] # Junk}
  BY <1>1, SoundKept DEF Sound
<1>4. batch' # <<>> => batch'[1] + Len(batch') - 1 <= Len(log')
  <2> SUFFICES ASSUME batch' # <<>>
               PROVE  batch'[1] + Len(batch') - 1 <= Len(log')
    OBVIOUS
  <2>1. batch[1] \in Nat /\ Len(batch) \in Nat  OBVIOUS
  <2>2. batch[1] + Len(batch) - 1 <= Len(log)  BY <1>1
  <2> QED  BY <2>1, <2>2 DEF LogKept
<1> QED  BY <1>1, <1>2, <1>3, <1>4 DEF WatchAt, Sound

LEMMA PollTyped == Files /\ Tails /\ WatchPoll => Tails'
<1> SUFFICES ASSUME Files, Tails, WatchPoll
             PROVE  Tails'
  OBVIOUS
<1>1. /\ mode = "watch" /\ batch = <<>> /\ cursor < Len(log)
      /\ batch' = [i \in 1..(Len(log) - cursor) |-> cursor + i]
      /\ UNCHANGED <<mode, log, cursor, bitten, taken>>
  BY DEF WatchPoll, logVars
<1>2. PICK h \in 0..Len(log) : ToSet(taken) = Sound(h) /\ cursor = Len(taken) /\ cursor <= h
  BY <1>1 DEF Tails, WatchAt
<1>3. PICK n \in Nat : n = Len(log)  BY DEF Files
<1>4. cursor \in 0..n  BY <1>2, <1>3 DEF Tails
<1>5. /\ batch' \in Seq(Nat) /\ Len(batch') = n - cursor
      /\ \A i \in 1..(n - cursor) : batch'[i] = cursor + i
  BY <1>1, <1>3, <1>4
<1>6. batch'[1] = cursor + 1  BY <1>1, <1>3, <1>4, <1>5
<1>7. \A i \in 1..Len(batch') : batch'[i] = batch'[1] + i - 1
  <2> TAKE i \in 1..Len(batch')
  <2>1. i \in 1..(n - cursor)  BY <1>5
  <2> QED  BY <1>4, <1>5, <1>6, <2>1
<1>8. PICK k : k = h  OBVIOUS
<1>9. /\ k \in 0..Len(log') /\ ToSet(taken') = {i \in 1..k : log'[i] # Junk}
      /\ cursor' = Len(taken') /\ cursor' <= k
  BY <1>1, <1>2, <1>8 DEF Sound
<1>10. /\ cursor' < batch'[1] /\ batch'[1] <= k + 1
       /\ k <= batch'[1] + Len(batch') - 1
       /\ batch'[1] + Len(batch') - 1 <= Len(log')
  BY <1>1, <1>2, <1>3, <1>4, <1>5, <1>6, <1>8
<1>11. WatchAt'  BY <1>7, <1>9, <1>10 DEF WatchAt, Sound
<1> QED  BY <1>1, <1>5, <1>11 DEF Tails

\* The line p of a poll is handled: the watch has gone as far as p, or farther.
LEMMA LineTyped == Files /\ Tails /\ WatchLine => Tails'
<1> SUFFICES ASSUME Files, Tails, WatchLine
             PROVE  Tails'
  OBVIOUS
<1>1. /\ mode = "watch" /\ batch # <<>> /\ batch' = Tail(batch)
      /\ UNCHANGED <<mode, log, bitten>>
      /\ IF log[Head(batch)] = Junk
         THEN UNCHANGED <<cursor, taken>>
         ELSE cursor' = cursor + 1 /\ taken' = Append(taken, Head(batch))
  BY DEF WatchLine, logVars, Tails
<1>2. PICK h \in 0..Len(log) :
        /\ ToSet(taken) = Sound(h)
        /\ cursor = Len(taken) /\ cursor <= h
        /\ \A i \in 1..Len(batch) : batch[i] = batch[1] + i - 1
        /\ cursor < batch[1] /\ batch[1] <= h + 1
        /\ h <= batch[1] + Len(batch) - 1
        /\ batch[1] + Len(batch) - 1 <= Len(log)
  BY <1>1 DEF Tails, WatchAt
<1>3. PICK p \in Nat : p = batch[1] /\ p = Head(batch)  BY <1>1 DEF Tails
<1>4. PICK k \in Nat : k = Len(batch) /\ k > 0  BY <1>1 DEF Tails
<1>5. PICK n \in Nat : n = Len(log)  BY DEF Files
<1>6. /\ batch' \in Seq(Nat) /\ Len(batch') = k - 1
      /\ \A i \in 1..(k - 1) : batch'[i] = batch[i + 1]
  BY <1>1, <1>4, HeadTailProperties DEF Tails
<1>7. h \in 0..n /\ cursor \in Nat /\ cursor < p /\ p <= h + 1 /\ h <= p + k - 1 /\ p + k - 1 <= n
  BY <1>2, <1>3, <1>4, <1>5 DEF Tails
<1>8. PICK far \in Nat : far = IF p = h + 1 THEN p ELSE h  BY <1>7
<1>9. far \in 0..n /\ p \in 1..far /\ h <= far /\ far <= p + k - 1
  BY <1>4, <1>7, <1>8
<1>10. Sound(far) = Sound(h) \cup (IF log[p] = Junk THEN {} ELSE {p})
  <2>1. CASE p = h + 1
    <3>1. 1..far = (1..h) \cup {p}  BY <1>7, <1>8, <2>1
    <3> QED  BY <3>1 DEF Sound
  <2>2. CASE p # h + 1
    <3>1. far = h /\ p \in 1..h  BY <1>7, <1>8, <2>2
    <3> QED  BY <3>1 DEF Sound
  <2> QED  BY <2>1, <2>2
<1>11. /\ taken' \in Seq(Nat) /\ ToSet(taken') = Sound(far)
       /\ cursor' = Len(taken') /\ cursor' <= cursor + 1 /\ cursor' \in Nat
       /\ \A i \in 1..Len(taken') : taken'[i] <= n
  <2>0. taken \in Seq(Nat) /\ \A i \in 1..Len(taken) : taken[i] <= n  BY <1>5 DEF Tails
  <2>1. CASE log[p] = Junk
    <3>1. cursor' = cursor /\ taken' = taken  BY <1>1, <1>3, <2>1
    <3> QED  BY <1>2, <1>7, <1>10, <2>0, <2>1, <3>1
  <2>2. CASE log[p] # Junk
    <3>1. cursor' = cursor + 1 /\ taken' = Append(taken, p)  BY <1>1, <1>3, <2>2
    <3>2. ToSet(taken') = Sound(far)  BY <1>2, <1>10, <2>0, <2>2, <3>1, TakenGrows
    <3>3. /\ taken' \in Seq(Nat) /\ Len(taken') = Len(taken) + 1
          /\ \A i \in 1..Len(taken) : taken'[i] = taken[i]
          /\ taken'[Len(taken) + 1] = p
      BY <2>0, <3>1, Grown
    <3>4. p <= n /\ Len(taken) \in Nat  BY <1>9, <2>0
    <3>5. \A i \in 1..Len(taken') : taken'[i] <= n  BY <2>0, <3>1, <3>4, BoundKept
    <3> QED  BY <1>2, <1>7, <3>1, <3>2, <3>3, <3>5
  <2> QED  BY <2>1, <2>2
<1>12. batch' = <<>> \/ /\ \A i \in 1..Len(batch') : batch'[i] = batch'[1] + i - 1
                        /\ cursor' < batch'[1] /\ batch'[1] <= far + 1
                        /\ far <= batch'[1] + Len(batch') - 1
                        /\ batch'[1] + Len(batch') - 1 <= n
  <2>1. CASE k = 1  BY <1>6, <2>1
  <2>2. CASE k # 1
    <3>1. \A i \in 1..(k - 1) : batch'[i] = p + i
      <4> TAKE i \in 1..(k - 1)
      <4>1. i + 1 \in 1..k  BY <1>4
      <4>2. batch[i + 1] = p + (i + 1) - 1  BY <1>2, <1>3, <1>4, <4>1
      <4> QED  BY <1>6, <4>2
    <3>2. 1 \in 1..(k - 1)  BY <1>4, <2>2
    <3>3. batch'[1] = p + 1  BY <3>1, <3>2
    <3>4. \A i \in 1..Len(batch') : batch'[i] = batch'[1] + i - 1
      BY <1>6, <3>1, <3>3
    <3>5. cursor' < p + 1 /\ p + 1 <= far + 1 /\ far <= p + 1 + (k - 1) - 1
          /\ p + 1 + (k - 1) - 1 <= n
      BY <1>4, <1>7, <1>9, <1>11
    <3> QED  BY <1>6, <3>3, <3>4, <3>5
  <2> QED  BY <2>1, <2>2
<1>13. cursor' <= far  BY <1>7, <1>9, <1>11
<1>14. PICK m : m = far  OBVIOUS
<1>15. /\ m \in 0..Len(log') /\ ToSet(taken') = {i \in 1..m : log'[i] # Junk}
       /\ cursor' <= m /\ n = Len(log')
  BY <1>1, <1>5, <1>9, <1>11, <1>13, <1>14 DEF Sound
<1>16. WatchAt'  BY <1>11, <1>12, <1>14, <1>15 DEF WatchAt, Sound
<1> QED  BY <1>1, <1>6, <1>11, <1>15, <1>16 DEF Tails

LEMMA TailsTyped == Files /\ Tails /\ [Next]_vars => Tails'
<1> SUFFICES ASSUME Files, Tails, [Next]_vars
             PROVE  Tails'
  OBVIOUS
<1>1. LogKept /\ mode' = mode  BY FilesTyped
<1> USE DEF logVars, tailVars, pageVars
<1>2. CASE bitten' \in BOOLEAN /\ cursor' = cursor /\ batch' = batch /\ taken' = taken
  <2>1. \A i \in 1..Len(taken') : taken'[i] <= Len(log')  BY <1>1, <1>2 DEF Tails, LogKept
  <2>2. mode = "watch" => WatchAt'  BY <1>1, <1>2, WatchUndisturbed DEF Tails
  <2>3. mode # "watch" => batch' = <<>> /\ cursor' \in 0..Len(log')
    BY <1>1, <1>2 DEF Tails, LogKept
  <2>4. mode = "bridge" => BridgeAt'  BY <1>2 DEF Tails, BridgeAt
  <2> QED  BY <1>1, <1>2, <2>1, <2>2, <2>3, <2>4 DEF Tails
<1>3. CASE TailLine
  <2>1. /\ mode # "watch" /\ cursor < Len(log) /\ log' = log
        /\ taken' = Append(taken, IF bitten THEN 0 ELSE cursor + 1)
        /\ cursor' = cursor + 1 /\ bitten' = FALSE /\ batch' = batch
    BY <1>3 DEF TailLine
  <2>2. Len(log) \in Nat /\ cursor \in 0..Len(log) /\ batch = <<>>  BY <2>1 DEF Files, Tails
  <2>3. PICK n \in Nat : n = (IF bitten THEN 0 ELSE cursor + 1)  BY <2>2
  <2>4. n <= Len(log)  BY <2>1, <2>2, <2>3
  <2>5. /\ taken' \in Seq(Nat) /\ Len(taken') = Len(taken) + 1 /\ Len(taken) \in Nat
        /\ \A i \in 1..Len(taken) : taken'[i] = taken[i]
        /\ taken'[Len(taken) + 1] = n
    BY <2>1, <2>3, Grown DEF Tails
  <2>6. \A i \in 1..Len(taken') : taken'[i] <= Len(log)
    BY <2>1, <2>3, <2>4, BoundKept DEF Tails
  <2>7. cursor' \in 0..Len(log)  BY <2>1, <2>2
  <2>8. mode = "bridge" => BridgeAt'
    <3> SUFFICES ASSUME BridgeAt
                 PROVE  BridgeAt'
      BY DEF Tails
    <3>1. Len(taken') = cursor' /\ n \in {0, Len(taken) + 1}  BY <2>1, <2>3, <2>5 DEF BridgeAt
    <3>2. ASSUME NEW i \in 1..Len(taken')
          PROVE  taken'[i] \in {0, i}
      <4>1. i \in 1..Len(taken) \/ i = Len(taken) + 1  BY <2>5
      <4> QED  BY <2>5, <3>1, <4>1 DEF BridgeAt
    <3> QED  BY <3>1, <3>2 DEF BridgeAt
  <2> QED  BY <1>1, <2>1, <2>2, <2>5, <2>6, <2>7, <2>8 DEF Tails
<1>4. CASE WatchPoll  BY <1>4, PollTyped
<1>5. CASE WatchLine  BY <1>5, LineTyped
<1>6. CASE TailHalf  BY <1>2, <1>6 DEF TailHalf
<1>7. bitten \in BOOLEAN  BY DEF Tails
<1>8. CASE Broadcast  BY <1>2, <1>7, <1>8 DEF Broadcast
<1>9. ASSUME NEW line \in Lines, Write(line)
      PROVE  Tails'
  BY <1>2, <1>7, <1>9 DEF Write
<1>10. CASE WriteRest \/ Kill  BY <1>2, <1>7, <1>10 DEF WriteRest, Kill
<1>11. CASE LoadRun  BY <1>2, <1>7, <1>11 DEF LoadRun
<1>12. ASSUME NEW c \in Streams, Serving(c) \/ Open(c) \/ Leave(c)
       PROVE  Tails'
  BY <1>2, <1>7, <1>12 DEF Serving, Accept, Deliver, EndReplay, Notice, Release, Open, Leave
<1>13. CASE UNCHANGED vars  BY <1>2, <1>7, <1>13 DEF vars
<1> QED  BY <1>3, <1>4, <1>5, <1>6, <1>8, <1>9, <1>10, <1>11, <1>12, <1>13 DEF Next, Tailing

LEMMA OpenedTyped ==
    ASSUME NEW rs0 \in RunStates
    PROVE  Opened(rs0) \in Translated
<1>1. <<Snapshot>> \in Seq(Envelopes)  BY SnapshotsTyped
<1>2. Emit(rs0, <<Snapshot>>, 0) \in Translated  BY <1>1, EnvsStamped
<1>3. Emit(rs0, <<Snapshot>>, 0).out = Stamped(<<Snapshot>>, rs0.seq)
  BY DEF Emit, RunStates
<1>4. Stamped(<<Snapshot>>, rs0.seq) \in Seq(Envelopes)  BY <1>2, <1>3 DEF Translated
<1>5. [rs0 EXCEPT !.seq = @ + 1, !.snapshotSent = TRUE] \in RunStates
  <2>1. rs0.seq + 1 \in Nat  BY DEF RunStates
  <2> QED  BY <2>1 DEF RunStates
<1>6. PICK o : o = Stamped(<<Snapshot>>, rs0.seq)  OBVIOUS
<1>7. PICK r : r = [rs0 EXCEPT !.seq = @ + 1, !.snapshotSent = TRUE]  OBVIOUS
<1>8. Opened(rs0) = [out |-> o, rs |-> r]  BY <1>6, <1>7 DEF Opened
<1> QED  BY <1>4, <1>5, <1>6, <1>7, <1>8 DEF Translated

LEMMA NewRunTyped ==
    ASSUME NEW seq \in Nat
    PROVE  [NewRunState EXCEPT !.seq = seq] \in RunStates
BY DEF NewRunState, RunStates

LEMMA RunConverted ==
    ASSUME NEW lines \in Seq(Lines), NEW seq \in Nat
    PROVE  ConvertRun(lines, seq).out \in Seq(Envelopes) /\ ConvertRun(lines, seq).seq \in Nat
<1>1. PICK first \in Translated : first = Opened([NewRunState EXCEPT !.seq = seq])
  BY NewRunTyped, OpenedTyped
<1>2. first.out \in Seq(Envelopes) /\ first.rs \in RunStates  BY DEF Translated
<1>3. PICK rest \in Translated : rest = TranslateAll(lines, first.rs)
  <2>1. PICK r \in RunStates : r = first.rs  BY <1>2
  <2>2. PICK t \in [0..Len(lines) -> Translated] :
            /\ t[0] = [out |-> <<>>, rs |-> r]
            /\ \A i \in 1..Len(lines) : t[i] = TakeLine(t[i - 1], lines[i])
            /\ TranslateAll(lines, r) = t[Len(lines)]
    BY TranslatedInOrder
  <2>3. Len(lines) \in 0..Len(lines)  OBVIOUS
  <2> QED  BY <2>1, <2>2, <2>3
<1>4. rest.out \in Seq(Envelopes) /\ rest.rs \in RunStates  BY DEF Translated
<1>5. first.out \o rest.out \in Seq(Envelopes) /\ rest.rs.seq \in Nat
  BY <1>2, <1>4 DEF RunStates
<1>6. ConvertRun(lines, seq) = [out |-> first.out \o rest.out, seq |-> rest.rs.seq]
  BY <1>1, <1>3 DEF ConvertRun
<1> QED  BY <1>5, <1>6

LEMMA FeedsTyped == Files /\ Tails /\ Feeds /\ [Next]_vars => Feeds'
<1> SUFFICES ASSUME Files, Tails, Feeds, [Next]_vars
             PROVE  Feeds'
  OBVIOUS
<1>1. LogKept /\ mode' = mode  BY FilesTyped
<1> USE DEF logVars, tailVars, pageVars
<1>2. loaded \in 0..Len(log')  BY <1>1 DEF Feeds, LogKept
<1>3. CASE rs' = rs /\ out' = out /\ sent' = sent /\ cached' = cached /\ loaded' = loaded
  BY <1>2, <1>3 DEF Feeds
<1>4. ASSUME NEW line \in Lines, Handle(line), sent' = sent, cached' = cached, loaded' = loaded
      PROVE  Feeds'
  <2>1. Translate(line, rs) \in Translated  BY LineTranslated DEF Feeds
  <2>2. out' = Translate(line, rs).out /\ rs' = Translate(line, rs).rs  BY <1>4 DEF Handle
  <2>3. out' \in Seq(Envelopes) /\ rs' \in RunStates  BY <2>1, <2>2 DEF Translated
  <2> QED  BY <1>2, <1>4, <2>3 DEF Feeds
<1>5. CASE TailLine
  <2>1. /\ Handle(IF bitten THEN RestOf(cursor + 1) ELSE log[cursor + 1])
        /\ sent' = sent /\ cached' = cached /\ loaded' = loaded
    BY <1>5 DEF TailLine
  <2>2. cursor + 1 \in 1..Len(log)  BY <1>5 DEF TailLine, Files, Tails
  <2>3. (IF bitten THEN RestOf(cursor + 1) ELSE log[cursor + 1]) \in Lines
    BY <2>2, RestIsLine DEF Files
  <2> QED  BY <1>4, <2>1, <2>3
<1>6. CASE WatchLine
  <2>1. /\ Handle(log[Head(batch)]) /\ batch # <<>>
        /\ sent' = sent /\ cached' = cached /\ loaded' = loaded
    BY <1>6 DEF WatchLine
  <2>2. WatchAt /\ batch \in Seq(Nat)  BY <2>1 DEF Tails
  <2>3. PICK h \in 0..Len(log) : /\ cursor = Len(taken) /\ cursor < batch[1]
                                 /\ batch[1] <= h + 1 /\ h <= batch[1] + Len(batch) - 1
                                 /\ batch[1] + Len(batch) - 1 <= Len(log)
    BY <2>1, <2>2 DEF WatchAt
  <2>4. /\ Head(batch) = batch[1] /\ batch[1] \in Nat
        /\ Len(batch) \in Nat /\ Len(batch) > 0 /\ Len(log) \in Nat
    BY <2>1, <2>2 DEF Files
  <2>5. Len(taken) \in Nat  BY DEF Tails
  <2>6. Head(batch) \in 1..Len(log)  BY <2>3, <2>4, <2>5
  <2>7. log[Head(batch)] \in Lines  BY <2>6 DEF Files
  <2> QED  BY <1>4, <2>1, <2>7
<1>7. CASE Broadcast
  <2>1. /\ out # <<>> /\ sent' = Append(sent, Head(out)) /\ out' = Tail(out)
        /\ rs' = rs /\ cached' = cached /\ loaded' = loaded
    BY <1>7 DEF Broadcast
  <2>2. Head(out) \in Envelopes /\ out' \in Seq(Envelopes)  BY <2>1 DEF Feeds
  <2>3. sent' \in Seq(Envelopes)  BY <2>1, <2>2 DEF Feeds
  <2> QED  BY <1>2, <2>1, <2>2, <2>3 DEF Feeds
<1>8. CASE LoadRun
  <2>1. /\ cached' = ConvertRun(log, rs.seq).out
        /\ rs' = [rs EXCEPT !.seq = ConvertRun(log, rs.seq).seq]
        /\ loaded' = Len(log) /\ log' = log /\ out' = out /\ sent' = sent
    BY <1>8 DEF LoadRun
  <2>2. log \in Seq(Lines) /\ rs.seq \in Nat  BY DEF Files, Feeds, RunStates
  <2>3. PICK n \in Nat : n = ConvertRun(log, rs.seq).seq  BY <2>2, RunConverted
  <2>4. rs' \in RunStates  BY <2>1, <2>3 DEF Feeds, RunStates
  <2>5. cached' \in Seq(Envelopes)  BY <2>1, <2>2, RunConverted
  <2>6. loaded' \in 0..Len(log')  BY <2>1, <2>2
  <2> QED  BY <2>1, <2>4, <2>5, <2>6 DEF Feeds
<1>9. CASE WatchPoll \/ TailHalf  BY <1>3, <1>9 DEF WatchPoll, TailHalf
<1>10. ASSUME NEW line \in Lines, Write(line)
       PROVE  Feeds'
  BY <1>3, <1>10 DEF Write
<1>11. CASE WriteRest \/ Kill  BY <1>3, <1>11 DEF WriteRest, Kill
<1>12. ASSUME NEW c \in Streams, Serving(c) \/ Open(c) \/ Leave(c)
       PROVE  Feeds'
  BY <1>3, <1>12 DEF Serving, Accept, Deliver, EndReplay, Notice, Release, Open, Leave
<1>13. CASE UNCHANGED vars  BY <1>3, <1>13 DEF vars
<1> QED  BY <1>5, <1>6, <1>7, <1>8, <1>9, <1>10, <1>11, <1>12, <1>13 DEF Next, Tailing

-----------------------------------------------------------------------------
(* The HTTP server                                                         *)

LEMMA AcceptTyped ==
    ASSUME Feeds, Service, mode \in {"bridge", "watch", "replay"}, NEW c \in Streams, Accept(c)
    PROVE  Service'
<1> USE OpsConsoleAssumption
<1>1. /\ served = NoStream /\ served' = c /\ stage' = [stage EXCEPT ![c] = "attached"]
      /\ subs' = subs \/ subs' = subs \cup {c}
      /\ got' = got /\ visits' = visits
  BY DEF Accept
<1>2. PICK q : q = CASE mode = "bridge" -> History
                     [] mode = "watch" -> <<>>
                     [] mode = "replay" -> cached
  OBVIOUS
<1>3. queue' = [queue EXCEPT ![c] = q]  BY <1>2 DEF Accept
<1>4. q \in Seq(Envelopes)
  <2>1. CASE mode = "bridge"
    <3>1. PICK m \in 1..(Len(sent) + 1) :
              m = IF Len(sent) > HistoryCap THEN Len(sent) - HistoryCap + 1 ELSE 1
      <4>1. Len(sent) \in Nat /\ HistoryCap \in Nat /\ HistoryCap > 0  BY DEF Feeds
      <4>2. CASE Len(sent) > HistoryCap
        <5>1. Len(sent) - HistoryCap + 1 \in 1..(Len(sent) + 1)  BY <4>1, <4>2
        <5> QED  BY <4>2, <5>1
      <4>3. CASE ~(Len(sent) > HistoryCap)
        <5>1. 1 \in 1..(Len(sent) + 1)  BY <4>1
        <5> QED  BY <4>3, <5>1
      <4> QED  BY <4>2, <4>3
    <3>2. \A i \in m..Len(sent) : sent[i] \in Envelopes  BY DEF Feeds
    <3>3. SubSeq(sent, m, Len(sent)) \in Seq(Envelopes)
      BY <3>2, SubSeqProperties DEF Feeds
    <3> QED  BY <1>2, <2>1, <3>1, <3>3 DEF History
  <2>2. CASE mode = "watch"  BY <1>2, <2>2
  <2>3. CASE mode = "replay"  BY <1>2, <2>3 DEF Feeds
  <2> QED  BY <2>1, <2>2, <2>3
<1>5. queue' \in [Streams -> Seq(Envelopes)]  BY <1>3, <1>4 DEF Service
<1>6. stage' \in [Streams -> {"away", "waiting", "attached", "gone"}]  BY <1>1 DEF Service
<1>7. \A d \in Streams : stage'[d] \in {"attached", "gone"} <=> served' = d
  BY <1>1 DEF Service
<1>8. subs' \subseteq {served'} \ {NoStream}  BY <1>1 DEF Service
<1> QED  BY <1>1, <1>5, <1>6, <1>7, <1>8 DEF Service

LEMMA ReleaseTyped ==
    ASSUME Service, NEW c \in Streams, stage[c] \in {"attached", "gone"}, Release(c, "away")
    PROVE  Service'
<1> USE OpsConsoleAssumption
<1>1. /\ served' = NoStream /\ subs' = subs \ {c} /\ visits' = visits
      /\ queue' = [queue EXCEPT ![c] = <<>>] /\ got' = [got EXCEPT ![c] = <<>>]
      /\ stage' = [stage EXCEPT ![c] = "away"]
  BY DEF Release
<1>2. served = c  BY DEF Service
<1>3. <<>> \in Seq(Envelopes)  OBVIOUS
<1>4. queue' \in [Streams -> Seq(Envelopes)]  BY <1>1, <1>3 DEF Service
<1>5. got' \in [Streams -> Seq(Envelopes)]  BY <1>1, <1>3 DEF Service
<1>6. stage' \in [Streams -> {"away", "waiting", "attached", "gone"}]  BY <1>1 DEF Service
<1>7. \A d \in Streams : stage'[d] \in {"attached", "gone"} <=> served' = d
  BY <1>1, <1>2 DEF Service
<1>8. subs' \subseteq {served'} \ {NoStream}  BY <1>1, <1>2 DEF Service
<1> QED  BY <1>1, <1>4, <1>5, <1>6, <1>7, <1>8 DEF Service

LEMMA ServiceTyped == Files /\ Feeds /\ Service /\ [Next]_vars => Service'
<1> SUFFICES ASSUME Files, Feeds, Service, [Next]_vars
             PROVE  Service'
  OBVIOUS
<1> USE DEF logVars, tailVars, pageVars
<1>1. CASE UNCHANGED <<served, subs, stage, queue, got, visits>>
  BY <1>1 DEF Service
<1>2. CASE Broadcast
  <2>1. /\ out # <<>> /\ served' = served /\ stage' = stage /\ visits' = visits
    BY <1>2 DEF Broadcast
  <2>2. PICK e \in Envelopes : e = Head(out)  BY <2>1 DEF Feeds
  <2>3. subs' \subseteq subs  BY <1>2 DEF Broadcast
  <2>4. queue' = queue \/ queue' = [c \in Streams |->
                                       IF c \in subs THEN Append(queue[c], e) ELSE queue[c]]
    BY <1>2, <2>2 DEF Broadcast
  <2>5. got' = got \/ got' = [c \in Streams |->
                                 IF c \in subs' THEN Append(got[c], e) ELSE got[c]]
    BY <1>2, <2>2 DEF Broadcast
  <2>6. \A c \in Streams : /\ queue[c] \in Seq(Envelopes) /\ got[c] \in Seq(Envelopes)
                           /\ Append(queue[c], e) \in Seq(Envelopes)
                           /\ Append(got[c], e) \in Seq(Envelopes)
    BY DEF Service
  <2>7. queue' \in [Streams -> Seq(Envelopes)]  BY <2>4, <2>6 DEF Service
  <2>8. got' \in [Streams -> Seq(Envelopes)]  BY <2>5, <2>6 DEF Service
  <2> QED  BY <2>1, <2>3, <2>7, <2>8 DEF Service
<1>3. ASSUME NEW c \in Streams, Accept(c)
      PROVE  Service'
  BY <1>3, AcceptTyped DEF Files
<1>4. ASSUME NEW c \in Streams, Deliver(c)
      PROVE  Service'
  <2>1. /\ got' = [got EXCEPT ![c] = got[c] \o queue[c]]
        /\ queue' = [queue EXCEPT ![c] = <<>>]
        /\ UNCHANGED <<served, subs, stage, visits>>
    BY <1>4 DEF Deliver
  <2>2. got[c] \o queue[c] \in Seq(Envelopes) /\ <<>> \in Seq(Envelopes)  BY DEF Service
  <2>3. queue' \in [Streams -> Seq(Envelopes)]  BY <2>1, <2>2 DEF Service
  <2>4. got' \in [Streams -> Seq(Envelopes)]  BY <2>1, <2>2 DEF Service
  <2> QED  BY <2>1, <2>3, <2>4 DEF Service
<1>5. ASSUME NEW c \in Streams, EndReplay(c) \/ Notice(c)
      PROVE  Service'
  BY <1>5, ReleaseTyped DEF EndReplay, Notice
<1>6. ASSUME NEW c \in Streams, Open(c)
      PROVE  Service'
  <2>1. /\ stage[c] = "away" /\ visits < MaxVisits /\ visits' = visits + 1
        /\ stage' = [stage EXCEPT ![c] = "waiting"]
        /\ UNCHANGED <<served, subs, queue, got>>
    BY <1>6 DEF Open
  <2>2. stage' \in [Streams -> {"away", "waiting", "attached", "gone"}]  BY <2>1 DEF Service
  <2>3. \A d \in Streams : stage'[d] \in {"attached", "gone"} <=> served = d
    BY <2>1 DEF Service
  <2>4. visits' \in 0..MaxVisits  BY <2>1, OpsConsoleAssumption DEF Service
  <2> QED  BY <2>1, <2>2, <2>3, <2>4 DEF Service
<1>7. ASSUME NEW c \in Streams, Leave(c)
      PROVE  Service'
  <2>1. /\ stage[c] = "attached" /\ stage' = [stage EXCEPT ![c] = "gone"]
        /\ got' = [got EXCEPT ![c] = <<>>]
        /\ UNCHANGED <<served, subs, queue, visits>>
    BY <1>7 DEF Leave
  <2>2. stage' \in [Streams -> {"away", "waiting", "attached", "gone"}]  BY <2>1 DEF Service
  <2>3. \A d \in Streams : stage'[d] \in {"attached", "gone"} <=> served = d
    BY <2>1 DEF Service
  <2>4. <<>> \in Seq(Envelopes)  OBVIOUS
  <2>5. got' \in [Streams -> Seq(Envelopes)]  BY <2>1, <2>4 DEF Service
  <2> QED  BY <2>1, <2>2, <2>3, <2>5 DEF Service
<1>8. CASE TailLine \/ TailHalf \/ WatchPoll \/ WatchLine
  BY <1>1, <1>8 DEF TailLine, TailHalf, WatchPoll, WatchLine
<1>9. CASE LoadRun \/ WriteRest \/ Kill  BY <1>1, <1>9 DEF LoadRun, WriteRest, Kill
<1>10. ASSUME NEW line \in Lines, Write(line)
       PROVE  Service'
  BY <1>1, <1>10 DEF Write
<1>11. CASE UNCHANGED vars  BY <1>1, <1>11 DEF vars
<1> QED  BY <1>2, <1>3, <1>4, <1>5, <1>6, <1>7, <1>8, <1>9, <1>10, <1>11
         DEF Next, Tailing, Serving

-----------------------------------------------------------------------------
LEMMA InitTyped == Init => Typed
<1> SUFFICES ASSUME Init
             PROVE  Typed
  OBVIOUS
<1> USE OpsConsoleAssumption
<1>1. Files  BY DEF Init, Files
<1>2. taken = <<>> /\ batch = <<>> /\ cursor = 0 /\ bitten = FALSE /\ Len(log) \in Nat
  BY <1>1 DEF Init, Files
<1>3. WatchAt
  <2>1. ToSet(taken) = {} /\ Sound(0) = {}  BY <1>2 DEF ToSet, Sound
  <2>2. Len(taken) = 0 /\ 0 \in 0..Len(log) /\ cursor <= 0  BY <1>2
  <2> QED  BY <1>2, <2>1, <2>2 DEF WatchAt
<1>4. Tails
  <2>1. Len(taken) = 0 /\ <<>> \in Seq(Nat) /\ cursor \in 0..Len(log)  BY <1>2
  <2>2. (\A i \in 1..Len(taken) : taken[i] <= Len(log)) /\ BridgeAt
    <3>1. 1..0 = {}  OBVIOUS
    <3> QED  BY <1>2, <2>1, <3>1 DEF BridgeAt
  <2> QED  BY <1>2, <1>3, <2>1, <2>2 DEF Tails
<1>5. NewRunState \in RunStates  BY DEF NewRunState, RunStates
<1>6. Feeds
  <2>1. <<>> \in Seq(Envelopes) /\ sent = <<>>  BY DEF Init
  <2>2. CASE mode = "replay"
    <3>1. /\ cached = ConvertRun(log, 0).out /\ loaded = Len(log) /\ out = <<>>
          /\ rs = [NewRunState EXCEPT !.seq = ConvertRun(log, 0).seq]
      BY <2>2 DEF Init
    <3>2. log \in Seq(Lines) /\ 0 \in Nat  BY <1>1 DEF Files
    <3>3. cached \in Seq(Envelopes) /\ ConvertRun(log, 0).seq \in Nat
      BY <3>1, <3>2, RunConverted
    <3>4. rs \in RunStates  BY <3>1, <3>3, NewRunTyped
    <3> QED  BY <1>2, <2>1, <3>1, <3>3, <3>4 DEF Feeds
  <2>3. CASE mode # "replay"
    <3>1. /\ cached = <<>> /\ loaded = 0 /\ out = Opened(NewRunState).out
          /\ rs = [Opened(NewRunState).rs EXCEPT !.snapshotSent = mode = "bridge"]
      BY <2>3 DEF Init
    <3>2. Opened(NewRunState) \in Translated  BY <1>5, OpenedTyped
    <3>3. out \in Seq(Envelopes) /\ Opened(NewRunState).rs \in RunStates
      BY <3>1, <3>2 DEF Translated
    <3>4. rs \in RunStates  BY <3>1, <3>3 DEF RunStates
    <3> QED  BY <1>2, <2>1, <3>1, <3>3, <3>4 DEF Feeds
  <2> QED  BY <2>2, <2>3
<1>7. Service
  <2>1. <<>> \in Seq(Envelopes)  OBVIOUS
  <2> QED  BY <2>1 DEF Init, Service
<1> QED  BY <1>1, <1>4, <1>6, <1>7 DEF Typed

\* What each part of the server keeps, together: the inductive invariant behind the
\* two theorems below.
THEOREM TypesHold == Spec => []Typed
<1>1. Typed /\ [Next]_vars => Typed'
  BY FilesTyped, TailsTyped, FeedsTyped, ServiceTyped DEF Typed
<1> QED  BY <1>1, InitTyped, PTL DEF Spec

\* The set of the elements of a sequence.
LEMMA ElementsIn ==
    ASSUME NEW S, NEW s \in Seq(S)
    PROVE  ToSet(s) \subseteq S
BY DEF ToSet

\* Whatever the log, the streams and the servers: every variable keeps its range,
\* no place of the log that was taken or is to be taken lies beyond its end, and
\* whoever is registered is the one stream that the HTTP server is busy with.
THEOREM TypeCorrect == Spec => []TypeOK
<1>1. Typed => TypeOK
  <2> SUFFICES ASSUME Typed
               PROVE  TypeOK
    OBVIOUS
  <2>1. mode \in Modes /\ ToSet(log) \subseteq Lines
        /\ (half = <<>> \/ half[1] \in Lines) /\ writer \in Places
    BY ElementsIn DEF Typed, Files
  <2>2. cursor \in 0..Len(log) /\ bitten \in BOOLEAN
    <3>1. CASE mode = "watch"
      <4>1. PICK h \in 0..Len(log) : cursor = Len(taken) /\ cursor <= h
        BY <3>1 DEF Typed, Tails, WatchAt
      <4>2. Len(taken) \in Nat /\ Len(log) \in Nat /\ bitten \in BOOLEAN
        BY DEF Typed, Tails, Files
      <4> QED  BY <4>1, <4>2
    <3>2. CASE mode # "watch"  BY <3>2 DEF Typed, Tails
    <3> QED  BY <3>1, <3>2
  <2>3. ToSet(batch) \cup ToSet(taken) \subseteq 0..Len(log)
    <3>1. Len(log) \in Nat  BY DEF Typed, Files
    <3>2. \A i \in DOMAIN taken : taken[i] \in 0..Len(log)  BY <3>1 DEF Typed, Tails
    <3>3. \A i \in DOMAIN batch : batch[i] \in 0..Len(log)
      <4>1. CASE batch = <<>>  BY <4>1
      <4>2. CASE batch # <<>>
        <5>1. mode = "watch" /\ batch \in Seq(Nat)  BY <4>2 DEF Typed, Tails
        <5>2. PICK h \in 0..Len(log) :
                  /\ \A i \in 1..Len(batch) : batch[i] = batch[1] + i - 1
                  /\ batch[1] + Len(batch) - 1 <= Len(log)
          BY <4>2, <5>1 DEF Typed, Tails, WatchAt
        <5> TAKE i \in DOMAIN batch
        <5>3. i \in 1..Len(batch) /\ batch[1] \in Nat /\ batch[i] \in Nat  BY <5>1
        <5> QED  BY <3>1, <5>1, <5>2, <5>3
      <4> QED  BY <4>1, <4>2
    <3> QED  BY <3>2, <3>3 DEF ToSet
  <2>4. ToSet(out) \cup ToSet(sent) \cup ToSet(cached) \subseteq Envelopes
    BY ElementsIn DEF Typed, Feeds
  <2>5. \A c \in Streams : ToSet(queue[c]) \cup ToSet(got[c]) \subseteq Envelopes
    <3> TAKE c \in Streams
    <3>1. queue[c] \in Seq(Envelopes) /\ got[c] \in Seq(Envelopes)  BY DEF Typed, Service
    <3> QED  BY <3>1, ElementsIn
  <2>6. loaded \in 0..Len(log)  BY DEF Typed, Feeds
  <2>7. /\ served \in Streams \cup {NoStream} /\ subs \subseteq {served}
        /\ visits \in 0..MaxVisits
        /\ \A c \in Streams : /\ stage[c] \in {"away", "waiting", "attached", "gone"}
                              /\ stage[c] \in {"attached", "gone"} <=> served = c
    BY DEF Typed, Service
  <2> QED  BY <2>1, <2>2, <2>3, <2>4, <2>5, <2>6, <2>7 DEF TypeOK
<1> QED  BY <1>1, TypesHold, PTL

\* _watch_thread, whatever is written while it polls: once its count has reached the
\* end of the log no sound line is left out, and it has translated lines again no
\* oftener than there is junk, for a junk line keeps the count one short.
THEOREM NoLineMissed == Spec => []WatchCounts
<1>1. Typed => WatchCounts
  <2> SUFFICES ASSUME Typed, mode = "watch"
               PROVE  /\ Len(taken) - Cardinality(ToSet(taken)) <= Count(log, "junk")
                      /\ cursor >= Len(log) /\ batch = <<>> =>
                             \A i \in DOMAIN log : log[i] = Junk \/ i \in ToSet(taken)
    BY DEF WatchCounts
  <2>1. PICK h \in 0..Len(log) :
            ToSet(taken) = Sound(h) /\ cursor = Len(taken) /\ cursor <= h
    BY DEF Typed, Tails, WatchAt
  <2>2. PICK n \in Nat : n = Len(log) /\ DOMAIN log = 1..n  BY DEF Typed, Files
  <2>3. cursor \in Nat /\ h \in 0..n  BY <2>1, <2>2 DEF Typed, Tails
  <2> DEFINE J == {i \in 1..h : log[i] = Junk}
             K == {i \in DOMAIN log : log[i].event = "junk"}
  <2>4. J \subseteq K  BY <2>2, <2>3 DEF Junk, RunLine
  <2>5. Sound(h) = (1..h) \ J /\ (1..h) \cap J = J  BY DEF Sound
  <2> HIDE DEF J, K
  <2>6. IsFiniteSet(1..h) /\ Cardinality(1..h) = h  BY <2>3, FS_Interval
  <2>7. Cardinality((1..h) \ J) = Cardinality(1..h) - Cardinality((1..h) \cap J)
    BY <2>6, FS_Difference
  <2>8. Cardinality(Sound(h)) = h - Cardinality(J)  BY <2>5, <2>6, <2>7
  <2>9. IsFiniteSet(K)
    <3>1. IsFiniteSet(1..n)  BY FS_Interval
    <3>2. K \subseteq 1..n  BY <2>2 DEF K
    <3> QED  BY <3>1, <3>2, FS_Subset
  <2>10. Cardinality(J) <= Cardinality(K)  BY <2>4, <2>9, FS_Subset
  <2>11. Cardinality(J) \in Nat /\ Cardinality(K) \in Nat
    BY <2>4, <2>9, FS_Subset, FS_CardinalityType
  <2>12. Len(taken) - Cardinality(ToSet(taken)) <= Cardinality(K)
    BY <2>1, <2>3, <2>8, <2>10, <2>11
  <2>13. ASSUME cursor >= Len(log), NEW i \in DOMAIN log, log[i] # Junk
         PROVE  i \in ToSet(taken)
    <3>1. h = n  BY <2>1, <2>2, <2>3, <2>13
    <3> QED  BY <2>1, <2>2, <2>13, <3>1 DEF Sound
  <2> QED  BY <2>12, <2>13 DEF K, Count
<1> QED  BY <1>1, TypesHold, PTL

-----------------------------------------------------------------------------
(* What a console shows                                                    *)

States == {"", "busy", "idle", "drain", "dispatched", "returning", "critical", "warning",
           "docked"}
\* An envelope's number, and what Head makes of one that has none.
Numbers == Nat \cup {Head(<<>>)}
Marks == [state : States, rev : Numbers]
Models == [station : [Stations -> Marks], agent : [Stations -> Marks],
           tasks : SUBSET Numbers, metrics : Seq(Nat)]

LEMMA NumberOf ==
    ASSUME NEW env \in Envelopes
    PROVE  Head(env.num) \in Numbers
<1>1. env.num \in Seq(Nat)  BY DEF Envelopes
<1>2. CASE env.num = <<>>  BY <1>2 DEF Numbers
<1>3. CASE env.num # <<>>  BY <1>1, <1>3 DEF Numbers
<1> QED  BY <1>2, <1>3

LEMMA HydratedTyped == Hydrated \in Models
<1>1. [state |-> "idle", rev |-> 0] \in Marks /\ [state |-> "docked", rev |-> 0] \in Marks
  BY DEF Marks, States, Numbers
<1>2. <<0, 0>> \in Seq(Nat)  OBVIOUS
<1> QED  BY <1>1, <1>2 DEF Hydrated, Models

LEMMA NewerTyped ==
    ASSUME NEW old \in Marks, NEW env \in Envelopes
    PROVE  Newer(old, env) \in Marks
<1>1. Head(env.num) \in Numbers  BY NumberOf
<1>2. env.state \in States  BY DEF Envelopes, States
<1>3. [state |-> env.state, rev |-> Head(env.num)] \in Marks  BY <1>1, <1>2 DEF Marks
<1> QED  BY <1>3 DEF Newer

LEMMA RouteTyped ==
    ASSUME NEW m \in Models, NEW env \in Envelopes
    PROVE  Route(m, env) \in Models
<1> DEFINE s == CHOOSE x \in env.at : TRUE
<1>1. /\ m.station \in [Stations -> Marks] /\ m.agent \in [Stations -> Marks]
      /\ m.tasks \subseteq Numbers /\ m.metrics \in Seq(Nat)
  BY DEF Models
<1>2. PICK n \in Numbers : n = Head(env.num)  BY NumberOf
<1>3. CASE env.type = "snapshot"  BY <1>3, HydratedTyped DEF Route
<1>4. CASE env.type = "agent.updated"
  <2>1. \A x \in Stations : Newer(m.agent[x], env) \in Marks  BY <1>1, NewerTyped
  <2>2. PICK a : a = [m.agent EXCEPT ![s] = Newer(m.agent[s], env)]  OBVIOUS
  <2>3. a \in [Stations -> Marks]  BY <1>1, <2>1, <2>2
  <2>4. Route(m, env) = [m EXCEPT !.agent = a]  BY <1>4, <2>2 DEF Route
  <2> QED  BY <2>3, <2>4 DEF Models
<1>5. CASE env.type = "station.updated"
  <2>1. \A x \in Stations : Newer(m.station[x], env) \in Marks  BY <1>1, NewerTyped
  <2>2. PICK a : a = [m.station EXCEPT ![s] = Newer(m.station[s], env)]  OBVIOUS
  <2>3. a \in [Stations -> Marks]  BY <1>1, <2>1, <2>2
  <2>4. Route(m, env) = [m EXCEPT !.station = a]  BY <1>5, <2>2 DEF Route
  <2> QED  BY <2>3, <2>4 DEF Models
<1>6. CASE env.type \in {"task.enqueued", "task.assigned"}
  <2>1. Route(m, env) = [m EXCEPT !.tasks = @ \cup {n}]  BY <1>2, <1>6 DEF Route
  <2>2. m.tasks \cup {n} \in SUBSET Numbers  BY <1>1
  <2> QED  BY <2>1, <2>2 DEF Models
<1>7. CASE env.type \in {"task.completed", "task.failed"}
  <2>1. Route(m, env) = [m EXCEPT !.tasks = @ \ {n}]  BY <1>2, <1>7 DEF Route
  <2>2. m.tasks \ {n} \in SUBSET Numbers  BY <1>1
  <2> QED  BY <2>1, <2>2 DEF Models
<1>8. CASE env.type = "metrics.tick"
  <2>1. Route(m, env) = [m EXCEPT !.metrics = env.num] /\ env.num \in Seq(Nat)
    BY <1>8 DEF Route, Envelopes
  <2> QED  BY <2>1 DEF Models
<1>9. CASE env.type \in {"log.appended", "alert.raised"}  BY <1>9 DEF Route
<1> QED  BY <1>3, <1>4, <1>5, <1>6, <1>7, <1>8, <1>9 DEF Envelopes

\* The console does not look at the seq of what it routes.
LEMMA RouteBlind ==
    ASSUME NEW m, NEW env \in Envelopes, NEW n
    PROVE  Route(m, [env EXCEPT !.seq = n]) = Route(m, env)
<1>1. PICK e : e = [env EXCEPT !.seq = n]  OBVIOUS
<1>2. e.type = env.type /\ e.at = env.at /\ e.state = env.state /\ e.num = env.num
  BY <1>1 DEF Envelopes
<1>3. \A old : Newer(old, e) = Newer(old, env)  BY <1>2 DEF Newer
<1>4. Route(m, e) = Route(m, env)  BY <1>2, <1>3 DEF Route
<1> QED  BY <1>1, <1>4

\* What the envelopes of each kind do.
AgentAt(m, s, state, n) == [m EXCEPT !.agent[s] = [state |-> state, rev |-> n]]
StationAt(m, s, state, n) == [m EXCEPT !.station[s] = [state |-> state, rev |-> n]]

LEMMA RouteTask ==
    ASSUME NEW m \in Models, NEW s, NEW n \in Nat,
           NEW type \in {"task.enqueued", "task.assigned"}
    PROVE  Route(m, Env(type, {s}, "", <<n>>)) = [m EXCEPT !.tasks = @ \cup {n}]
<1>1. PICK e : e = Env(type, {s}, "", <<n>>)  BY Zenon
<1>2. e.type = type /\ e.num = <<n>>  BY <1>1, Zenon DEF Env
<1>3. PICK k : k = Head(e.num)  OBVIOUS
<1>4. k = n  BY <1>2, <1>3
<1>5. Route(m, e) = [m EXCEPT !.tasks = @ \cup {k}]
  <2>1. CASE e.type = "task.enqueued"  BY <1>3, <2>1 DEF Route
  <2>2. CASE e.type = "task.assigned"  BY <1>3, <2>2 DEF Route
  <2> QED  BY <1>2, <2>1, <2>2
<1> QED  BY <1>1, <1>4, <1>5, Zenon

LEMMA RouteTaskOver ==
    ASSUME NEW m \in Models, NEW s, NEW n \in Nat,
           NEW type \in {"task.completed", "task.failed"}
    PROVE  Route(m, Env(type, {s}, "", <<n>>)) = [m EXCEPT !.tasks = @ \ {n}]
<1>1. PICK e : e = Env(type, {s}, "", <<n>>)  BY Zenon
<1>2. e.type = type /\ e.num = <<n>>  BY <1>1, Zenon DEF Env
<1>3. PICK k : k = Head(e.num)  OBVIOUS
<1>4. k = n  BY <1>2, <1>3
<1>5. Route(m, e) = [m EXCEPT !.tasks = @ \ {k}]
  <2>1. CASE e.type = "task.completed"  BY <1>3, <2>1 DEF Route
  <2>2. CASE e.type = "task.failed"  BY <1>3, <2>2 DEF Route
  <2> QED  BY <1>2, <2>1, <2>2
<1> QED  BY <1>1, <1>4, <1>5, Zenon

LEMMA RouteAgent ==
    ASSUME NEW m \in Models, NEW s \in Stations, NEW state, NEW n \in Nat,
           n > m.agent[s].rev
    PROVE  Route(m, Env("agent.updated", {s}, state, <<n>>)) = AgentAt(m, s, state, n)
<1>1. PICK e : e = Env("agent.updated", {s}, state, <<n>>)  OBVIOUS
<1>2. e.type = "agent.updated" /\ Head(e.num) = n /\ e.state = state /\ e.at = {s}
  BY <1>1 DEF Env
<1>3. (CHOOSE x \in e.at : TRUE) = s  BY <1>2
<1>4. Newer(m.agent[s], e) = [state |-> state, rev |-> n]  BY <1>2 DEF Newer
<1>5. Route(m, e) = [m EXCEPT !.agent[s] = Newer(@, e)]
  BY <1>2, <1>3 DEF Route
<1> QED  BY <1>1, <1>4, <1>5, Zenon DEF AgentAt

LEMMA RouteStation ==
    ASSUME NEW m \in Models, NEW s \in Stations, NEW state, NEW n \in Nat,
           n > m.station[s].rev
    PROVE  Route(m, Env("station.updated", {s}, state, <<n>>)) = StationAt(m, s, state, n)
<1>1. PICK e : e = Env("station.updated", {s}, state, <<n>>)  OBVIOUS
<1>2. e.type = "station.updated" /\ Head(e.num) = n /\ e.state = state /\ e.at = {s}
  BY <1>1 DEF Env
<1>3. (CHOOSE x \in e.at : TRUE) = s  BY <1>2
<1>4. Newer(m.station[s], e) = [state |-> state, rev |-> n]  BY <1>2 DEF Newer
<1>5. Route(m, e) = [m EXCEPT !.station[s] = Newer(@, e)]
  BY <1>2, <1>3 DEF Route
<1> QED  BY <1>1, <1>4, <1>5, Zenon DEF StationAt

LEMMA RouteTick ==
    ASSUME NEW m \in Models, NEW num
    PROVE  Route(m, Env("metrics.tick", {}, "", num)) = [m EXCEPT !.metrics = num]
<1>1. PICK e : e = Env("metrics.tick", {}, "", num)  BY Zenon
<1>2. e.type = "metrics.tick" /\ e.num = num  BY <1>1, Zenon DEF Env
<1>3. Route(m, e) = [m EXCEPT !.metrics = e.num]  BY <1>2 DEF Route
<1> QED  BY <1>1, <1>2, <1>3, Zenon

LEMMA RouteNothing ==
    ASSUME NEW m \in Models, NEW at, NEW state
    PROVE  /\ Route(m, Log) = m
           /\ Route(m, Env("alert.raised", at, state, <<>>)) = m
           /\ Route(m, Snapshot) = Hydrated
<1>1. PICK line : line = Log  BY Zenon
<1>2. PICK alert : alert = Env("alert.raised", at, state, <<>>)  OBVIOUS
<1>3. PICK snap : snap = Snapshot  BY Zenon
<1>4. line.type = "log.appended"  BY <1>1, Zenon DEF Log, Env
<1>5. alert.type = "alert.raised"  BY <1>2, Zenon DEF Env
<1>6. snap.type = "snapshot"  BY <1>3, Zenon DEF Snapshot, Env
<1>7. Route(m, line) = m  BY <1>4 DEF Route
<1>8. Route(m, alert) = m  BY <1>5 DEF Route
<1>9. Route(m, snap) = Hydrated  BY <1>6 DEF Route
<1>10. Route(m, Log) = m  BY <1>1, <1>7, Zenon
<1>11. Route(m, Env("alert.raised", at, state, <<>>)) = m  BY <1>2, <1>8, Zenon
<1>12. Route(m, Snapshot) = Hydrated  BY <1>3, <1>9, Zenon
<1> QED  BY <1>10, <1>11, <1>12, Zenon

\* The equation of Shown's fold.
Routes(g, envs) ==
    g = [s \in SUBSET DOMAIN envs |->
            IF s = {} THEN Hydrated ELSE Route(g[s \ {Max(s)}], envs[Max(s)])]

\* What is shown is the result of the last envelope.
InOrder(t, envs) ==
    /\ t \in [0..Len(envs) -> Models] /\ t[0] = Hydrated
    /\ \A i \in 1..Len(envs) : t[i] = Route(t[i - 1], envs[i])
    /\ t[Len(envs)] = Shown(envs)

LEMMA ShownInOrder ==
    ASSUME NEW envs \in Seq(Envelopes)
    PROVE  \E t : InOrder(t, envs)
<1>1. PICK n \in Nat : n = Len(envs) /\ DOMAIN envs = 1..n  OBVIOUS
<1>2. PICK F : F = [p \in Models \X Envelopes |-> Route(p[1], p[2])]  OBVIOUS
<1>3. /\ F \in [Models \X Envelopes -> Models]
      /\ \A m \in Models, env \in Envelopes : F[<<m, env>>] = Route(m, env)
  BY <1>2, RouteTyped
<1>4. \A p \in SUBSET (1..n) : p # {} => /\ p \ {Max(p)} \in SUBSET (1..n)
                                         /\ envs[Max(p)] \in Envelopes
  <2> TAKE p \in SUBSET (1..n)
  <2>1. p \ {Max(p)} \in SUBSET (1..n)  OBVIOUS
  <2>2. p # {} => Max(p) \in 1..n  BY LastRemoved
  <2>3. \A i \in 1..n : envs[i] \in Envelopes  BY <1>1
  <2> QED  BY <2>1, <2>2, <2>3
<1>5. PICK base \in Models : base = Hydrated  BY HydratedTyped
<1>6. \E g : Routes(g, envs)
  <2>1. PICK g \in [SUBSET (1..Len(envs)) -> Models] : Folds(g, Models, F, envs, base)
    BY <1>3, FoldExists
  <2>2. \A p \in SUBSET (1..n) :
            g[p] = IF p = {} THEN Hydrated ELSE Route(g[p \ {Max(p)}], envs[Max(p)])
    BY <1>1, <1>3, <1>4, <1>5, <2>1 DEF Folds
  <2>3. g = [p \in SUBSET (1..n) |-> g[p]]  BY <1>1
  <2>4. Routes(g, envs)  BY <1>1, <2>2, <2>3 DEF Routes
  <2> QED  BY <2>4
<1> DEFINE all == CHOOSE g : Routes(g, envs)
<1>7. Routes(all, envs)  BY <1>6
<1>8. Shown(envs) = all[1..n]
  BY <1>1 DEF Shown, FoldLeft, MapThenFoldSet, Routes
<1>9. PICK g : g = all  OBVIOUS
<1> HIDE DEF all
<1>10. \A p \in SUBSET (1..n) :
           g[p] = IF p = {} THEN Hydrated ELSE Route(g[p \ {Max(p)}], envs[Max(p)])
  BY <1>1, <1>7, <1>9 DEF Routes
<1>11. g[{}] = base  BY <1>5, <1>10
<1>12. Folds(g, Models, F, envs, base)
  <2>1. \A p \in SUBSET (1..n) : p # {} /\ g[p \ {Max(p)}] \in Models =>
            g[p] = F[<<g[p \ {Max(p)}], envs[Max(p)]>>]
    BY <1>3, <1>4, <1>10
  <2> QED  BY <1>1, <1>11, <2>1 DEF Folds
<1>13. PICK t : Results(t, Models, F, envs, base, g)
  BY <1>3, <1>12, FoldRuns
<1>14. \A i \in 1..n : t[i] = Route(t[i - 1], envs[i])
  <2> TAKE i \in 1..n
  <2>1. i - 1 \in 0..n  OBVIOUS
  <2>2. t[i - 1] \in Models /\ envs[i] \in Envelopes  BY <1>1, <1>13, <2>1 DEF Results
  <2> QED  BY <1>1, <1>3, <1>13, <2>2 DEF Results
<1>15. InOrder(t, envs)  BY <1>1, <1>5, <1>8, <1>9, <1>13, <1>14 DEF Results, InOrder
<1> QED  BY <1>15

\* Envelopes that are routed alike show the same.
LEMMA ShownAlike ==
    ASSUME NEW a \in Seq(Envelopes), NEW b \in Seq(Envelopes), NEW n \in Nat,
           n <= Len(a), n <= Len(b),
           \A i \in 1..n, m \in Models : Route(m, a[i]) = Route(m, b[i]),
           NEW t, NEW u, InOrder(t, a), InOrder(u, b)
    PROVE  t[n] = u[n]
<1> DEFINE Ns == {k \in Nat : k <= n => t[k] = u[k]}
<1>1. 0 \in Ns  BY DEF InOrder
<1>2. ASSUME NEW k \in Nat, k \in Ns
      PROVE  k + 1 \in Ns
  <2>1. ASSUME k + 1 <= n
        PROVE  t[k + 1] = u[k + 1]
    <3>1. /\ k + 1 \in 1..n /\ (k + 1) - 1 = k /\ t[k] = u[k]
          /\ k \in 0..Len(a) /\ k + 1 \in 1..Len(a) /\ k + 1 \in 1..Len(b)
      BY <1>2, <2>1
    <3>2. t[k] \in Models  BY <3>1 DEF InOrder
    <3>3. t[k + 1] = Route(t[k], a[k + 1])  BY <3>1 DEF InOrder
    <3>4. u[k + 1] = Route(u[k], b[k + 1])  BY <3>1 DEF InOrder
    <3>5. Route(t[k], a[k + 1]) = Route(t[k], b[k + 1])  BY <3>1, <3>2
    <3> QED  BY <3>1, <3>3, <3>4, <3>5
  <2> QED  BY <2>1
<1> HIDE DEF Ns
<1>3. n \in Ns  BY <1>1, <1>2, NatSetInduction
<1> QED  BY <1>3 DEF Ns

LEMMA ShownGrows ==
    ASSUME NEW envs \in Seq(Envelopes), NEW e \in Envelopes
    PROVE  Shown(Append(envs, e)) = Route(Shown(envs), e) /\ Shown(envs) \in Models
<1>1. PICK n \in Nat : n = Len(envs)  OBVIOUS
<1>2. PICK more \in Seq(Envelopes) :
          /\ more = Append(envs, e) /\ Len(more) = n + 1
          /\ \A i \in 1..n : more[i] = envs[i]
          /\ more[n + 1] = e
  BY <1>1, Grown
<1>3. PICK t : InOrder(t, envs)  BY ShownInOrder
<1>4. PICK u : InOrder(u, more)  BY ShownInOrder
<1>5. n <= Len(envs) /\ n <= Len(more)  BY <1>1, <1>2
<1>6. \A i \in 1..n, m \in Models : Route(m, envs[i]) = Route(m, more[i])  BY <1>2
<1>7. t[n] = u[n]  BY <1>3, <1>4, <1>5, <1>6, ShownAlike
<1>8. u[n + 1] = Route(u[n], e)
  <2>1. n + 1 \in 1..Len(more) /\ (n + 1) - 1 = n  BY <1>2
  <2> QED  BY <1>2, <1>4, <2>1 DEF InOrder
<1>9. u[n + 1] = Shown(more) /\ t[n] = Shown(envs) /\ t[n] \in Models
  BY <1>1, <1>2, <1>3, <1>4 DEF InOrder
<1> QED  BY <1>2, <1>7, <1>8, <1>9

LEMMA ShownNone == Shown(<<>>) = Hydrated
<1>1. <<>> \in Seq(Envelopes) /\ Len(<<>>) = 0  OBVIOUS
<1>2. PICK t : InOrder(t, <<>>)  BY <1>1, ShownInOrder
<1> QED  BY <1>1, <1>2 DEF InOrder

\* What two sequences make together.
LEMMA Joined ==
    ASSUME NEW S, NEW s \in Seq(S), NEW t \in Seq(S), NEW k, NEW l, k = Len(s), l = Len(t)
    PROVE  /\ s \o t \in Seq(S) /\ Len(s \o t) = k + l
           /\ \A i \in 1..k : (s \o t)[i] = s[i]
           /\ \A i \in (k + 1)..(k + l) : (s \o t)[i] = t[i - k]
OBVIOUS

\* The seqs make no difference to what is shown.
LEMMA ShownStamped ==
    ASSUME NEW envs \in Seq(Envelopes), NEW more \in Seq(Envelopes), NEW n \in Nat
    PROVE  Shown(envs \o Stamped(more, n)) = Shown(envs \o more)
<1>1. PICK k \in Nat : k = Len(envs)  OBVIOUS
<1>2. PICK l \in Nat : l = Len(more)  OBVIOUS
<1>2a. DOMAIN more = 1..l  BY <1>2
<1>3. PICK st : st = Stamped(more, n)  OBVIOUS
<1>4. /\ st = [i \in 1..l |-> [more[i] EXCEPT !.seq = n + i]]
      /\ \A i \in 1..l : more[i] \in Envelopes /\ n + i \in Nat
  BY <1>2, <1>2a, <1>3 DEF Stamped
<1>5. st \in Seq(Envelopes) /\ Len(st) = l
  <2>1. \A i \in 1..l : [more[i] EXCEPT !.seq = n + i] \in Envelopes
    BY <1>4 DEF Envelopes
  <2>2. st \in [1..l -> Envelopes]  BY <1>4, <2>1
  <2> QED  BY <2>2
<1>6. PICK a : a = envs \o st  OBVIOUS
<1>7. PICK b : b = envs \o more  OBVIOUS
<1>6a. /\ a \in Seq(Envelopes) /\ Len(a) = k + l
       /\ \A i \in 1..k : a[i] = envs[i]
       /\ \A i \in (k + 1)..(k + l) : a[i] = st[i - k]
  BY <1>1, <1>5, <1>6, Joined
<1>7a. /\ b \in Seq(Envelopes) /\ Len(b) = k + l
       /\ \A i \in 1..k : b[i] = envs[i]
       /\ \A i \in (k + 1)..(k + l) : b[i] = more[i - k]
  BY <1>1, <1>2, <1>7, Joined
<1>8. ASSUME NEW i \in 1..(k + l), NEW m \in Models
      PROVE  Route(m, a[i]) = Route(m, b[i])
  <2>1. CASE i \in 1..k  BY <1>6a, <1>7a, <2>1
  <2>2. CASE i \in (k + 1)..(k + l)
    <3>1. i - k \in 1..l /\ a[i] = st[i - k] /\ b[i] = more[i - k]  BY <1>6a, <1>7a, <2>2
    <3>2. a[i] = [more[i - k] EXCEPT !.seq = n + (i - k)] /\ more[i - k] \in Envelopes
      BY <1>4, <3>1
    <3>3. PICK e \in Envelopes : e = more[i - k]  BY <3>2
    <3>4. PICK j : j = n + (i - k)  OBVIOUS
    <3>5. Route(m, [e EXCEPT !.seq = j]) = Route(m, e)  BY RouteBlind
    <3> QED  BY <3>1, <3>2, <3>3, <3>4, <3>5
  <2> QED  BY <2>1, <2>2
<1>9. PICK t : InOrder(t, a)  BY <1>6a, ShownInOrder
<1>10. PICK u : InOrder(u, b)  BY <1>7a, ShownInOrder
<1>11. k + l \in Nat /\ k + l <= Len(a) /\ k + l <= Len(b)  BY <1>6a, <1>7a
<1>12. PICK j \in Nat : j = k + l /\ j <= Len(a) /\ j <= Len(b)  BY <1>11
<1>13. \A i \in 1..j, m \in Models : Route(m, a[i]) = Route(m, b[i])  BY <1>8, <1>12
<1>14. t[j] = u[j]  BY <1>6a, <1>7a, <1>9, <1>10, <1>12, <1>13, ShownAlike
<1> QED  BY <1>3, <1>6, <1>6a, <1>7, <1>7a, <1>9, <1>10, <1>12, <1>14 DEF InOrder

\* A few envelopes more, one after the other.
LEMMA OneMore ==
    ASSUME NEW S, NEW s \in Seq(S), NEW t \in Seq(S), NEW e \in S
    PROVE  s \o Append(t, e) = Append(s \o t, e) /\ s \o t \in Seq(S)
<1>1. s \o t \in Seq(S) /\ Append(t, e) \in Seq(S)  OBVIOUS
<1>2. Len(s \o Append(t, e)) = Len(Append(s \o t, e))  OBVIOUS
<1>3. \A i \in 1..Len(s \o Append(t, e)) : (s \o Append(t, e))[i] = Append(s \o t, e)[i]
  OBVIOUS
<1>4. s \o Append(t, e) \in Seq(S) /\ Append(s \o t, e) \in Seq(S)  BY <1>1
<1> QED  BY <1>1, <1>2, <1>3, <1>4, SeqEqual

LEMMA ShownOneMore ==
    ASSUME NEW s \in Seq(Envelopes), NEW t \in Seq(Envelopes), NEW e \in Envelopes
    PROVE  Shown(s \o Append(t, e)) = Route(Shown(s \o t), e)
<1>1. PICK b : b = s \o t  OBVIOUS
<1>2. b \in Seq(Envelopes) /\ s \o Append(t, e) = Append(b, e)  BY <1>1, OneMore
<1>3. Shown(Append(b, e)) = Route(Shown(b), e)  BY <1>2, ShownGrows
<1> QED  BY <1>1, <1>2, <1>3, Zenon

LEMMA ShownOne ==
    ASSUME NEW envs \in Seq(Envelopes), NEW a \in Envelopes
    PROVE  Shown(envs \o <<a>>) =
               Route(Shown(envs), a)
<1>1. <<>> \in Seq(Envelopes)  OBVIOUS
<1>2. PICK none \in Seq(Envelopes) : none = <<>>  BY <1>1
<1>3. Shown(envs \o Append(none, a)) = Route(Shown(envs \o none), a)  BY ShownOneMore
<1>4. Append(none, a) = <<a>> /\ envs \o none = envs  BY <1>2
<1> QED  BY <1>3, <1>4, Zenon

LEMMA ShownTwo ==
    ASSUME NEW envs \in Seq(Envelopes), NEW a \in Envelopes, NEW b \in Envelopes
    PROVE  Shown(envs \o <<a, b>>) =
               Route(Route(Shown(envs), a), b)
<1>1. <<a>> \in Seq(Envelopes)  OBVIOUS
<1>6. <<a, b>> = Append(<<a>>, b)  OBVIOUS
<1>2. PICK few \in Seq(Envelopes) : few = <<a>>  BY <1>1
<1>3. Shown(envs \o Append(few, b)) = Route(Shown(envs \o few), b)  BY ShownOneMore
<1>4. Append(few, b) = <<a, b>>  BY <1>2, <1>6, Zenon
<1>5. Shown(envs \o <<a>>) = Route(Shown(envs), a)
  BY ShownOne
<1> QED  BY <1>2, <1>3, <1>4, <1>5, Zenon

LEMMA ShownThree ==
    ASSUME NEW envs \in Seq(Envelopes), NEW a \in Envelopes, NEW b \in Envelopes,
           NEW c \in Envelopes
    PROVE  Shown(envs \o <<a, b, c>>) =
               Route(Route(Route(Shown(envs), a), b), c)
<1>1. <<a, b>> \in Seq(Envelopes)  OBVIOUS
<1>6. <<a, b, c>> = Append(<<a, b>>, c)  OBVIOUS
<1>2. PICK few \in Seq(Envelopes) : few = <<a, b>>  BY <1>1
<1>3. Shown(envs \o Append(few, c)) = Route(Shown(envs \o few), c)  BY ShownOneMore
<1>4. Append(few, c) = <<a, b, c>>  BY <1>2, <1>6, Zenon
<1>5. Shown(envs \o <<a, b>>) = Route(Route(Shown(envs), a), b)
  BY ShownTwo
<1> QED  BY <1>2, <1>3, <1>4, <1>5, Zenon

LEMMA ShownFour ==
    ASSUME NEW envs \in Seq(Envelopes), NEW a \in Envelopes, NEW b \in Envelopes,
           NEW c \in Envelopes, NEW d \in Envelopes
    PROVE  Shown(envs \o <<a, b, c, d>>) =
               Route(Route(Route(Route(Shown(envs), a), b), c), d)
<1>1. <<a, b, c>> \in Seq(Envelopes)  OBVIOUS
<1>6. <<a, b, c, d>> = Append(<<a, b, c>>, d)  OBVIOUS
<1>2. PICK few \in Seq(Envelopes) : few = <<a, b, c>>  BY <1>1
<1>3. Shown(envs \o Append(few, d)) = Route(Shown(envs \o few), d)  BY ShownOneMore
<1>4. Append(few, d) = <<a, b, c, d>>  BY <1>2, <1>6, Zenon
<1>5. Shown(envs \o <<a, b, c>>) = Route(Route(Route(Shown(envs), a), b), c)
  BY ShownThree
<1> QED  BY <1>2, <1>3, <1>4, <1>5, Zenon

LEMMA ShownFive ==
    ASSUME NEW envs \in Seq(Envelopes), NEW a \in Envelopes, NEW b \in Envelopes,
           NEW c \in Envelopes, NEW d \in Envelopes, NEW e \in Envelopes
    PROVE  Shown(envs \o <<a, b, c, d, e>>) =
               Route(Route(Route(Route(Route(Shown(envs), a), b), c), d), e)
<1>1. <<a, b, c, d>> \in Seq(Envelopes)  OBVIOUS
<1>6. <<a, b, c, d, e>> = Append(<<a, b, c, d>>, e)  OBVIOUS
<1>2. PICK few \in Seq(Envelopes) : few = <<a, b, c, d>>  BY <1>1
<1>3. Shown(envs \o Append(few, e)) = Route(Shown(envs \o few), e)  BY ShownOneMore
<1>4. Append(few, e) = <<a, b, c, d, e>>  BY <1>2, <1>6, Zenon
<1>5. Shown(envs \o <<a, b, c, d>>) = Route(Route(Route(Route(Shown(envs), a), b), c), d)
  BY ShownFour
<1> QED  BY <1>2, <1>3, <1>4, <1>5, Zenon

-----------------------------------------------------------------------------
(* What a log says, with one more line                                     *)

\* The last of some places.
Top(I) == IF I # {} THEN Max(I) ELSE 0

LEMMA TopGrows ==
    ASSUME NEW n \in Nat, NEW I \in SUBSET (1..n)
    PROVE  /\ Top(I) \in 0..n /\ Top(I \cup {n + 1}) = n + 1
           /\ Top(I) = 0 <=> I = {}
           /\ Top(I) # 0 => Top(I) \in I
           /\ \A i \in I : i <= Top(I)
<1>1. I # {} => Max(I) \in I /\ \A i \in I : i <= Max(I)  BY MaxBounds
<1>2. PICK J : J = I \cup {n + 1}  OBVIOUS
<1>3. J \in SUBSET (1..(n + 1)) /\ J # {} /\ n + 1 \in Nat  BY <1>2
<1>4. Max(J) \in J /\ \A i \in J : i <= Max(J)  BY <1>3, MaxBounds
<1>5. Max(J) = n + 1
  <2>1. PICK x : x = Max(J)  OBVIOUS
  <2>2. x \in 1..(n + 1)  BY <1>3, <1>4, <2>1
  <2>3. n + 1 <= x  BY <1>2, <1>4, <2>1
  <2> QED  BY <2>1, <2>2, <2>3
<1>6. Top(J) = n + 1  BY <1>3, <1>5 DEF Top
<1>7. I = {} => Top(I) = 0  BY DEF Top
<1>8. I # {} => Top(I) = Max(I)  BY DEF Top
<1>9. PICK y : y = Top(I)  OBVIOUS
<1>10. CASE I = {}  BY <1>2, <1>6, <1>7, <1>10
<1>11. CASE I # {}
  <2>1. y \in I /\ \A i \in I : i <= y  BY <1>1, <1>8, <1>9, <1>11
  <2>2. y \in 1..n  BY <2>1
  <2> QED  BY <1>2, <1>6, <1>9, <1>11, <2>1, <2>2
<1> QED  BY <1>10, <1>11

\* The last line that completes a step or a run.
Tick(lines) == SelectLastInSeq(lines, LAMBDA l : l.event \in {"step.complete", "run.complete"})

StepPlaces(L, s, events) == {i \in 1..Len(L) : L[i].at = {s} /\ L[i].event \in events}
StartPlaces(L) == {i \in 1..Len(L) : L[i] = RunLine("run.start")}
TickPlaces(L) == {i \in 1..Len(L) : L[i].event \in {"step.complete", "run.complete"}}
EventPlaces(L, event) == {i \in 1..Len(L) : L[i].event = event}

LEMMA PlacesAre ==
    ASSUME NEW L \in Seq(Lines)
    PROVE  /\ \A s, events : LastOf(L, s, events) = Top(StepPlaces(L, s, events))
           /\ Beginning(L) = Top(StartPlaces(L))
           /\ Tick(L) = Top(TickPlaces(L))
           /\ \A event : Count(L, event) = Cardinality(EventPlaces(L, event))
<1>1. ASSUME NEW s, NEW events
      PROVE  LastOf(L, s, events) = Top(StepPlaces(L, s, events))
  BY DEF LastOf, SelectLastInSeq, Top, StepPlaces
<1>2. Beginning(L) = Top(StartPlaces(L))  BY DEF Beginning, SelectLastInSeq, Top, StartPlaces
<1>3. Tick(L) = Top(TickPlaces(L))  BY DEF Tick, SelectLastInSeq, Top, TickPlaces
<1>4. DOMAIN L = 1..Len(L)  OBVIOUS
<1>5. \A event : Count(L, event) = Cardinality(EventPlaces(L, event))
  BY <1>4 DEF Count, EventPlaces
<1> QED  BY <1>1, <1>2, <1>3, <1>5

\* A log, and the log with one more line.
OneLineMore(L, l, M, n) ==
    /\ L \in Seq(Lines) /\ l \in Lines /\ n \in Nat /\ n = Len(L)
    /\ M = Append(L, l) /\ M \in Seq(Lines) /\ Len(M) = n + 1
    /\ \A i \in 1..n : M[i] = L[i]
    /\ M[n + 1] = l

LEMMA PlacesGrow ==
    ASSUME NEW L, NEW l, NEW M, NEW n, OneLineMore(L, l, M, n)
    PROVE  /\ \A s, events :
                  StepPlaces(M, s, events) = StepPlaces(L, s, events) \cup
                      (IF l.at = {s} /\ l.event \in events THEN {n + 1} ELSE {})
           /\ StartPlaces(M) = StartPlaces(L) \cup
                  (IF l = RunLine("run.start") THEN {n + 1} ELSE {})
           /\ TickPlaces(M) = TickPlaces(L) \cup
                  (IF l.event \in {"step.complete", "run.complete"} THEN {n + 1} ELSE {})
           /\ \A event : EventPlaces(M, event) = EventPlaces(L, event) \cup
                             (IF l.event = event THEN {n + 1} ELSE {})
<1>1. /\ n \in Nat /\ n = Len(L) /\ Len(M) = n + 1
      /\ \A i \in 1..n : M[i] = L[i]
      /\ M[n + 1] = l /\ 1..(n + 1) = (1..n) \cup {n + 1} /\ n + 1 \notin 1..n
  BY DEF OneLineMore
<1>2. ASSUME NEW s, NEW events
      PROVE  StepPlaces(M, s, events) = StepPlaces(L, s, events) \cup
                      (IF l.at = {s} /\ l.event \in events THEN {n + 1} ELSE {})
  BY <1>1 DEF StepPlaces
<1>3. StartPlaces(M) = StartPlaces(L) \cup
                  (IF l = RunLine("run.start") THEN {n + 1} ELSE {})
  BY <1>1 DEF StartPlaces
<1>4. TickPlaces(M) = TickPlaces(L) \cup
                  (IF l.event \in {"step.complete", "run.complete"} THEN {n + 1} ELSE {})
  BY <1>1 DEF TickPlaces
<1>5. ASSUME NEW event
      PROVE  EventPlaces(M, event) = EventPlaces(L, event) \cup
                             (IF l.event = event THEN {n + 1} ELSE {})
  BY <1>1 DEF EventPlaces
<1> QED  BY <1>2, <1>3, <1>4, <1>5, Zenon

LEMMA PlacesBounded ==
    ASSUME NEW L, NEW n \in Nat, n = Len(L)
    PROVE  /\ \A s, events : StepPlaces(L, s, events) \in SUBSET (1..n)
           /\ StartPlaces(L) \in SUBSET (1..n)
           /\ TickPlaces(L) \in SUBSET (1..n)
           /\ \A event : EventPlaces(L, event) \in SUBSET (1..n)
BY DEF StepPlaces, StartPlaces, TickPlaces, EventPlaces

LEMMA LastGrows ==
    ASSUME NEW L, NEW l, NEW M, NEW n, OneLineMore(L, l, M, n), NEW s, NEW events
    PROVE  /\ LastOf(L, s, events) \in 0..n
           /\ LastOf(M, s, events) = IF l.at = {s} /\ l.event \in events
                                     THEN n + 1 ELSE LastOf(L, s, events)
<1>1. L \in Seq(Lines) /\ M \in Seq(Lines) /\ n \in Nat /\ n = Len(L)  BY DEF OneLineMore
<1>2. PICK I : I = StepPlaces(L, s, events)  OBVIOUS
<1>3. I \in SUBSET (1..n)  BY <1>1, <1>2, PlacesBounded
<1>4. LastOf(L, s, events) = Top(I)  BY <1>1, <1>2, PlacesAre
<1>5. LastOf(M, s, events) = Top(StepPlaces(M, s, events))  BY <1>1, PlacesAre
<1>6. StepPlaces(M, s, events) = I \cup
                      (IF l.at = {s} /\ l.event \in events THEN {n + 1} ELSE {})
  BY <1>2, PlacesGrow
<1>7. Top(I) \in 0..n /\ Top(I \cup {n + 1}) = n + 1  BY <1>1, <1>3, TopGrows
<1> QED  BY <1>4, <1>5, <1>6, <1>7

LEMMA BeginningGrows ==
    ASSUME NEW L, NEW l, NEW M, NEW n, OneLineMore(L, l, M, n)
    PROVE  /\ Beginning(L) \in 0..n
           /\ Beginning(M) = IF l = RunLine("run.start") THEN n + 1 ELSE Beginning(L)
<1>1. L \in Seq(Lines) /\ M \in Seq(Lines) /\ n \in Nat /\ n = Len(L)  BY DEF OneLineMore
<1>2. PICK I : I = StartPlaces(L)  OBVIOUS
<1>3. I \in SUBSET (1..n)  BY <1>1, <1>2, PlacesBounded
<1>4. Beginning(L) = Top(I)  BY <1>1, <1>2, PlacesAre
<1>5. Beginning(M) = Top(StartPlaces(M))  BY <1>1, PlacesAre
<1>6. StartPlaces(M) = I \cup (IF l = RunLine("run.start") THEN {n + 1} ELSE {})
  BY <1>2, PlacesGrow
<1>7. Top(I) \in 0..n /\ Top(I \cup {n + 1}) = n + 1  BY <1>1, <1>3, TopGrows
<1> QED  BY <1>4, <1>5, <1>6, <1>7

LEMMA TickGrows ==
    ASSUME NEW L, NEW l, NEW M, NEW n, OneLineMore(L, l, M, n)
    PROVE  /\ Tick(L) \in 0..n
           /\ Tick(M) = IF l.event \in {"step.complete", "run.complete"}
                        THEN n + 1 ELSE Tick(L)
<1>1. L \in Seq(Lines) /\ M \in Seq(Lines) /\ n \in Nat /\ n = Len(L)  BY DEF OneLineMore
<1>2. PICK I : I = TickPlaces(L)  OBVIOUS
<1>3. I \in SUBSET (1..n)  BY <1>1, <1>2, PlacesBounded
<1>4. Tick(L) = Top(I)  BY <1>1, <1>2, PlacesAre
<1>5. Tick(M) = Top(TickPlaces(M))  BY <1>1, PlacesAre
<1>6. TickPlaces(M) = I \cup
          (IF l.event \in {"step.complete", "run.complete"} THEN {n + 1} ELSE {})
  BY <1>2, PlacesGrow
<1>7. Top(I) \in 0..n /\ Top(I \cup {n + 1}) = n + 1  BY <1>1, <1>3, TopGrows
<1> QED  BY <1>4, <1>5, <1>6, <1>7

LEMMA CountGrows ==
    ASSUME NEW L, NEW l, NEW M, NEW n, OneLineMore(L, l, M, n), NEW event
    PROVE  /\ Count(L, event) \in Nat
           /\ Count(M, event) = Count(L, event) + IF l.event = event THEN 1 ELSE 0
<1>1. L \in Seq(Lines) /\ M \in Seq(Lines) /\ n \in Nat /\ n = Len(L)  BY DEF OneLineMore
<1>2. PICK I : I = EventPlaces(L, event)  OBVIOUS
<1>3. I \in SUBSET (1..n)  BY <1>1, <1>2, PlacesBounded
<1>4. Count(L, event) = Cardinality(I)  BY <1>1, <1>2, PlacesAre
<1>5. Count(M, event) = Cardinality(EventPlaces(M, event))  BY <1>1, PlacesAre
<1>6. EventPlaces(M, event) = I \cup (IF l.event = event THEN {n + 1} ELSE {})
  BY <1>2, PlacesGrow
<1>7. IsFiniteSet(I) /\ Cardinality(I) \in Nat  BY <1>1, <1>3, LastRemoved
<1>8. n + 1 \notin I  BY <1>1, <1>3
<1>9. Cardinality(I \cup {n + 1}) = Cardinality(I) + 1  BY <1>7, <1>8, FS_AddElement
<1>10. CASE l.event = event  BY <1>4, <1>5, <1>6, <1>7, <1>9, <1>10
<1>11. CASE l.event # event
  <2>1. EventPlaces(M, event) = I  BY <1>6, <1>11
  <2> QED  BY <1>4, <1>5, <1>7, <1>11, <2>1
<1> QED  BY <1>10, <1>11

LEMMA EventsOfNone ==
    /\ \A s, events : LastOf(<<>>, s, events) = 0
    /\ Beginning(<<>>) = 0 /\ Tick(<<>>) = 0
    /\ \A event : Count(<<>>, event) = 0
    /\ OpenStarts(<<>>) = {}
<1>1. <<>> \in Seq(Lines) /\ Len(<<>>) = 0 /\ 1..0 = {} /\ DOMAIN <<>> = {}  OBVIOUS
<1>2. /\ \A s, events : StepPlaces(<<>>, s, events) = {}
      /\ StartPlaces(<<>>) = {} /\ TickPlaces(<<>>) = {}
      /\ \A event : EventPlaces(<<>>, event) = {}
  BY <1>1 DEF StepPlaces, StartPlaces, TickPlaces, EventPlaces
<1>3. Top({}) = 0  BY DEF Top
<1>4. Cardinality({}) = 0  BY FS_EmptySet
<1>5. OpenStarts(<<>>) = {}  BY <1>1 DEF OpenStarts
<1> QED  BY <1>1, <1>2, <1>3, <1>4, <1>5, PlacesAre

\* The line j ends the step that the line i starts.
Closes(L, i, j) == /\ L[j].at = L[i].at
                 /\ L[j].event \in {"step.complete", "step.failed"}
                 /\ \A k \in (i + 1)..(j - 1) : L[k] # L[i]

LEMMA OpenStartsAre ==
    ASSUME NEW L \in Seq(Lines), NEW n, n = Len(L)
    PROVE  OpenStarts(L) = {i \in 1..n : /\ L[i].event = "step.start"
                                         /\ ~\E j \in (i + 1)..n : Closes(L, i, j)}
<1>1. DOMAIN L = 1..n  OBVIOUS
<1> QED  BY <1>1 DEF OpenStarts, Closes

LEMMA ClosesGrow ==
    ASSUME NEW L, NEW l, NEW M, NEW n, OneLineMore(L, l, M, n), NEW i \in 1..n
    PROVE  (\E j \in (i + 1)..(n + 1) : Closes(M, i, j)) <=>
               \/ \E j \in (i + 1)..n : Closes(L, i, j)
               \/ /\ l.at = L[i].at /\ l.event \in {"step.complete", "step.failed"}
                  /\ \A k \in (i + 1)..n : L[k] # L[i]
<1>1. /\ n \in Nat /\ \A k \in 1..n : M[k] = L[k]
      /\ M[n + 1] = l
  BY DEF OneLineMore
<1>2. ASSUME NEW j \in (i + 1)..n
      PROVE  Closes(M, i, j) <=> Closes(L, i, j)
  <2>1. M[i] = L[i] /\ M[j] = L[j]  BY <1>1
  <2>2. \A k \in (i + 1)..(j - 1) : M[k] = L[k]  BY <1>1
  <2> QED  BY <2>1, <2>2 DEF Closes
<1>3. Closes(M, i, n + 1) <=> /\ l.at = L[i].at /\ l.event \in {"step.complete", "step.failed"}
                            /\ \A k \in (i + 1)..n : L[k] # L[i]
  <2>1. M[i] = L[i] /\ M[n + 1] = l /\ (n + 1) - 1 = n  BY <1>1
  <2>2. \A k \in (i + 1)..n : M[k] = L[k]  BY <1>1
  <2> QED  BY <2>1, <2>2 DEF Closes
<1>4. (i + 1)..(n + 1) = ((i + 1)..n) \cup {n + 1}  BY <1>1
<1> QED  BY <1>2, <1>3, <1>4

LEMMA OpenGrows ==
    ASSUME NEW L, NEW l, NEW M, NEW n, OneLineMore(L, l, M, n)
    PROVE  /\ OpenStarts(L) \in SUBSET (1..n)
           /\ \A i \in OpenStarts(L) : L[i].event = "step.start"
           /\ l.event = "step.start" => OpenStarts(M) = OpenStarts(L) \cup {n + 1}
           /\ l.event \notin {"step.start", "step.complete", "step.failed"} =>
                  OpenStarts(M) = OpenStarts(L)
<1>1. /\ L \in Seq(Lines) /\ M \in Seq(Lines) /\ n \in Nat /\ n = Len(L) /\ Len(M) = n + 1
      /\ \A i \in 1..n : M[i] = L[i]
      /\ M[n + 1] = l
  BY DEF OneLineMore
<1>2. OpenStarts(L) = {i \in 1..n : /\ L[i].event = "step.start"
                                    /\ ~\E j \in (i + 1)..n : Closes(L, i, j)}
  BY <1>1, OpenStartsAre
<1>3. OpenStarts(M) = {i \in 1..(n + 1) : /\ M[i].event = "step.start"
                                          /\ ~\E j \in (i + 1)..(n + 1) : Closes(M, i, j)}
  BY <1>1, OpenStartsAre
<1>4. ASSUME l.event \notin {"step.complete", "step.failed"}, NEW i \in 1..n
      PROVE  (\E j \in (i + 1)..(n + 1) : Closes(M, i, j)) <=> \E j \in (i + 1)..n : Closes(L, i, j)
  BY <1>4, ClosesGrow
<1>5. ((n + 1) + 1)..(n + 1) = {} /\ 1..(n + 1) = (1..n) \cup {n + 1} /\ n + 1 \notin 1..n
  BY <1>1
<1>6. ASSUME l.event \notin {"step.complete", "step.failed"}, NEW i \in 1..n
      PROVE  i \in OpenStarts(M) <=> i \in OpenStarts(L)
  BY <1>1, <1>2, <1>3, <1>4, <1>5, <1>6
<1>7. n + 1 \in OpenStarts(M) <=> l.event = "step.start"
  BY <1>1, <1>3, <1>5
<1>8. OpenStarts(L) \in SUBSET (1..n) /\ OpenStarts(M) \in SUBSET (1..(n + 1))
  BY <1>2, <1>3
<1>9. \A i \in OpenStarts(L) : L[i].event = "step.start"  BY <1>2
<1>10. l.event = "step.start" => OpenStarts(M) = OpenStarts(L) \cup {n + 1}
  BY <1>5, <1>6, <1>7, <1>8
<1>11. l.event \notin {"step.start", "step.complete", "step.failed"} =>
           OpenStarts(M) = OpenStarts(L)
  BY <1>5, <1>6, <1>7, <1>8
<1> QED  BY <1>8, <1>9, <1>10, <1>11

\* The last start at a station.
LEMMA LastStart ==
    ASSUME NEW L \in Seq(Lines), NEW n, n = Len(L), NEW s, NEW k,
           k = LastOf(L, s, {"step.start"})
    PROVE  /\ k \in 0..n
           /\ k # 0 => L[k].at = {s} /\ L[k].event = "step.start"
           /\ \A i \in 1..n : L[i].at = {s} /\ L[i].event = "step.start" => i <= k
<1>1. n \in Nat  OBVIOUS
<1>2. PICK I : I = StepPlaces(L, s, {"step.start"})  OBVIOUS
<1>3. I \in SUBSET (1..n)  BY <1>1, <1>2, PlacesBounded
<1>4. k = Top(I)  BY <1>2, PlacesAre
<1>4a. Top(I) \in 0..n /\ (Top(I) # 0 => Top(I) \in I) /\ \A i \in I : i <= Top(I)
  <2>1. PICK m \in Nat : m = n  BY <1>1
  <2>2. I \in SUBSET (1..m)  BY <1>3, <2>1
  <2>3. Top(I) \in 0..m /\ (Top(I) # 0 => Top(I) \in I) /\ \A i \in I : i <= Top(I)
    BY <2>2, TopGrows
  <2> QED  BY <2>1, <2>3
<1>5. k \in 0..n /\ (k # 0 => k \in I) /\ \A i \in I : i <= k
  BY <1>4, <1>4a
<1>6. \A i \in 1..n : i \in I <=> L[i].at = {s} /\ L[i].event = "step.start"
  BY <1>2 DEF StepPlaces
<1> QED  BY <1>3, <1>5, <1>6

LEMMA OpenEnds ==
    ASSUME NEW L, NEW l, NEW M, NEW n, OneLineMore(L, l, M, n), NEW s,
           l.at = {s}, l.event \in {"step.complete", "step.failed"}
    PROVE  OpenStarts(M) = OpenStarts(L) \ {LastOf(L, s, {"step.start"})}
<1>1. /\ L \in Seq(Lines) /\ M \in Seq(Lines) /\ n \in Nat /\ n = Len(L) /\ Len(M) = n + 1
      /\ \A i \in 1..n : M[i] = L[i]
      /\ M[n + 1] = l
  BY DEF OneLineMore
<1>2. OpenStarts(L) = {i \in 1..n : /\ L[i].event = "step.start"
                                    /\ ~\E j \in (i + 1)..n : Closes(L, i, j)}
  BY <1>1, OpenStartsAre
<1>3. OpenStarts(M) = {i \in 1..(n + 1) : /\ M[i].event = "step.start"
                                          /\ ~\E j \in (i + 1)..(n + 1) : Closes(M, i, j)}
  BY <1>1, OpenStartsAre
<1>4. PICK k : k = LastOf(L, s, {"step.start"})  OBVIOUS
<1>5. /\ k \in 0..n
      /\ k # 0 => L[k].at = {s} /\ L[k].event = "step.start"
      /\ \A i \in 1..n : L[i].at = {s} /\ L[i].event = "step.start" => i <= k
  BY <1>1, <1>4, LastStart
<1>6. \A i \in 1..n : L[i] \in Lines  BY <1>1
<1>7. ASSUME NEW i \in 1..n, L[i].event = "step.start", L[i].at = {s}
      PROVE  (\A j \in (i + 1)..n : L[j] # L[i]) <=> i = k
  <2>1. ASSUME NEW j \in 1..n
        PROVE  L[j] = L[i] <=> L[j].at = {s} /\ L[j].event = "step.start"
    <3>1. L[i] \in Lines /\ L[j] \in Lines  BY <1>6
    <3>2. \A a \in Lines, b \in Lines : a = b <=> a.at = b.at /\ a.event = b.event
      BY DEF Lines
    <3> QED  BY <1>7, <3>1, <3>2
  <2>2. i <= k /\ k # 0 /\ k \in 1..n  BY <1>5, <1>7
  <2>3. L[k] = L[i]  BY <1>5, <2>1, <2>2
  <2>4. CASE i = k
    <3>1. \A j \in (i + 1)..n : j \in 1..n /\ ~(j <= k)  BY <1>1, <2>4
    <3> QED  BY <1>5, <2>1, <2>4, <3>1
  <2>5. CASE i # k
    <3>1. k \in (i + 1)..n  BY <1>1, <2>2, <2>5
    <3> QED  BY <2>3, <2>5, <3>1
  <2> QED  BY <2>4, <2>5
<1>8. ASSUME NEW i \in 1..n
      PROVE  i \in OpenStarts(M) <=> i \in OpenStarts(L) /\ i # k
  <2>1. i \in OpenStarts(M) <=>
            L[i].event = "step.start" /\ ~\E j \in (i + 1)..(n + 1) : Closes(M, i, j)
    BY <1>1, <1>3
  <2>2. i \in OpenStarts(L) <=>
            L[i].event = "step.start" /\ ~\E j \in (i + 1)..n : Closes(L, i, j)
    BY <1>2
  <2>3. (\E j \in (i + 1)..(n + 1) : Closes(M, i, j)) <=>
               \/ \E j \in (i + 1)..n : Closes(L, i, j)
               \/ /\ l.at = L[i].at /\ l.event \in {"step.complete", "step.failed"}
                  /\ \A j \in (i + 1)..n : L[j] # L[i]
    BY ClosesGrow
  <2>4. CASE L[i].event = "step.start" /\ L[i].at = {s}
    BY <1>7, <2>1, <2>2, <2>3, <2>4
  <2>5. CASE L[i].event = "step.start" /\ L[i].at # {s}
    <3>1. i # k  BY <1>5, <2>5
    <3> QED  BY <2>1, <2>2, <2>3, <2>5, <3>1
  <2>6. CASE L[i].event # "step.start"  BY <2>1, <2>2, <2>6
  <2> QED  BY <2>4, <2>5, <2>6
<1>9. n + 1 \notin OpenStarts(M)  BY <1>1, <1>3
<1>10. OpenStarts(L) \in SUBSET (1..n) /\ OpenStarts(M) \in SUBSET (1..(n + 1))
  BY <1>2, <1>3
<1>11. 1..(n + 1) = (1..n) \cup {n + 1}  BY <1>1
<1> QED  BY <1>4, <1>8, <1>9, <1>10, <1>11

\* The lines up to the last that tells the totals.
Told(lines) == SubSeq(lines, 1, Tick(lines))

LEMMA BeginningKept ==
    ASSUME NEW L \in Seq(Lines), NEW l, NEW t \in 0..Len(L)
    PROVE  SubSeq(Append(L, l), 1, t) = SubSeq(L, 1, t)
<1>1. \A i \in 1..t : Append(L, l)[i] = L[i]  OBVIOUS
<1> QED  BY <1>1

LEMMA ToldGrows ==
    ASSUME NEW L, NEW l, NEW M, NEW n, OneLineMore(L, l, M, n)
    PROVE  Told(M) = IF l.event \in {"step.complete", "run.complete"} THEN M ELSE Told(L)
<1>1. /\ L \in Seq(Lines) /\ M \in Seq(Lines) /\ n \in Nat /\ n = Len(L) /\ Len(M) = n + 1
      /\ M = Append(L, l)
  BY DEF OneLineMore
<1>2. CASE l.event \in {"step.complete", "run.complete"}
  <2>1. Tick(M) = Len(M)  BY <1>1, <1>2, TickGrows
  <2>2. SubSeq(M, 1, Len(M)) = M  BY <1>1
  <2> QED  BY <1>2, <2>1, <2>2 DEF Told
<1>3. CASE l.event \notin {"step.complete", "run.complete"}
  <2>1. PICK t : t = Tick(L)  OBVIOUS
  <2>2. Tick(M) = t /\ t \in 0..Len(L)  BY <1>1, <1>3, <2>1, TickGrows
  <2>3. SubSeq(M, 1, t) = SubSeq(L, 1, t)  BY <1>1, <2>2, BeginningKept
  <2> QED  BY <1>3, <2>1, <2>2, <2>3 DEF Told
<1> QED  BY <1>2, <1>3

-----------------------------------------------------------------------------
(* What the envelopes of one line make of what is shown                    *)

\* What is shown after one more list of envelopes, whatever seqs they are given.
LEMMA EmitOut ==
    ASSUME NEW more \in Seq(Envelopes), NEW r0 \in RunStates, NEW skip \in Nat
    PROVE  Emit(r0, more, skip).out \in Seq(Envelopes)
BY EnvsStamped DEF Translated

LEMMA EmitShown ==
    ASSUME NEW envs \in Seq(Envelopes), NEW more \in Seq(Envelopes), NEW r0 \in RunStates,
           NEW skip \in Nat
    PROVE  Shown(envs \o Emit(r0, more, skip).out) = Shown(envs \o more)
<1>1. PICK n \in Nat : n = r0.seq + skip  BY DEF RunStates
<1>2. Emit(r0, more, skip).out = Stamped(more, n)  BY <1>1 DEF Emit
<1>3. Shown(envs \o Stamped(more, n)) = Shown(envs \o more)  BY ShownStamped
<1> QED  BY <1>2, <1>3, Zenon

\* The revisions shown are no newer than the translator's.
Behind(m, r0) == \A s \in Stations : /\ m.station[s].rev \in 0..r0.revStation[s]
                                     /\ m.agent[s].rev \in 0..r0.revAgent[s]

LEMMA StepEnvsTyped ==
    ASSUME NEW s \in Stations, NEW n \in Nat
    PROVE  /\ \A type \in {"task.enqueued", "task.assigned", "task.completed", "task.failed"} :
                  Env(type, {s}, "", <<n>>) \in Envelopes
           /\ \A state \in {"dispatched", "returning"} :
                  Env("agent.updated", {s}, state, <<n>>) \in Envelopes
           /\ \A state \in {"busy", "idle"} :
                  Env("station.updated", {s}, state, <<n>>) \in Envelopes
           /\ Env("alert.raised", {s}, "warning", <<>>) \in Envelopes
<1>1. <<n>> \in Seq(Nat) /\ <<>> \in Seq(Nat) /\ {s} \in SUBSET Stations  OBVIOUS
<1>2. PICK num \in Seq(Nat) : num = <<n>>  BY <1>1
<1>3. PICK at \in SUBSET Stations : at = {s}  BY <1>1
<1>4. PICK none \in Seq(Nat) : none = <<>>  BY <1>1
<1>5. \A type \in {"task.enqueued", "task.assigned", "task.completed", "task.failed"} :
          Env(type, at, "", num) \in Envelopes
  BY EnvTyped
<1>6. \A state \in {"dispatched", "returning"} : Env("agent.updated", at, state, num) \in Envelopes
  BY EnvTyped
<1>7. \A state \in {"busy", "idle"} : Env("station.updated", at, state, num) \in Envelopes
  BY EnvTyped
<1>8. Env("alert.raised", at, "warning", none) \in Envelopes  BY EnvTyped
<1> QED  BY <1>2, <1>3, <1>4, <1>5, <1>6, <1>7, <1>8

LEMMA TickTyped ==
    ASSUME NEW num \in Seq(Nat)
    PROVE  Env("metrics.tick", {}, "", num) \in Envelopes
<1>1. {} \in SUBSET Stations  OBVIOUS
<1>2. PICK at \in SUBSET Stations : at = {}  BY <1>1
<1>3. Env("metrics.tick", at, "", num) \in Envelopes  BY EnvTyped
<1> QED  BY <1>2, <1>3

Occupied(m, s, k, ra, rv) ==
    [m EXCEPT !.tasks = @ \cup {k},
              !.agent[s] = [state |-> "dispatched", rev |-> ra],
              !.station[s] = [state |-> "busy", rev |-> rv]]
Freed(m, s, k, ra, rv, num) ==
    [m EXCEPT !.tasks = @ \ {k},
              !.agent[s] = [state |-> "returning", rev |-> ra],
              !.station[s] = [state |-> "idle", rev |-> rv],
              !.metrics = num]
Stopped(m, s, k, rv) ==
    [m EXCEPT !.tasks = @ \ {k}, !.station[s] = [state |-> "idle", rev |-> rv]]

LEMMA StartRouted ==
    ASSUME NEW m \in Models, NEW s \in Stations, NEW k \in Nat, NEW ra \in Nat, NEW rv \in Nat,
           ra > m.agent[s].rev, rv > m.station[s].rev
    PROVE  Route(Route(Route(Route(Route(m, Env("task.enqueued", {s}, "", <<k>>)),
                                   Env("task.assigned", {s}, "", <<k>>)),
                             Env("agent.updated", {s}, "dispatched", <<ra>>)),
                       Env("station.updated", {s}, "busy", <<rv>>)), Log) =
               Occupied(m, s, k, ra, rv)
<1>1. PICK e1 \in Envelopes : e1 = Env("task.enqueued", {s}, "", <<k>>)
  BY StepEnvsTyped
<1>2. PICK e2 \in Envelopes : e2 = Env("task.assigned", {s}, "", <<k>>)
  BY StepEnvsTyped
<1>3. PICK e3 \in Envelopes : e3 = Env("agent.updated", {s}, "dispatched", <<ra>>)
  BY StepEnvsTyped
<1>4. PICK e4 \in Envelopes : e4 = Env("station.updated", {s}, "busy", <<rv>>)
  BY StepEnvsTyped
<1>5. PICK e5 \in Envelopes : e5 = Log  BY SnapshotsTyped
<1>6. PICK m1 \in Models : m1 = Route(m, e1)  BY RouteTyped
<1>7. m1 = [m EXCEPT !.tasks = @ \cup {k}]
  <2>1. Route(m, Env("task.enqueued", {s}, "", <<k>>)) =
            [m EXCEPT !.tasks = @ \cup {k}]
    BY RouteTask
  <2> QED  BY <1>1, <1>6, <2>1
<1>8. /\ m1.tasks = m.tasks \cup {k} /\ m1.agent = m.agent
      /\ m1.station = m.station /\ m1.metrics = m.metrics
  BY <1>7 DEF Models, AgentAt, StationAt
<1>9. Route(m1, e2) = [m1 EXCEPT !.tasks = @ \cup {k}]  BY <1>2, RouteTask
<1>10. Route(m1, e2) = m1  BY <1>8, <1>9 DEF Models, AgentAt, StationAt
<1>11. PICK m3 \in Models : m3 = Route(m1, e3)  BY RouteTyped
<1>12. ra > m1.agent[s].rev  BY <1>8
<1>13. m3 = AgentAt(m1, s, "dispatched", ra)
  <2>1. Route(m1, Env("agent.updated", {s}, "dispatched", <<ra>>)) =
            AgentAt(m1, s, "dispatched", ra)
    BY <1>12, RouteAgent, Zenon
  <2> QED  BY <1>3, <1>11, <2>1
<1>14. /\ m3.tasks = m.tasks \cup {k} /\ m3.station = m.station /\ m3.metrics = m.metrics
       /\ m3.agent = [m.agent EXCEPT ![s] = [state |-> "dispatched", rev |-> ra]]
  BY <1>8, <1>13 DEF Models, AgentAt, StationAt
<1>15. PICK m4 \in Models : m4 = Route(m3, e4)  BY RouteTyped
<1>16. rv > m3.station[s].rev  BY <1>14
<1>17. m4 = StationAt(m3, s, "busy", rv)
  <2>1. Route(m3, Env("station.updated", {s}, "busy", <<rv>>)) =
            StationAt(m3, s, "busy", rv)
    BY <1>16, RouteStation, Zenon
  <2> QED  BY <1>4, <1>15, <2>1
<1>18. Route(m4, e5) = m4  BY <1>5, RouteNothing
<1>19. m4 = Occupied(m, s, k, ra, rv)
  BY <1>14, <1>17 DEF Models, AgentAt, StationAt, Occupied, Freed, Stopped
<1> QED  BY <1>1, <1>2, <1>3, <1>4, <1>5, <1>6, <1>10, <1>11, <1>15, <1>18, <1>19, Zenon

LEMMA CompleteRouted ==
    ASSUME NEW m \in Models, NEW s \in Stations, NEW k \in Nat, NEW ra \in Nat, NEW rv \in Nat,
           NEW num \in Seq(Nat),
           ra > m.agent[s].rev, rv > m.station[s].rev
    PROVE  Route(Route(Route(Route(Route(m, Env("task.completed", {s}, "", <<k>>)),
                                   Env("agent.updated", {s}, "returning", <<ra>>)),
                             Env("station.updated", {s}, "idle", <<rv>>)),
                       Env("metrics.tick", {}, "", num)), Log) =
               Freed(m, s, k, ra, rv, num)
<1>1. PICK e1 \in Envelopes : e1 = Env("task.completed", {s}, "", <<k>>)
  BY StepEnvsTyped
<1>2. PICK e2 \in Envelopes : e2 = Env("agent.updated", {s}, "returning", <<ra>>)
  BY StepEnvsTyped
<1>3. PICK e3 \in Envelopes : e3 = Env("station.updated", {s}, "idle", <<rv>>)
  BY StepEnvsTyped
<1>4. PICK e4 \in Envelopes : e4 = Env("metrics.tick", {}, "", num)
  BY TickTyped
<1>5. PICK e5 \in Envelopes : e5 = Log  BY SnapshotsTyped
<1>6. PICK m1 \in Models : m1 = Route(m, e1)  BY RouteTyped
<1>7. m1 = [m EXCEPT !.tasks = @ \ {k}]
  <2>1. Route(m, Env("task.completed", {s}, "", <<k>>)) =
            [m EXCEPT !.tasks = @ \ {k}]
    BY RouteTaskOver
  <2> QED  BY <1>1, <1>6, <2>1
<1>8. ra > m1.agent[s].rev  BY <1>7 DEF Models, AgentAt, StationAt
<1>9. PICK m2 \in Models : m2 = Route(m1, e2)  BY RouteTyped
<1>10. m2 = AgentAt(m1, s, "returning", ra)
  <2>1. Route(m1, Env("agent.updated", {s}, "returning", <<ra>>)) =
            AgentAt(m1, s, "returning", ra)
    BY <1>8, RouteAgent, Zenon
  <2> QED  BY <1>2, <1>9, <2>1
<1>11. rv > m2.station[s].rev  BY <1>7, <1>10 DEF Models, AgentAt, StationAt
<1>12. PICK m3 \in Models : m3 = Route(m2, e3)  BY RouteTyped
<1>13. m3 = StationAt(m2, s, "idle", rv)
  <2>1. Route(m2, Env("station.updated", {s}, "idle", <<rv>>)) =
            StationAt(m2, s, "idle", rv)
    BY <1>11, RouteStation, Zenon
  <2> QED  BY <1>3, <1>12, <2>1
<1>14. PICK m4 \in Models : m4 = Route(m3, e4)  BY RouteTyped
<1>15. m4 = [m3 EXCEPT !.metrics = num]
  <2>1. Route(m3, Env("metrics.tick", {}, "", num)) =
            [m3 EXCEPT !.metrics = num]
    BY RouteTick
  <2> QED  BY <1>4, <1>14, <2>1
<1>16. Route(m4, e5) = m4  BY <1>5, RouteNothing
<1>17. m4 = Freed(m, s, k, ra, rv, num)
  BY <1>7, <1>10, <1>13, <1>15 DEF Models, AgentAt, StationAt, Occupied, Freed, Stopped
<1> QED  BY <1>1, <1>2, <1>3, <1>4, <1>5, <1>6, <1>9, <1>12, <1>14, <1>16, <1>17, Zenon

LEMMA FailedRouted ==
    ASSUME NEW m \in Models, NEW s \in Stations, NEW k \in Nat, NEW rv \in Nat,
           rv > m.station[s].rev
    PROVE  Route(Route(Route(Route(m, Env("task.failed", {s}, "", <<k>>)),
                             Env("alert.raised", {s}, "warning", <<>>)),
                       Env("station.updated", {s}, "idle", <<rv>>)), Log) =
               Stopped(m, s, k, rv)
<1>1. PICK e1 \in Envelopes : e1 = Env("task.failed", {s}, "", <<k>>)
  BY StepEnvsTyped
<1>2. PICK e3 \in Envelopes : e3 = Env("station.updated", {s}, "idle", <<rv>>)
  BY StepEnvsTyped
<1>3. PICK m1 \in Models : m1 = Route(m, e1)  BY RouteTyped
<1>4. m1 = [m EXCEPT !.tasks = @ \ {k}]
  <2>1. Route(m, Env("task.failed", {s}, "", <<k>>)) =
            [m EXCEPT !.tasks = @ \ {k}]
    BY RouteTaskOver
  <2> QED  BY <1>1, <1>3, <2>1
<1>5. Route(m1, Env("alert.raised", {s}, "warning", <<>>)) = m1  BY RouteNothing
<1>6. rv > m1.station[s].rev  BY <1>4 DEF Models, AgentAt, StationAt
<1>7. PICK m3 \in Models : m3 = Route(m1, e3)  BY RouteTyped
<1>8. m3 = StationAt(m1, s, "idle", rv)
  <2>1. Route(m1, Env("station.updated", {s}, "idle", <<rv>>)) =
            StationAt(m1, s, "idle", rv)
    BY <1>6, RouteStation, Zenon
  <2> QED  BY <1>2, <1>7, <2>1
<1>9. Route(m3, Log) = m3  BY RouteNothing
<1>10. m3 = Stopped(m, s, k, rv)
  BY <1>4, <1>8 DEF Models, AgentAt, StationAt, Occupied, Freed, Stopped
<1> QED  BY <1>1, <1>2, <1>3, <1>5, <1>7, <1>9, <1>10, Zenon

-----------------------------------------------------------------------------
(* What a line makes of what is shown and of the RunState                  *)

\* Nothing of the RunState changes that an envelope's contents depend on.
Keeps(r, r2) ==
    /\ r2 \in RunStates /\ r2.seq >= r.seq
    /\ r2.taskOf = r.taskOf /\ r2.revAgent = r.revAgent /\ r2.revStation = r.revStation
    /\ r2.completed = r.completed /\ r2.failed = r.failed

Starts(m, r, s, m2, r2) ==
    /\ m2.tasks = m.tasks \cup {r.seq + 1} /\ m2.metrics = m.metrics
    /\ m2.agent = [m.agent EXCEPT ![s] = [state |-> "dispatched", rev |-> r.revAgent[s] + 1]]
    /\ m2.station = [m.station EXCEPT ![s] = [state |-> "busy", rev |-> r.revStation[s] + 1]]
    /\ r2 \in RunStates /\ r2.seq >= r.seq + 1
    /\ r2.taskOf = [r.taskOf EXCEPT ![s] = r.seq + 1]
    /\ r2.revAgent = [r.revAgent EXCEPT ![s] = r.revAgent[s] + 1]
    /\ r2.revStation = [r.revStation EXCEPT ![s] = r.revStation[s] + 1]
    /\ r2.completed = r.completed /\ r2.failed = r.failed

Completes(m, r, s, m2, r2) ==
    /\ m2.tasks = m.tasks \ {r.taskOf[s]} /\ m2.metrics = <<r.completed + 1, r.failed>>
    /\ m2.agent = [m.agent EXCEPT ![s] = [state |-> "returning", rev |-> r.revAgent[s] + 1]]
    /\ m2.station = [m.station EXCEPT ![s] = [state |-> "idle", rev |-> r.revStation[s] + 1]]
    /\ r2 \in RunStates /\ r2.seq >= r.seq
    /\ r2.taskOf = r.taskOf
    /\ r2.revAgent = [r.revAgent EXCEPT ![s] = r.revAgent[s] + 1]
    /\ r2.revStation = [r.revStation EXCEPT ![s] = r.revStation[s] + 1]
    /\ r2.completed = r.completed + 1 /\ r2.failed = r.failed

Fails(m, r, s, m2, r2) ==
    /\ m2.tasks = m.tasks \ {r.taskOf[s]} /\ m2.metrics = m.metrics
    /\ m2.agent = m.agent
    /\ m2.station = [m.station EXCEPT ![s] = [state |-> "idle", rev |-> r.revStation[s] + 1]]
    /\ r2 \in RunStates /\ r2.seq >= r.seq
    /\ r2.taskOf = r.taskOf /\ r2.revAgent = r.revAgent
    /\ r2.revStation = [r.revStation EXCEPT ![s] = r.revStation[s] + 1]
    /\ r2.completed = r.completed /\ r2.failed = r.failed + 1

Ticks(m, r, m2, r2) ==
    /\ m2.tasks = m.tasks /\ m2.metrics = <<r.completed, r.failed>>
    /\ m2.agent = m.agent /\ m2.station = m.station
    /\ Keeps(r, r2)

\* What emitting some envelopes makes of the RunState.
LEMMA EmitKeeps ==
    ASSUME NEW more \in Seq(Envelopes), NEW r0 \in RunStates, NEW skip \in Nat
    PROVE  /\ Keeps(r0, Emit(r0, more, skip).rs)
           /\ Emit(r0, more, skip).rs.seq >= r0.seq + skip
           /\ Emit(r0, more, skip).rs.snapshotSent = r0.snapshotSent
<1>1. PICK n \in Nat : n = r0.seq + skip + Len(more)  BY DEF RunStates
<1>2. PICK r2 : r2 = Emit(r0, more, skip).rs  OBVIOUS
<1>3. r2 = [r0 EXCEPT !.seq = n]  BY <1>1, <1>2 DEF Emit
<1>4. n >= r0.seq + skip /\ n >= r0.seq  BY <1>1 DEF RunStates
<1>5. Keeps(r0, r2) /\ r2.seq >= r0.seq + skip /\ r2.snapshotSent = r0.snapshotSent
  BY <1>3, <1>4 DEF RunStates, Keeps
<1> QED  BY <1>2, <1>5

LEMMA StartShown ==
    ASSUME NEW envs \in Seq(Envelopes), NEW r \in RunStates, NEW s \in Stations,
           Behind(Shown(envs), r)
    PROVE  Starts(Shown(envs), r, s, Shown(envs \o TranslateStart(r, {s}, s).out),
                  TranslateStart(r, {s}, s).rs)
<1> DEFINE task == r.seq + 1
           now == [r EXCEPT !.taskOf[s] = task, !.revAgent[s] = @ + 1, !.revStation[s] = @ + 1]
           more == <<Env("task.enqueued", {s}, "", <<task>>),
                     Env("task.assigned", {s}, "", <<task>>),
                     Env("agent.updated", {s}, "dispatched", <<now.revAgent[s]>>),
                     Env("station.updated", {s}, "busy", <<now.revStation[s]>>), Log>>
<1>1. task \in Nat /\ r.revAgent[s] + 1 \in Nat /\ r.revStation[s] + 1 \in Nat
  BY DEF RunStates
<1>2. now \in RunStates  BY <1>1 DEF RunStates
<1>3. /\ now.revAgent = [r.revAgent EXCEPT ![s] = r.revAgent[s] + 1]
      /\ now.revStation = [r.revStation EXCEPT ![s] = r.revStation[s] + 1]
      /\ now.taskOf = [r.taskOf EXCEPT ![s] = task]
      /\ now.completed = r.completed /\ now.failed = r.failed /\ now.seq = r.seq
  BY <1>1 DEF RunStates
<1> HIDE DEF now
<1>4. now.revAgent[s] = r.revAgent[s] + 1 /\ now.revStation[s] = r.revStation[s] + 1
  BY <1>3 DEF RunStates
<1>5. PICK ra \in Nat : ra = now.revAgent[s]  BY <1>1, <1>4
<1>6. PICK rv \in Nat : rv = now.revStation[s]  BY <1>1, <1>4
<1>7. PICK k \in Nat : k = task  BY <1>1
<1> HIDE DEF task
<1>8. PICK m \in Models : m = Shown(envs)  BY ShownGrows, SnapshotsTyped
<1>9. ra > m.agent[s].rev /\ rv > m.station[s].rev
  BY <1>4, <1>5, <1>6, <1>8 DEF Behind, RunStates
<1>10. PICK e1 \in Envelopes : e1 = Env("task.enqueued", {s}, "", <<k>>)
  BY StepEnvsTyped
<1>11. PICK e2 \in Envelopes : e2 = Env("task.assigned", {s}, "", <<k>>)
  BY StepEnvsTyped
<1>12. PICK e3 \in Envelopes : e3 = Env("agent.updated", {s}, "dispatched", <<ra>>)
  BY StepEnvsTyped
<1>13. PICK e4 \in Envelopes : e4 = Env("station.updated", {s}, "busy", <<rv>>)
  BY StepEnvsTyped
<1>14. PICK e5 \in Envelopes : e5 = Log  BY SnapshotsTyped
<1>15. /\ e1 = Env("task.enqueued", {s}, "", <<task>>)
       /\ e2 = Env("task.assigned", {s}, "", <<task>>)
       /\ e3 = Env("agent.updated", {s}, "dispatched", <<now.revAgent[s]>>)
       /\ e4 = Env("station.updated", {s}, "busy", <<now.revStation[s]>>)
  BY <1>5, <1>6, <1>7, <1>10, <1>11, <1>12, <1>13
<1>16. more = <<e1, e2, e3, e4, e5>>  BY <1>14, <1>15, Zenon
<1>17. TranslateStart(r, {s}, s) = Emit(now, more, 1)
  BY DEF TranslateStart, now, task
<1> HIDE DEF more
<1>18. PICK list \in Seq(Envelopes) : list = more  BY <1>16, ListsTyped
<1>19. Shown(envs \o list) = Route(Route(Route(Route(Route(m, e1), e2), e3), e4), e5)
  <2>1. Shown(envs \o <<e1, e2, e3, e4, e5>>) =
            Route(Route(Route(Route(Route(Shown(envs), e1), e2), e3), e4), e5)
    BY ShownFive
  <2> QED  BY <1>8, <1>16, <1>18, <2>1, Zenon
<1>20. Route(Route(Route(Route(Route(m, e1), e2), e3), e4), e5) =
           Occupied(m, s, k, ra, rv)
  <2>1. Route(Route(Route(Route(Route(m, Env("task.enqueued", {s}, "", <<k>>)),
                                Env("task.assigned", {s}, "", <<k>>)),
                          Env("agent.updated", {s}, "dispatched", <<ra>>)),
                    Env("station.updated", {s}, "busy", <<rv>>)), Log) =
            Occupied(m, s, k, ra, rv)
    BY <1>9, StartRouted, ZenonT(60)
  <2> QED  BY <1>10, <1>11, <1>12, <1>13, <1>14, <2>1, Zenon
<1>21. PICK n0 \in RunStates : n0 = now  BY <1>2
<1>22. PICK t : t = Emit(n0, list, 1)  OBVIOUS
<1>23. Shown(envs \o t.out) = Shown(envs \o list) /\ Keeps(n0, t.rs) /\ t.rs.seq >= n0.seq + 1
  <2>1. Shown(envs \o Emit(n0, list, 1).out) = Shown(envs \o list)  BY EmitShown
  <2>2. Keeps(n0, Emit(n0, list, 1).rs) /\ Emit(n0, list, 1).rs.seq >= n0.seq + 1
    BY EmitKeeps
  <2> QED  BY <1>22, <2>1, <2>2, Zenon
<1>24. PICK m2 : m2 = Shown(envs \o t.out)  OBVIOUS
<1>25. m2 = Occupied(m, s, k, ra, rv)
  BY <1>19, <1>20, <1>23, <1>24, Zenon
<1>26. /\ m2.tasks = m.tasks \cup {k} /\ m2.metrics = m.metrics
       /\ m2.agent = [m.agent EXCEPT ![s] = [state |-> "dispatched", rev |-> ra]]
       /\ m2.station = [m.station EXCEPT ![s] = [state |-> "busy", rev |-> rv]]
  BY <1>25 DEF Models, Occupied
<1>27. Starts(m, r, s, m2, t.rs)
  BY <1>3, <1>4, <1>5, <1>6, <1>7, <1>21, <1>23, <1>26 DEF Starts, Keeps, task
<1> QED  BY <1>8, <1>17, <1>18, <1>21, <1>22, <1>24, <1>27, Zenon

LEMMA CompleteShown ==
    ASSUME NEW envs \in Seq(Envelopes), NEW r \in RunStates, NEW s \in Stations,
           Behind(Shown(envs), r)
    PROVE  Completes(Shown(envs), r, s, Shown(envs \o TranslateComplete(r, {s}, s).out),
                     TranslateComplete(r, {s}, s).rs)
<1> DEFINE now == [r EXCEPT !.completed = @ + 1, !.revAgent[s] = @ + 1, !.revStation[s] = @ + 1]
           more == <<Env("task.completed", {s}, "", <<r.taskOf[s]>>),
                     Env("agent.updated", {s}, "returning", <<now.revAgent[s]>>),
                     Env("station.updated", {s}, "idle", <<now.revStation[s]>>),
                     Env("metrics.tick", {}, "", <<now.completed, now.failed>>), Log>>
<1>1. /\ r.revAgent[s] + 1 \in Nat /\ r.revStation[s] + 1 \in Nat /\ r.taskOf[s] \in Nat
      /\ r.completed + 1 \in Nat /\ r.failed \in Nat
  BY DEF RunStates
<1>2. now \in RunStates  BY <1>1 DEF RunStates
<1>3. /\ now.revAgent = [r.revAgent EXCEPT ![s] = r.revAgent[s] + 1]
      /\ now.revStation = [r.revStation EXCEPT ![s] = r.revStation[s] + 1]
      /\ now.taskOf = r.taskOf
      /\ now.completed = r.completed + 1 /\ now.failed = r.failed /\ now.seq = r.seq
  BY <1>1 DEF RunStates
<1> HIDE DEF now
<1>4. now.revAgent[s] = r.revAgent[s] + 1 /\ now.revStation[s] = r.revStation[s] + 1
  BY <1>3 DEF RunStates
<1>5. PICK ra \in Nat : ra = now.revAgent[s]  BY <1>1, <1>4
<1>6. PICK rv \in Nat : rv = now.revStation[s]  BY <1>1, <1>4
<1>7. PICK k \in Nat : k = r.taskOf[s]  BY <1>1
<1>7a. <<now.completed, now.failed>> \in Seq(Nat)  BY <1>1, <1>3
<1>7b. PICK num \in Seq(Nat) : num = <<now.completed, now.failed>>  BY <1>7a
<1>8. PICK m \in Models : m = Shown(envs)  BY ShownGrows, SnapshotsTyped
<1>9. ra > m.agent[s].rev /\ rv > m.station[s].rev
  BY <1>4, <1>5, <1>6, <1>8 DEF Behind, RunStates
<1>10. PICK e1 \in Envelopes : e1 = Env("task.completed", {s}, "", <<k>>)
  BY StepEnvsTyped
<1>11. PICK e2 \in Envelopes : e2 = Env("agent.updated", {s}, "returning", <<ra>>)
  BY StepEnvsTyped
<1>12. PICK e3 \in Envelopes : e3 = Env("station.updated", {s}, "idle", <<rv>>)
  BY StepEnvsTyped
<1>13. PICK e4 \in Envelopes : e4 = Env("metrics.tick", {}, "", num)
  BY TickTyped
<1>14. PICK e5 \in Envelopes : e5 = Log  BY SnapshotsTyped
<1>15. /\ e1 = Env("task.completed", {s}, "", <<r.taskOf[s]>>)
       /\ e2 = Env("agent.updated", {s}, "returning", <<now.revAgent[s]>>)
       /\ e3 = Env("station.updated", {s}, "idle", <<now.revStation[s]>>)
       /\ e4 = Env("metrics.tick", {}, "", <<now.completed, now.failed>>)
  BY <1>5, <1>6, <1>7, <1>7b, <1>10, <1>11, <1>12, <1>13
<1>16. more = <<e1, e2, e3, e4, e5>>  BY <1>14, <1>15, Zenon
<1>17. TranslateComplete(r, {s}, s) = Emit(now, more, 0)
  BY DEF TranslateComplete, now
<1> HIDE DEF more
<1>18. PICK list \in Seq(Envelopes) : list = more  BY <1>16, ListsTyped
<1>19. Shown(envs \o list) = Route(Route(Route(Route(Route(m, e1), e2), e3), e4), e5)
  <2>1. Shown(envs \o <<e1, e2, e3, e4, e5>>) =
            Route(Route(Route(Route(Route(Shown(envs), e1), e2), e3), e4), e5)
    BY ShownFive
  <2> QED  BY <1>8, <1>16, <1>18, <2>1, Zenon
<1>20. Route(Route(Route(Route(Route(m, e1), e2), e3), e4), e5) = Freed(m, s, k, ra, rv, num)
  <2>1. Route(Route(Route(Route(Route(m, Env("task.completed", {s}, "", <<k>>)),
                                Env("agent.updated", {s}, "returning", <<ra>>)),
                          Env("station.updated", {s}, "idle", <<rv>>)),
                    Env("metrics.tick", {}, "", num)), Log) = Freed(m, s, k, ra, rv, num)
    BY <1>9, CompleteRouted, ZenonT(60)
  <2> QED  BY <1>10, <1>11, <1>12, <1>13, <1>14, <2>1, Zenon
<1>21. PICK n0 \in RunStates : n0 = now  BY <1>2
<1>22. PICK t : t = Emit(n0, list, 0)  OBVIOUS
<1>23. Shown(envs \o t.out) = Shown(envs \o list) /\ Keeps(n0, t.rs)
  <2>1. Shown(envs \o Emit(n0, list, 0).out) = Shown(envs \o list)  BY EmitShown
  <2>2. Keeps(n0, Emit(n0, list, 0).rs)  BY EmitKeeps
  <2> QED  BY <1>22, <2>1, <2>2, Zenon
<1>24. PICK m2 : m2 = Shown(envs \o t.out)  OBVIOUS
<1>25. m2 = Freed(m, s, k, ra, rv, num)
  BY <1>19, <1>20, <1>23, <1>24, Zenon
<1>26. /\ m2.tasks = m.tasks \ {k} /\ m2.metrics = num
       /\ m2.agent = [m.agent EXCEPT ![s] = [state |-> "returning", rev |-> ra]]
       /\ m2.station = [m.station EXCEPT ![s] = [state |-> "idle", rev |-> rv]]
  BY <1>25 DEF Models, Freed
<1>27. num = <<r.completed + 1, r.failed>>  BY <1>3, <1>7b
<1>28. Completes(m, r, s, m2, t.rs)
  BY <1>3, <1>4, <1>5, <1>6, <1>7, <1>21, <1>23, <1>26, <1>27 DEF Completes, Keeps
<1> QED  BY <1>8, <1>17, <1>18, <1>21, <1>22, <1>24, <1>28, Zenon

LEMMA FailedShown ==
    ASSUME NEW envs \in Seq(Envelopes), NEW r \in RunStates, NEW s \in Stations,
           Behind(Shown(envs), r)
    PROVE  Fails(Shown(envs), r, s, Shown(envs \o TranslateFailed(r, {s}, s).out),
                 TranslateFailed(r, {s}, s).rs)
<1> DEFINE now == [r EXCEPT !.failed = @ + 1, !.revStation[s] = @ + 1]
           ended == <<Env("task.failed", {s}, "", <<r.taskOf[s]>>)>>
           more == <<Env("alert.raised", {s}, "warning", <<>>),
                     Env("station.updated", {s}, "idle", <<now.revStation[s]>>), Log>>
<1>1. /\ r.revStation[s] + 1 \in Nat /\ r.taskOf[s] \in Nat /\ r.failed + 1 \in Nat
  BY DEF RunStates
<1>2. now \in RunStates  BY <1>1 DEF RunStates
<1>3. /\ now.revStation = [r.revStation EXCEPT ![s] = r.revStation[s] + 1]
      /\ now.revAgent = r.revAgent /\ now.taskOf = r.taskOf
      /\ now.completed = r.completed /\ now.failed = r.failed + 1 /\ now.seq = r.seq
  BY <1>1 DEF RunStates
<1> HIDE DEF now
<1>4. now.revStation[s] = r.revStation[s] + 1  BY <1>3 DEF RunStates
<1>5. PICK rv \in Nat : rv = now.revStation[s]  BY <1>1, <1>4
<1>6. PICK k \in Nat : k = r.taskOf[s]  BY <1>1
<1>7. PICK m \in Models : m = Shown(envs)  BY ShownGrows, SnapshotsTyped
<1>8. rv > m.station[s].rev  BY <1>4, <1>5, <1>7 DEF Behind, RunStates
<1>9. PICK e1 \in Envelopes : e1 = Env("task.failed", {s}, "", <<k>>)
  BY StepEnvsTyped
<1>10. PICK e2 \in Envelopes : e2 = Env("alert.raised", {s}, "warning", <<>>)
  BY StepEnvsTyped
<1>11. PICK e3 \in Envelopes : e3 = Env("station.updated", {s}, "idle", <<rv>>)
  BY StepEnvsTyped
<1>12. PICK e4 \in Envelopes : e4 = Log  BY SnapshotsTyped
<1>13. /\ e1 = Env("task.failed", {s}, "", <<r.taskOf[s]>>)
       /\ e3 = Env("station.updated", {s}, "idle", <<now.revStation[s]>>)
  BY <1>5, <1>6, <1>9, <1>11
<1>14. ended = <<e1>> /\ more = <<e2, e3, e4>>  BY <1>10, <1>12, <1>13, Zenon
<1> HIDE DEF ended, more
<1>15. PICK list1 \in Seq(Envelopes) : list1 = ended  BY <1>14, ListsTyped
<1>16. PICK list2 \in Seq(Envelopes) : list2 = more  BY <1>14, ListsTyped
<1>17. PICK n0 \in RunStates : n0 = now  BY <1>2
<1>18. PICK first : first = Emit(n0, list1, 0)  OBVIOUS
<1>19. Keeps(n0, first.rs) /\ first.out \in Seq(Envelopes)
       /\ Shown(envs \o first.out) = Shown(envs \o list1)
  <2>1. Keeps(n0, Emit(n0, list1, 0).rs)  BY EmitKeeps
  <2>2. Emit(n0, list1, 0).out \in Seq(Envelopes)  BY EmitOut
  <2>3. Shown(envs \o Emit(n0, list1, 0).out) = Shown(envs \o list1)  BY EmitShown
  <2> QED  BY <1>18, <2>1, <2>2, <2>3, Zenon
<1>20. PICK n1 \in RunStates : n1 = first.rs  BY <1>19 DEF Keeps
<1>21. PICK rest : rest = Emit(n1, list2, 1)  OBVIOUS
<1>22. TranslateFailed(r, {s}, s) = [out |-> first.out \o rest.out, rs |-> rest.rs]
  BY <1>15, <1>16, <1>17, <1>18, <1>20, <1>21, Zenon DEF TranslateFailed, now, ended, more
<1>23. PICK out1 \in Seq(Envelopes) : out1 = first.out  BY <1>19
<1>24. envs \o out1 \in Seq(Envelopes)  OBVIOUS
<1>25. PICK envs1 \in Seq(Envelopes) : envs1 = envs \o out1  BY <1>24
<1>26. Keeps(n1, rest.rs) /\ rest.out \in Seq(Envelopes)
       /\ Shown(envs1 \o rest.out) = Shown(envs1 \o list2)
  <2>1. Keeps(n1, Emit(n1, list2, 1).rs)  BY EmitKeeps
  <2>2. Emit(n1, list2, 1).out \in Seq(Envelopes)  BY EmitOut
  <2>3. Shown(envs1 \o Emit(n1, list2, 1).out) = Shown(envs1 \o list2)  BY EmitShown
  <2> QED  BY <1>21, <2>1, <2>2, <2>3, Zenon
<1>27. PICK out2 \in Seq(Envelopes) : out2 = rest.out  BY <1>26
<1>28. envs \o (out1 \o out2) = (envs \o out1) \o out2  OBVIOUS
<1>29. Shown(envs1) = Route(m, e1)
  <2>1. Shown(envs \o <<e1>>) = Route(Shown(envs), e1)  BY ShownOne
  <2> QED  BY <1>7, <1>14, <1>15, <1>19, <1>23, <1>25, <2>1, Zenon
<1>30. Shown(envs1 \o out2) = Route(Route(Route(Route(m, e1), e2), e3), e4)
  <2>1. Shown(envs1 \o <<e2, e3, e4>>) = Route(Route(Route(Shown(envs1), e2), e3), e4)
    BY ShownThree
  <2> QED  BY <1>14, <1>16, <1>26, <1>27, <1>29, <2>1, Zenon
<1>31. Route(Route(Route(Route(m, e1), e2), e3), e4) = Stopped(m, s, k, rv)
  <2>1. Route(Route(Route(Route(m, Env("task.failed", {s}, "", <<k>>)),
                          Env("alert.raised", {s}, "warning", <<>>)),
                    Env("station.updated", {s}, "idle", <<rv>>)), Log) = Stopped(m, s, k, rv)
    BY <1>8, FailedRouted, ZenonT(60)
  <2> QED  BY <1>9, <1>10, <1>11, <1>12, <2>1, Zenon
<1>32. PICK m2 : m2 = Stopped(m, s, k, rv)  OBVIOUS
<1>33. /\ m2.tasks = m.tasks \ {k} /\ m2.metrics = m.metrics /\ m2.agent = m.agent
       /\ m2.station = [m.station EXCEPT ![s] = [state |-> "idle", rev |-> rv]]
  BY <1>32 DEF Models, Stopped
<1>34. PICK r2 : r2 = rest.rs  OBVIOUS
<1>35. /\ r2 \in RunStates /\ r2.seq >= r.seq
       /\ r2.taskOf = r.taskOf /\ r2.revAgent = r.revAgent /\ r2.revStation = now.revStation
       /\ r2.completed = r.completed /\ r2.failed = r.failed + 1
  <2>1. Keeps(n1, r2) /\ Keeps(n0, n1)  BY <1>19, <1>20, <1>26, <1>34, Zenon
  <2>2. r2.seq >= n1.seq /\ n1.seq >= n0.seq /\ r2 \in RunStates /\ n0.seq = r.seq
    BY <2>1, <1>3, <1>17 DEF Keeps
  <2>3. r2.seq \in Nat /\ n1.seq \in Nat /\ r.seq \in Nat  BY <2>2 DEF RunStates
  <2>4. r2.seq >= r.seq  BY <2>2, <2>3
  <2> QED  BY <2>1, <2>2, <2>4, <1>3, <1>17 DEF Keeps
<1>36. Fails(m, r, s, m2, r2)
  BY <1>3, <1>4, <1>5, <1>6, <1>33, <1>35 DEF Fails
<1>37. TranslateFailed(r, {s}, s).rs = r2 /\ TranslateFailed(r, {s}, s).out = out1 \o out2
  <2>1. PICK t : t = TranslateFailed(r, {s}, s)  OBVIOUS
  <2>2. t = [out |-> first.out \o rest.out, rs |-> rest.rs]  BY <2>1, <1>22, Zenon
  <2>3. t.rs = rest.rs /\ t.out = first.out \o rest.out  BY <2>2
  <2> QED  BY <2>1, <2>3, <1>23, <1>27, <1>34, Zenon
<1>38. Shown(envs \o (out1 \o out2)) = m2
  BY <1>25, <1>28, <1>30, <1>31, <1>32, Zenon
<1> QED  BY <1>7, <1>36, <1>37, <1>38, Zenon

\* What the next line makes of what is shown, and of the RunState.
Effect(line, m, r, m2, r2) ==
    \/ \E s \in Stations :
        /\ line.at = {s}
        /\ \/ line.event = "step.start" /\ Starts(m, r, s, m2, r2)
           \/ line.event = "step.complete" /\ Completes(m, r, s, m2, r2)
           \/ line.event = "step.failed" /\ Fails(m, r, s, m2, r2)
           \/ line.event \in {"retry", "critic.review"} /\ m2 = m /\ Keeps(r, r2)
    \/ /\ line.at = {}
       /\ \/ line.event = "run.start" /\ m2 = Hydrated /\ Keeps(r, r2)
          \/ line.event = "plan.created" /\ m2 = (IF r.snapshotSent THEN m ELSE Hydrated)
             /\ Keeps(r, r2)
          \/ line.event = "run.complete" /\ Ticks(m, r, m2, r2)
          \/ line.event = "junk" /\ m2 = m /\ Keeps(r, r2)

LEMMA StepShown ==
    ASSUME NEW envs \in Seq(Envelopes), NEW r \in RunStates, NEW line \in Lines,
           line.event \in StepEvents, Behind(Shown(envs), r)
    PROVE  Effect(line, Shown(envs), r, Shown(envs \o Translate(line, r).out),
                  Translate(line, r).rs)
<1>1. PICK s \in Stations : line.at = {s}
  BY LineKinds DEF StepEvents, RunEvents
<1>2. (CHOOSE x \in line.at : TRUE) = s  BY <1>1
<1>3. PICK m \in Models : m = Shown(envs)  BY ShownGrows, SnapshotsTyped
<1>4. PICK e5 \in Envelopes : e5 = Log  BY SnapshotsTyped
<1>5. Route(m, e5) = m  BY <1>4, RouteNothing
<1>6. CASE line.event = "step.start"
  <2>1. Translate(line, r) = TranslateStart(r, {s}, s)
    BY <1>1, <1>2, <1>6 DEF Translate
  <2>2. Starts(Shown(envs), r, s, Shown(envs \o TranslateStart(r, {s}, s).out),
               TranslateStart(r, {s}, s).rs)
    BY StartShown
  <2> QED  BY <1>1, <1>6, <2>1, <2>2, Zenon DEF Effect
<1>7. CASE line.event = "step.complete"
  <2>1. Translate(line, r) = TranslateComplete(r, {s}, s)
    BY <1>1, <1>2, <1>7 DEF Translate
  <2>2. Completes(Shown(envs), r, s, Shown(envs \o TranslateComplete(r, {s}, s).out),
                  TranslateComplete(r, {s}, s).rs)
    BY CompleteShown
  <2> QED  BY <1>1, <1>7, <2>1, <2>2, Zenon DEF Effect
<1>8. CASE line.event = "step.failed"
  <2>1. Translate(line, r) = TranslateFailed(r, {s}, s)
    BY <1>1, <1>2, <1>8 DEF Translate
  <2>2. Fails(Shown(envs), r, s, Shown(envs \o TranslateFailed(r, {s}, s).out),
              TranslateFailed(r, {s}, s).rs)
    BY FailedShown
  <2> QED  BY <1>1, <1>8, <2>1, <2>2, Zenon DEF Effect
<1>9. CASE line.event = "retry"
  <2>1. PICK e \in Envelopes : e = Env("alert.raised", {s}, "warning", <<>>)
    BY StepEnvsTyped
  <2>2. <<e, e5>> \in Seq(Envelopes)  OBVIOUS
  <2>3. PICK list \in Seq(Envelopes) : list = <<e, e5>>  BY <2>2
  <2>4. Translate(line, r) = Emit(r, list, 1)
    <3>1. Translate(line, r) = Emit(r, <<Env("alert.raised", line.at, "warning", <<>>), Log>>, 1)
      BY <1>9 DEF Translate
    <3> QED  BY <1>1, <1>4, <2>1, <2>3, <3>1, Zenon
  <2>5. Shown(envs \o Emit(r, list, 1).out) = Shown(envs \o list)  BY EmitShown
  <2>6. Keeps(r, Emit(r, list, 1).rs)  BY EmitKeeps
  <2>7. Shown(envs \o <<e, e5>>) = Route(Route(Shown(envs), e), e5)  BY ShownTwo
  <2>8. Route(m, Env("alert.raised", {s}, "warning", <<>>)) = m  BY RouteNothing
  <2>9. Shown(envs \o list) = Shown(envs)  BY <1>3, <1>5, <2>1, <2>3, <2>7, <2>8, Zenon
  <2> QED  BY <1>1, <1>9, <2>4, <2>5, <2>6, <2>9, Zenon DEF Effect
<1>10. CASE line.event = "critic.review"
  <2>1. PICK list \in Seq(Envelopes) : list = <<e5>>  BY ListsTyped
  <2>2. Translate(line, r) = Emit(r, list, 0)
    <3>1. Translate(line, r) = Emit(r, <<Log>>, 0)  BY <1>10 DEF Translate
    <3> QED  BY <1>4, <2>1, <3>1, Zenon
  <2>3. Shown(envs \o Emit(r, list, 0).out) = Shown(envs \o list)  BY EmitShown
  <2>4. Keeps(r, Emit(r, list, 0).rs)  BY EmitKeeps
  <2>5. Shown(envs \o <<e5>>) = Route(Shown(envs), e5)  BY ShownOne
  <2>6. Shown(envs \o list) = Shown(envs)  BY <1>3, <1>5, <2>1, <2>5, Zenon
  <2> QED  BY <1>1, <1>10, <2>2, <2>3, <2>4, <2>6, Zenon DEF Effect
<1> QED  BY <1>6, <1>7, <1>8, <1>9, <1>10 DEF StepEvents

LEMMA RunShown ==
    ASSUME NEW envs \in Seq(Envelopes), NEW r \in RunStates, NEW line \in Lines,
           line.event \in RunEvents \cup {"junk"}
    PROVE  Effect(line, Shown(envs), r, Shown(envs \o Translate(line, r).out),
                  Translate(line, r).rs)
<1>1. line.at = {}
  BY LineKinds DEF StepEvents, RunEvents
<1>2. PICK e1 \in Envelopes : e1 = Snapshot  BY SnapshotsTyped
<1>3. PICK m \in Models : m = Shown(envs)  BY ShownGrows, SnapshotsTyped
<1>4. PICK e5 \in Envelopes : e5 = Log  BY SnapshotsTyped
<1>5. Route(m, e5) = m /\ Route(m, e1) = Hydrated  BY <1>2, <1>4, RouteNothing
<1>6. Route(Hydrated, e5) = Hydrated  BY <1>4, HydratedTyped, RouteNothing
<1>7. PICK r1 \in RunStates : r1 = [r EXCEPT !.snapshotSent = TRUE]  BY DEF RunStates
<1>8. r1.seq = r.seq /\ Keeps(r, r1)
  <2>1. /\ r1.seq = r.seq /\ r1.taskOf = r.taskOf /\ r1.revAgent = r.revAgent
        /\ r1.revStation = r.revStation /\ r1.completed = r.completed /\ r1.failed = r.failed
    BY <1>7 DEF RunStates
  <2>2. r.seq \in Nat  BY DEF RunStates
  <2>3. r1.seq >= r.seq  BY <2>1, <2>2
  <2> QED  BY <2>1, <2>3 DEF Keeps
<1>9. \A r2 : Keeps(r1, r2) => Keeps(r, r2)
  BY <1>8 DEF Keeps
<1>10. <<e1, e5>> \in Seq(Envelopes)  OBVIOUS
<1>11. PICK two \in Seq(Envelopes) : two = <<e1, e5>>  BY <1>10
<1>12. PICK one \in Seq(Envelopes) : one = <<e5>>  BY ListsTyped
<1>13. Shown(envs \o two) = Hydrated
  <2>1. Shown(envs \o <<e1, e5>>) = Route(Route(Shown(envs), e1), e5)  BY ShownTwo
  <2> QED  BY <1>3, <1>5, <1>6, <1>11, <2>1, Zenon
<1>14. Shown(envs \o one) = Shown(envs)
  <2>1. Shown(envs \o <<e5>>) = Route(Shown(envs), e5)  BY ShownOne
  <2> QED  BY <1>3, <1>5, <1>12, <2>1, Zenon
<1>15. ASSUME NEW r0 \in RunStates, NEW list \in Seq(Envelopes)
       PROVE  /\ Shown(envs \o Emit(r0, list, 0).out) = Shown(envs \o list)
              /\ Keeps(r0, Emit(r0, list, 0).rs)
  <2>1. Shown(envs \o Emit(r0, list, 0).out) = Shown(envs \o list)  BY EmitShown
  <2>2. Keeps(r0, Emit(r0, list, 0).rs)  BY EmitKeeps
  <2> QED  BY <2>1, <2>2
<1>16. CASE line.event = "run.start"
  <2>1. Translate(line, r) = Emit(r1, two, 0)
    <3>1. Translate(line, r) = Emit([r EXCEPT !.snapshotSent = TRUE], <<Snapshot, Log>>, 0)
      BY <1>16 DEF Translate
    <3> QED  BY <1>2, <1>4, <1>7, <1>11, <3>1, Zenon
  <2>2. Shown(envs \o Emit(r1, two, 0).out) = Hydrated /\ Keeps(r, Emit(r1, two, 0).rs)
    BY <1>9, <1>13, <1>15, Zenon
  <2> QED  BY <1>1, <1>16, <2>1, <2>2, Zenon DEF Effect
<1>17. CASE line.event = "plan.created"
  <2>1. PICK list \in Seq(Envelopes) : list = IF r.snapshotSent THEN one ELSE two
    OBVIOUS
  <2>2. (IF r.snapshotSent THEN <<>> ELSE <<Snapshot>>) \o <<Log>> = list
    <3>1. <<>> \o <<e5>> = <<e5>>  OBVIOUS
    <3>2. <<e1, e5>> = <<e1>> \o <<e5>>  OBVIOUS
    <3> QED  BY <1>2, <1>4, <1>11, <1>12, <2>1, <3>1, <3>2, Zenon
  <2>3. Translate(line, r) = Emit(r1, list, 0)
    <3>1. Translate(line, r) = Emit([r EXCEPT !.snapshotSent = TRUE],
                     (IF r.snapshotSent THEN <<>> ELSE <<Snapshot>>) \o <<Log>>, 0)
      BY <1>17 DEF Translate
    <3> QED  BY <1>7, <2>2, <3>1, Zenon
  <2>4. Shown(envs \o list) = IF r.snapshotSent THEN Shown(envs) ELSE Hydrated
    BY <1>13, <1>14, <2>1, Zenon
  <2>5. /\ Shown(envs \o Emit(r1, list, 0).out) = Shown(envs \o list)
        /\ Keeps(r, Emit(r1, list, 0).rs)
    BY <1>9, <1>15, Zenon
  <2> QED  BY <1>1, <1>17, <2>3, <2>4, <2>5, Zenon DEF Effect
<1>18. CASE line.event = "run.complete"
  <2>1. <<r.completed, r.failed>> \in Seq(Nat)  BY DEF RunStates
  <2>2. PICK num \in Seq(Nat) : num = <<r.completed, r.failed>>  BY <2>1
  <2>3. PICK e \in Envelopes : e = Env("metrics.tick", {}, "", num)  BY TickTyped
  <2>4. <<e, e5>> \in Seq(Envelopes)  OBVIOUS
  <2>5. PICK list \in Seq(Envelopes) : list = <<e, e5>>  BY <2>4
  <2>6. Translate(line, r) = Emit(r, list, 0)
    <3>1. Translate(line, r) =
              Emit(r, <<Env("metrics.tick", {}, "", <<r.completed, r.failed>>), Log>>, 0)
      BY <1>18 DEF Translate
    <3> QED  BY <1>4, <2>2, <2>3, <2>5, <3>1, Zenon
  <2>7. PICK m2 \in Models : m2 = Route(m, e)  BY RouteTyped
  <2>8. m2 = [m EXCEPT !.metrics = num]
    <3>1. Route(m, Env("metrics.tick", {}, "", num)) = [m EXCEPT !.metrics = num]
      BY RouteTick
    <3> QED  BY <2>3, <2>7, <3>1
  <2>9. /\ m2.tasks = m.tasks /\ m2.metrics = num
        /\ m2.agent = m.agent /\ m2.station = m.station
    BY <2>8 DEF Models
  <2>10. Shown(envs \o list) = m2
    <3>1. Shown(envs \o <<e, e5>>) = Route(Route(Shown(envs), e), e5)  BY ShownTwo
    <3>2. Route(m2, e5) = m2  BY <1>4, RouteNothing
    <3> QED  BY <1>3, <2>5, <2>7, <3>1, <3>2, Zenon
  <2>11. Keeps(r, Emit(r, list, 0).rs) /\ Shown(envs \o Emit(r, list, 0).out) = m2
    BY <1>15, <2>10, Zenon
  <2>12. Ticks(m, r, m2, Emit(r, list, 0).rs)
    BY <2>2, <2>9, <2>11, Zenon DEF Ticks
  <2> QED  BY <1>1, <1>3, <1>18, <2>6, <2>11, <2>12, Zenon DEF Effect
<1>19. CASE line.event = "junk"
  <2>1. Translate(line, r) = [out |-> <<>>, rs |-> r]  BY <1>19 DEF Translate
  <2>2. envs \o <<>> = envs  OBVIOUS
  <2>3. Keeps(r, r)  BY DEF Keeps, RunStates
  <2>4. Translate(line, r).out = <<>> /\ Translate(line, r).rs = r  BY <2>1
  <2> QED  BY <1>1, <1>19, <2>2, <2>3, <2>4, Zenon DEF Effect
<1> QED  BY <1>16, <1>17, <1>18, <1>19 DEF RunEvents

LEMMA LineShown ==
    ASSUME NEW envs \in Seq(Envelopes), NEW r \in RunStates, NEW line \in Lines,
           Behind(Shown(envs), r)
    PROVE  Effect(line, Shown(envs), r, Shown(envs \o Translate(line, r).out),
                  Translate(line, r).rs)
<1>1. line.event \in RunEvents \cup {"junk"} \/ line.event \in StepEvents  BY LineKinds
<1> QED  BY <1>1, StepShown, RunShown

-----------------------------------------------------------------------------
(* What is shown and what the log says, line by line                       *)

Busy(L, s) ==
    /\ LastOf(L, s, {"step.start"}) > Beginning(L)
    /\ LastOf(L, s, {"step.start"}) > LastOf(L, s, {"step.complete", "step.failed"})
Away(L, s) ==
    /\ LastOf(L, s, {"step.start"}) > Beginning(L)
    /\ LastOf(L, s, {"step.start"}) > LastOf(L, s, {"step.complete"})
Back(L, s) ==
    /\ LastOf(L, s, {"step.complete"}) > Beginning(L)
    /\ LastOf(L, s, {"step.complete"}) > LastOf(L, s, {"step.start"})

LEMMA BusyGrows ==
    ASSUME NEW L, NEW l, NEW M, NEW n, OneLineMore(L, l, M, n), NEW s
    PROVE  /\ l.at = {s} /\ l.event = "step.start" => Busy(M, s)
           /\ l.at = {s} /\ l.event \in {"step.complete", "step.failed"} => ~Busy(M, s)
           /\ l = RunLine("run.start") => ~Busy(M, s)
           /\ l # RunLine("run.start")
              /\ (l.at # {s} \/ l.event \notin {"step.start", "step.complete", "step.failed"}) =>
                  (Busy(M, s) <=> Busy(L, s))
<1>1. PICK b \in 0..n : b = Beginning(L)  BY BeginningGrows
<1>2. PICK start \in 0..n : start = LastOf(L, s, {"step.start"})  BY LastGrows
<1>3. PICK end \in 0..n : end = LastOf(L, s, {"step.complete", "step.failed"})  BY LastGrows
<1>4. Beginning(M) = IF l = RunLine("run.start") THEN n + 1 ELSE b
  BY <1>1, BeginningGrows
<1>5. LastOf(M, s, {"step.start"}) =
          IF l.at = {s} /\ l.event \in {"step.start"} THEN n + 1 ELSE start
  BY <1>2, LastGrows
<1>6. LastOf(M, s, {"step.complete", "step.failed"}) =
          IF l.at = {s} /\ l.event \in {"step.complete", "step.failed"} THEN n + 1 ELSE end
  BY <1>3, LastGrows
<1>7. n \in Nat  BY DEF OneLineMore
<1>8. l = RunLine("run.start") => l.event = "run.start" /\ l.at = {}  BY DEF RunLine
<1> DEFINE M1 == Beginning(M)
           M2 == LastOf(M, s, {"step.start"})
           M3 == LastOf(M, s, {"step.complete", "step.failed"})
<1>9. /\ M1 = IF l = RunLine("run.start") THEN n + 1 ELSE b
      /\ M2 = IF l.at = {s} /\ l.event = "step.start" THEN n + 1 ELSE start
      /\ M3 = IF l.at = {s} /\ l.event \in {"step.complete", "step.failed"} THEN n + 1 ELSE end
  BY <1>4, <1>5, <1>6
<1>10. Busy(M, s) <=> M2 > M1 /\ M2 > M3  BY DEF Busy
<1>11. Busy(L, s) <=> start > b /\ start > end  BY <1>1, <1>2, <1>3 DEF Busy
<1> HIDE DEF M1, M2, M3
<1> QED  BY <1>7, <1>8, <1>9, <1>10, <1>11

LEMMA AwayGrows ==
    ASSUME NEW L, NEW l, NEW M, NEW n, OneLineMore(L, l, M, n), NEW s
    PROVE  /\ l.at = {s} /\ l.event = "step.start" => Away(M, s)
           /\ l.at = {s} /\ l.event = "step.complete" => ~Away(M, s)
           /\ l = RunLine("run.start") => ~Away(M, s)
           /\ l # RunLine("run.start")
              /\ (l.at # {s} \/ l.event \notin {"step.start", "step.complete"}) =>
                  (Away(M, s) <=> Away(L, s))
<1>1. PICK b \in 0..n : b = Beginning(L)  BY BeginningGrows
<1>2. PICK start \in 0..n : start = LastOf(L, s, {"step.start"})  BY LastGrows
<1>3. PICK end \in 0..n : end = LastOf(L, s, {"step.complete"})  BY LastGrows
<1>4. Beginning(M) = IF l = RunLine("run.start") THEN n + 1 ELSE b
  BY <1>1, BeginningGrows
<1>5. LastOf(M, s, {"step.start"}) =
          IF l.at = {s} /\ l.event \in {"step.start"} THEN n + 1 ELSE start
  BY <1>2, LastGrows
<1>6. LastOf(M, s, {"step.complete"}) =
          IF l.at = {s} /\ l.event \in {"step.complete"} THEN n + 1 ELSE end
  BY <1>3, LastGrows
<1>7. n \in Nat  BY DEF OneLineMore
<1>8. l = RunLine("run.start") => l.event = "run.start" /\ l.at = {}  BY DEF RunLine
<1> DEFINE M1 == Beginning(M)
           M2 == LastOf(M, s, {"step.start"})
           M3 == LastOf(M, s, {"step.complete"})
<1>9. /\ M1 = IF l = RunLine("run.start") THEN n + 1 ELSE b
      /\ M2 = IF l.at = {s} /\ l.event = "step.start" THEN n + 1 ELSE start
      /\ M3 = IF l.at = {s} /\ l.event = "step.complete" THEN n + 1 ELSE end
  BY <1>4, <1>5, <1>6
<1>10. Away(M, s) <=> M2 > M1 /\ M2 > M3  BY DEF Away
<1>11. Away(L, s) <=> start > b /\ start > end  BY <1>1, <1>2, <1>3 DEF Away
<1> HIDE DEF M1, M2, M3
<1> QED  BY <1>7, <1>8, <1>9, <1>10, <1>11

LEMMA BackGrows ==
    ASSUME NEW L, NEW l, NEW M, NEW n, OneLineMore(L, l, M, n), NEW s
    PROVE  /\ l.at = {s} /\ l.event = "step.start" => ~Back(M, s)
           /\ l.at = {s} /\ l.event = "step.complete" => Back(M, s)
           /\ l = RunLine("run.start") => ~Back(M, s)
           /\ l # RunLine("run.start")
              /\ (l.at # {s} \/ l.event \notin {"step.start", "step.complete"}) =>
                  (Back(M, s) <=> Back(L, s))
<1>1. PICK b \in 0..n : b = Beginning(L)  BY BeginningGrows
<1>2. PICK start \in 0..n : start = LastOf(L, s, {"step.start"})  BY LastGrows
<1>3. PICK end \in 0..n : end = LastOf(L, s, {"step.complete"})  BY LastGrows
<1>4. Beginning(M) = IF l = RunLine("run.start") THEN n + 1 ELSE b
  BY <1>1, BeginningGrows
<1>5. LastOf(M, s, {"step.start"}) =
          IF l.at = {s} /\ l.event \in {"step.start"} THEN n + 1 ELSE start
  BY <1>2, LastGrows
<1>6. LastOf(M, s, {"step.complete"}) =
          IF l.at = {s} /\ l.event \in {"step.complete"} THEN n + 1 ELSE end
  BY <1>3, LastGrows
<1>7. n \in Nat  BY DEF OneLineMore
<1>8. l = RunLine("run.start") => l.event = "run.start" /\ l.at = {}  BY DEF RunLine
<1> DEFINE M1 == Beginning(M)
           M2 == LastOf(M, s, {"step.start"})
           M3 == LastOf(M, s, {"step.complete"})
<1>9. /\ M1 = IF l = RunLine("run.start") THEN n + 1 ELSE b
      /\ M2 = IF l.at = {s} /\ l.event = "step.start" THEN n + 1 ELSE start
      /\ M3 = IF l.at = {s} /\ l.event = "step.complete" THEN n + 1 ELSE end
  BY <1>4, <1>5, <1>6
<1>10. Back(M, s) <=> M3 > M1 /\ M3 > M2  BY DEF Back
<1>11. Back(L, s) <=> end > b /\ end > start  BY <1>1, <1>2, <1>3 DEF Back
<1> HIDE DEF M1, M2, M3
<1> QED  BY <1>7, <1>8, <1>9, <1>10, <1>11

\* No step and no run has been begun in the log.
Nothing(L) == \A i \in 1..Len(L) : L[i].event \notin StepEvents /\ L[i].event # "run.start"

LEMMA NothingShown ==
    ASSUME NEW L \in Seq(Lines), Nothing(L)
    PROVE  /\ \A s \in Stations : ~Busy(L, s) /\ ~Away(L, s) /\ ~Back(L, s)
           /\ Beginning(L) = 0 /\ OpenStarts(L) = {}
           /\ Count(L, "step.complete") = 0 /\ Count(L, "step.failed") = 0
           /\ \A s : LastOf(L, s, {"step.start"}) = 0
<1> DEFINE n == Len(L)
<1>1. \A i \in 1..n : L[i].event \notin {"step.start", "step.complete", "step.failed", "run.start"}
  BY DEF Nothing, StepEvents
<1>2. ASSUME NEW s, NEW events \in SUBSET {"step.start", "step.complete", "step.failed"}
      PROVE  LastOf(L, s, events) = 0
  <2>1. StepPlaces(L, s, events) = {}  BY <1>1 DEF StepPlaces
  <2>2. Top({}) = 0  BY DEF Top
  <2>3. LastOf(L, s, events) = Top(StepPlaces(L, s, events))  BY PlacesAre
  <2> QED  BY <2>1, <2>2, <2>3, Zenon
<1>3. Beginning(L) = 0
  <2>1. StartPlaces(L) = {}  BY <1>1 DEF StartPlaces, RunLine
  <2>2. Top({}) = 0  BY DEF Top
  <2>3. Beginning(L) = Top(StartPlaces(L))  BY PlacesAre
  <2> QED  BY <2>1, <2>2, <2>3, Zenon
<1>4. ASSUME NEW s
      PROVE  /\ LastOf(L, s, {"step.start"}) = 0 /\ LastOf(L, s, {"step.complete"}) = 0
             /\ LastOf(L, s, {"step.complete", "step.failed"}) = 0
  BY <1>2
<1>5. ASSUME NEW s \in Stations
      PROVE  ~Busy(L, s) /\ ~Away(L, s) /\ ~Back(L, s)
  BY <1>3, <1>4 DEF Busy, Away, Back
<1>6. OpenStarts(L) = {}
  <2>1. OpenStarts(L) = {i \in 1..n : /\ L[i].event = "step.start"
                                      /\ ~\E j \in (i + 1)..n : Closes(L, i, j)}
    BY OpenStartsAre
  <2> QED  BY <1>1, <2>1
<1>7. ASSUME NEW event \in {"step.complete", "step.failed"}
      PROVE  Count(L, event) = 0
  <2>1. EventPlaces(L, event) = {}  BY <1>1 DEF EventPlaces
  <2>2. Count(L, event) = Cardinality(EventPlaces(L, event))  BY PlacesAre
  <2> QED  BY <2>1, <2>2, FS_EmptySet
<1> QED  BY <1>3, <1>4, <1>5, <1>6, <1>7

\* What the translator is shown of a log that is translated: only a watch has not
\* sent a snapshot, until a line that starts a run or its plan.
Unsent(r, L) == r.snapshotSent \/ Nothing(L)

StationsTrue(m, r, L) ==
    \A s \in Stations : /\ m.station[s].state = IF Busy(L, s) THEN "busy" ELSE "idle"
                        /\ m.station[s].rev \in 0..r.revStation[s]
AgentsTrue(m, r, L) ==
    \A s \in Stations : /\ m.agent[s].state = IF Away(L, s) THEN "dispatched"
                                              ELSE IF Back(L, s) THEN "returning"
                                              ELSE "docked"
                        /\ m.agent[s].rev \in 0..r.revAgent[s]

LEMMA StationsStep ==
    ASSUME NEW L, NEW l, NEW M, NEW n, OneLineMore(L, l, M, n),
           NEW m \in Models, NEW r \in RunStates, NEW m2, NEW r2, Effect(l, m, r, m2, r2),
           Unsent(r, L), StationsTrue(m, r, L)
    PROVE  StationsTrue(m2, r2, M)
<1> SUFFICES ASSUME NEW s \in Stations
             PROVE  /\ m2.station[s].state = IF Busy(M, s) THEN "busy" ELSE "idle"
                    /\ m2.station[s].rev \in 0..r2.revStation[s]
  BY DEF StationsTrue
<1>1. /\ l.at = {s} /\ l.event = "step.start" => Busy(M, s)
      /\ l.at = {s} /\ l.event \in {"step.complete", "step.failed"} => ~Busy(M, s)
      /\ l = RunLine("run.start") => ~Busy(M, s)
      /\ l # RunLine("run.start")
         /\ (l.at # {s} \/ l.event \notin {"step.start", "step.complete", "step.failed"}) =>
             (Busy(M, s) <=> Busy(L, s))
  BY BusyGrows
<1>2. /\ m.station[s].state = IF Busy(L, s) THEN "busy" ELSE "idle"
      /\ m.station[s].rev \in 0..r.revStation[s]
  BY DEF StationsTrue
<1>3. /\ r.revStation \in [Stations -> Nat] /\ m.station \in [Stations -> Marks]
      /\ r.revStation[s] \in Nat
  BY DEF RunStates, Models
<1>4. CASE \E s0 \in Stations : /\ l.at = {s0}
                                /\ \/ l.event = "step.start" /\ Starts(m, r, s0, m2, r2)
                                   \/ l.event = "step.complete" /\ Completes(m, r, s0, m2, r2)
                                   \/ l.event = "step.failed" /\ Fails(m, r, s0, m2, r2)
  <2>1. PICK s0 \in Stations : /\ l.at = {s0}
                               /\ \/ l.event = "step.start" /\ Starts(m, r, s0, m2, r2)
                                  \/ l.event = "step.complete" /\ Completes(m, r, s0, m2, r2)
                                  \/ l.event = "step.failed" /\ Fails(m, r, s0, m2, r2)
    BY <1>4
  <2>2. /\ m2.station = [m.station EXCEPT ![s0] =
               [state |-> IF l.event = "step.start" THEN "busy" ELSE "idle",
                rev |-> r.revStation[s0] + 1]]
        /\ r2.revStation = [r.revStation EXCEPT ![s0] = r.revStation[s0] + 1]
        /\ l.event \in {"step.start", "step.complete", "step.failed"}
    BY <2>1 DEF Starts, Completes, Fails
  <2>3. CASE s0 = s
    <3>1. m2.station[s] = [state |-> IF l.event = "step.start" THEN "busy" ELSE "idle",
                           rev |-> r.revStation[s] + 1]
      BY <2>2, <2>3, <1>3
    <3>2. r2.revStation[s] = r.revStation[s] + 1  BY <2>2, <2>3, <1>3
    <3>3. Busy(M, s) <=> l.event = "step.start"  BY <1>1, <2>1, <2>2, <2>3
    <3> QED  BY <3>1, <3>2, <3>3, <1>3
  <2>4. CASE s0 # s
    <3>1. m2.station[s] = m.station[s] /\ r2.revStation[s] = r.revStation[s]
      BY <2>2, <2>4, <1>3
    <3>2. l.at # {s}  BY <2>1, <2>4
    <3>3. l # RunLine("run.start")  BY <2>2 DEF RunLine
    <3> QED  BY <1>1, <1>2, <3>1, <3>2, <3>3
  <2> QED  BY <2>3, <2>4
<1>5. CASE /\ m2.station = m.station /\ r2.revStation = r.revStation
           /\ l.event \notin {"step.start", "step.complete", "step.failed", "run.start"}
  <2>1. l # RunLine("run.start")  BY <1>5 DEF RunLine
  <2> QED  BY <1>1, <1>2, <1>5, <2>1
<1>6. CASE /\ m2 = Hydrated /\ r2.revStation = r.revStation
           /\ \/ l = RunLine("run.start")
              \/ l.event = "plan.created" /\ ~r.snapshotSent
  <2>1. Hydrated.station[s].state = "idle" /\ Hydrated.station[s].rev = 0  BY DEF Hydrated
  <2>2. ~Busy(M, s)
    <3>1. CASE l = RunLine("run.start")  BY <1>1, <3>1
    <3>2. CASE l.event = "plan.created" /\ ~r.snapshotSent
      <4>1. ~Busy(L, s)  BY <3>2, NothingShown DEF Unsent, OneLineMore
      <4>2. l # RunLine("run.start")  BY <3>2 DEF RunLine
      <4> QED  BY <1>1, <3>2, <4>1, <4>2
    <3> QED  BY <1>6, <3>1, <3>2
  <2> QED  BY <1>3, <1>6, <2>1, <2>2
<1>7. l = [event |-> l.event, at |-> l.at]
  BY DEF OneLineMore, Lines
<1>8. l.event = "run.start" /\ l.at = {} => l = RunLine("run.start")
  BY <1>7 DEF RunLine
<1> QED  BY <1>4, <1>5, <1>6, <1>8 DEF Effect, Keeps, Ticks

LEMMA AgentsStep ==
    ASSUME NEW L, NEW l, NEW M, NEW n, OneLineMore(L, l, M, n),
           NEW m \in Models, NEW r \in RunStates, NEW m2, NEW r2, Effect(l, m, r, m2, r2),
           Unsent(r, L), AgentsTrue(m, r, L)
    PROVE  AgentsTrue(m2, r2, M)
<1> SUFFICES ASSUME NEW s \in Stations
             PROVE  /\ m2.agent[s].state = IF Away(M, s) THEN "dispatched"
                                           ELSE IF Back(M, s) THEN "returning" ELSE "docked"
                    /\ m2.agent[s].rev \in 0..r2.revAgent[s]
  BY DEF AgentsTrue
<1>1. /\ l.at = {s} /\ l.event = "step.start" => Away(M, s) /\ ~Back(M, s)
      /\ l.at = {s} /\ l.event = "step.complete" => ~Away(M, s) /\ Back(M, s)
      /\ l = RunLine("run.start") => ~Away(M, s) /\ ~Back(M, s)
      /\ l # RunLine("run.start")
         /\ (l.at # {s} \/ l.event \notin {"step.start", "step.complete"}) =>
             (Away(M, s) <=> Away(L, s)) /\ (Back(M, s) <=> Back(L, s))
  BY AwayGrows, BackGrows
<1>2. /\ m.agent[s].state = IF Away(L, s) THEN "dispatched"
                            ELSE IF Back(L, s) THEN "returning" ELSE "docked"
      /\ m.agent[s].rev \in 0..r.revAgent[s]
  BY DEF AgentsTrue
<1>3. /\ r.revAgent \in [Stations -> Nat] /\ m.agent \in [Stations -> Marks]
      /\ r.revAgent[s] \in Nat
  BY DEF RunStates, Models
<1>4. CASE \E s0 \in Stations : /\ l.at = {s0}
                                /\ \/ l.event = "step.start" /\ Starts(m, r, s0, m2, r2)
                                   \/ l.event = "step.complete" /\ Completes(m, r, s0, m2, r2)
  <2>1. PICK s0 \in Stations : /\ l.at = {s0}
                               /\ \/ l.event = "step.start" /\ Starts(m, r, s0, m2, r2)
                                  \/ l.event = "step.complete" /\ Completes(m, r, s0, m2, r2)
    BY <1>4
  <2>2. /\ m2.agent = [m.agent EXCEPT ![s0] =
               [state |-> IF l.event = "step.start" THEN "dispatched" ELSE "returning",
                rev |-> r.revAgent[s0] + 1]]
        /\ r2.revAgent = [r.revAgent EXCEPT ![s0] = r.revAgent[s0] + 1]
        /\ l.event \in {"step.start", "step.complete"}
    BY <2>1 DEF Starts, Completes
  <2>3. CASE s0 = s
    <3>1. m2.agent[s] = [state |-> IF l.event = "step.start" THEN "dispatched" ELSE "returning",
                         rev |-> r.revAgent[s] + 1]
      BY <2>2, <2>3, <1>3
    <3>2. r2.revAgent[s] = r.revAgent[s] + 1  BY <2>2, <2>3, <1>3
    <3>3. (Away(M, s) <=> l.event = "step.start") /\ (Back(M, s) <=> l.event # "step.start")
      BY <1>1, <2>1, <2>2, <2>3
    <3> QED  BY <3>1, <3>2, <3>3, <1>3
  <2>4. CASE s0 # s
    <3>1. m2.agent[s] = m.agent[s] /\ r2.revAgent[s] = r.revAgent[s]
      BY <2>2, <2>4, <1>3
    <3>2. l.at # {s}  BY <2>1, <2>4
    <3>3. l # RunLine("run.start")  BY <2>2 DEF RunLine
    <3> QED  BY <1>1, <1>2, <3>1, <3>2, <3>3
  <2> QED  BY <2>3, <2>4
<1>5. CASE /\ m2.agent = m.agent /\ r2.revAgent = r.revAgent
           /\ l.event \notin {"step.start", "step.complete", "run.start"}
  <2>1. l # RunLine("run.start")  BY <1>5 DEF RunLine
  <2> QED  BY <1>1, <1>2, <1>5, <2>1
<1>6. CASE /\ m2 = Hydrated /\ r2.revAgent = r.revAgent
           /\ \/ l = RunLine("run.start")
              \/ l.event = "plan.created" /\ ~r.snapshotSent
  <2>1. Hydrated.agent[s].state = "docked" /\ Hydrated.agent[s].rev = 0  BY DEF Hydrated
  <2>2. ~Away(M, s) /\ ~Back(M, s)
    <3>1. CASE l = RunLine("run.start")  BY <1>1, <3>1
    <3>2. CASE l.event = "plan.created" /\ ~r.snapshotSent
      <4>1. ~Away(L, s) /\ ~Back(L, s)  BY <3>2, NothingShown DEF Unsent, OneLineMore
      <4>2. l # RunLine("run.start")  BY <3>2 DEF RunLine
      <4> QED  BY <1>1, <3>2, <4>1, <4>2
    <3> QED  BY <1>6, <3>1, <3>2
  <2> QED  BY <1>3, <1>6, <2>1, <2>2
<1>7. l = [event |-> l.event, at |-> l.at]
  BY DEF OneLineMore, Lines
<1>8. l.event = "run.start" /\ l.at = {} => l = RunLine("run.start")
  BY <1>7 DEF RunLine
<1> QED  BY <1>4, <1>5, <1>6, <1>8 DEF Effect, Keeps, Ticks, Fails

TotalsTrue(m, r, L) ==
    /\ r.completed = Count(L, "step.complete") /\ r.failed = Count(L, "step.failed")
    /\ m.metrics = IF Tick(L) > Beginning(L)
                   THEN <<Count(Told(L), "step.complete"), Count(Told(L), "step.failed")>>
                   ELSE <<0, 0>>

LEMMA LineIs ==
    ASSUME NEW l \in Lines
    PROVE  l.event = "run.start" /\ l.at = {} => l = RunLine("run.start")
<1>1. l = [event |-> l.event, at |-> l.at]  BY DEF Lines
<1> QED  BY <1>1 DEF RunLine

LEMMA NothingTold ==
    ASSUME NEW L \in Seq(Lines), Nothing(L), Tick(L) \in 0..Len(L)
    PROVE  Count(Told(L), "step.complete") = 0 /\ Count(Told(L), "step.failed") = 0
<1>1. PICK t \in 0..Len(L) : t = Tick(L)  OBVIOUS
<1>2. PICK T : T = SubSeq(L, 1, t)  OBVIOUS
<1>3. T \in Seq(Lines) /\ Len(T) = t /\ \A i \in 1..t : T[i] = L[i]  BY <1>2
<1>4. Nothing(T)  BY <1>3 DEF Nothing
<1>5. Count(T, "step.complete") = 0 /\ Count(T, "step.failed") = 0
  BY <1>3, <1>4, NothingShown
<1> QED  BY <1>1, <1>2, <1>5 DEF Told

LEMMA TotalsStep ==
    ASSUME NEW L, NEW l, NEW M, NEW n, OneLineMore(L, l, M, n),
           NEW m \in Models, NEW r \in RunStates, NEW m2, NEW r2, Effect(l, m, r, m2, r2),
           Unsent(r, L), TotalsTrue(m, r, L)
    PROVE  TotalsTrue(m2, r2, M)
<1>1. PICK b \in 0..n : b = Beginning(L)  BY BeginningGrows
<1>2. PICK t \in 0..n : t = Tick(L)  BY TickGrows
<1>3. PICK done \in Nat : done = Count(L, "step.complete")  BY CountGrows
<1>4. PICK lost \in Nat : lost = Count(L, "step.failed")  BY CountGrows
<1>5. /\ Count(M, "step.complete") = done + IF l.event = "step.complete" THEN 1 ELSE 0
      /\ Count(M, "step.failed") = lost + IF l.event = "step.failed" THEN 1 ELSE 0
  BY <1>3, <1>4, CountGrows
<1>6. Beginning(M) = IF l = RunLine("run.start") THEN n + 1 ELSE b
  BY <1>1, BeginningGrows
<1>7. Tick(M) = IF l.event \in {"step.complete", "run.complete"} THEN n + 1 ELSE t
  BY <1>2, TickGrows
<1>8. Told(M) = IF l.event \in {"step.complete", "run.complete"} THEN M ELSE Told(L)
  BY ToldGrows
<1>9. /\ r.completed = done /\ r.failed = lost
      /\ m.metrics = IF t > b
                     THEN <<Count(Told(L), "step.complete"), Count(Told(L), "step.failed")>>
                     ELSE <<0, 0>>
  BY <1>1, <1>2, <1>3, <1>4 DEF TotalsTrue
<1>10. n \in Nat /\ L \in Seq(Lines) /\ l \in Lines /\ n = Len(L)  BY DEF OneLineMore
<1>11. CASE l.event = "step.complete"
  <2>1. /\ r2.completed = done + 1 /\ r2.failed = lost
        /\ m2.metrics = <<done + 1, lost>>
    BY <1>9, <1>11 DEF Effect, Completes
  <2>2. /\ Count(M, "step.complete") = done + 1 /\ Count(M, "step.failed") = lost
    BY <1>5, <1>11
  <2>3. l # RunLine("run.start")  BY <1>11 DEF RunLine
  <2>4. Tick(M) > Beginning(M) /\ Told(M) = M  BY <1>6, <1>7, <1>8, <1>10, <1>11, <2>3
  <2> QED  BY <2>1, <2>2, <2>4 DEF TotalsTrue
<1>12. CASE l.event = "run.complete"
  <2>1. /\ r2.completed = done /\ r2.failed = lost
        /\ m2.metrics = <<done, lost>>
    BY <1>9, <1>12 DEF Effect, Ticks, Keeps
  <2>2. /\ Count(M, "step.complete") = done /\ Count(M, "step.failed") = lost
    BY <1>5, <1>12
  <2>3. l # RunLine("run.start")  BY <1>12 DEF RunLine
  <2>4. Tick(M) > Beginning(M) /\ Told(M) = M  BY <1>6, <1>7, <1>8, <1>10, <1>12, <2>3
  <2> QED  BY <2>1, <2>2, <2>4 DEF TotalsTrue
<1>13. CASE l.event = "run.start"
  <2>1. /\ r2.completed = done /\ r2.failed = lost /\ m2 = Hydrated /\ l.at = {}
    BY <1>9, <1>13 DEF Effect, Keeps
  <2>2. /\ Count(M, "step.complete") = done /\ Count(M, "step.failed") = lost
    BY <1>5, <1>13
  <2>3. l = RunLine("run.start")  BY <1>10, <1>13, <2>1, LineIs
  <2>4. ~(Tick(M) > Beginning(M))  BY <1>6, <1>7, <1>10, <1>13, <2>3
  <2>5. m2.metrics = <<0, 0>>  BY <2>1 DEF Hydrated
  <2> QED  BY <2>1, <2>2, <2>4, <2>5 DEF TotalsTrue
<1>14. CASE l.event \notin {"step.complete", "run.complete", "run.start"}
  <2>1. l # RunLine("run.start")  BY <1>14 DEF RunLine
  <2>2. Tick(M) = t /\ Beginning(M) = b /\ Told(M) = Told(L)
    BY <1>6, <1>7, <1>8, <1>14, <2>1
  <2>3. /\ r2.completed = done
        /\ r2.failed = lost + IF l.event = "step.failed" THEN 1 ELSE 0
        /\ m2.metrics = m.metrics \/ (m2 = Hydrated /\ ~r.snapshotSent)
    <3>1. CASE l.event = "step.failed"
      <4>1. /\ r2.completed = r.completed /\ r2.failed = r.failed + 1
            /\ m2.metrics = m.metrics
        BY <3>1 DEF Effect, Fails
      <4> QED  BY <1>9, <3>1, <4>1
    <3>2. CASE l.event # "step.failed"
      <4>1. /\ r2.completed = r.completed /\ r2.failed = r.failed
            /\ m2.metrics = m.metrics \/ (m2 = Hydrated /\ ~r.snapshotSent)
        BY <1>14, <3>2 DEF Effect, Keeps, Starts
      <4> QED  BY <1>9, <3>2, <4>1
    <3> QED  BY <3>1, <3>2
  <2>4. m2.metrics = IF t > b
                     THEN <<Count(Told(L), "step.complete"), Count(Told(L), "step.failed")>>
                     ELSE <<0, 0>>
    <3>1. CASE m2.metrics = m.metrics  BY <1>9, <3>1
    <3>2. CASE m2 = Hydrated /\ ~r.snapshotSent
      <4>1. Nothing(L)  BY <3>2 DEF Unsent
      <4>2. Count(Told(L), "step.complete") = 0 /\ Count(Told(L), "step.failed") = 0
        BY <1>2, <1>10, <4>1, NothingTold
      <4>3. m2.metrics = <<0, 0>>  BY <3>2 DEF Hydrated
      <4> QED  BY <4>2, <4>3
    <3> QED  BY <2>3, <3>1, <3>2
  <2>5. Count(M, "step.complete") = done
    BY <1>5, <1>14
  <2>6. Count(M, "step.failed") = r2.failed  BY <1>5, <2>3
  <2> QED  BY <2>2, <2>3, <2>4, <2>5, <2>6 DEF TotalsTrue
<1> QED  BY <1>11, <1>12, <1>13, <1>14

\* The task of each start, by its line, as the translator numbered them.
Ids(id, r, L) ==
    /\ \A i \in 1..Len(L) : L[i].event = "step.start" => id[i] \in 1..r.seq
    /\ \A i, j \in 1..Len(L) :
           L[i].event = "step.start" /\ L[j].event = "step.start" /\ id[i] = id[j] => i = j
    /\ \A s \in Stations :
           r.taskOf[s] = IF LastOf(L, s, {"step.start"}) = 0 THEN 0
                         ELSE id[LastOf(L, s, {"step.start"})]

\* The starts that are open since the console was wiped.
Since(L) == {i \in OpenStarts(L) : i > Beginning(L)}

TasksTrue(m, r, L) ==
    \E id \in [1..Len(L) -> Nat] : Ids(id, r, L) /\ m.tasks = {id[i] : i \in Since(L)}

\* What the numbers depend on.
Onward(r, r2) == r2 \in RunStates /\ r2.taskOf = r.taskOf /\ r2.seq >= r.seq

\* The numbers stay those of the starts when a line that starts no step follows.
Numbering(id, n) == id \in [1..n -> Nat]
Alike(id2, id, n) == \A i \in 1..n : id2[i] = id[i]
StartsNone(l) == l.event # "step.start"
Longer(id, n) == [i \in 1..(n + 1) |-> IF i = n + 1 THEN 0 ELSE id[i]]

LEMMA IdsKept ==
    ASSUME NEW L, NEW l, NEW M, NEW n, OneLineMore(L, l, M, n), StartsNone(l),
           NEW id, Numbering(id, n), NEW r \in RunStates, Ids(id, r, L),
           NEW r2, Onward(r, r2)
    PROVE  /\ Numbering(Longer(id, n), n + 1) /\ Ids(Longer(id, n), r2, M)
           /\ Alike(Longer(id, n), id, n)
<1>9. PICK id2 : id2 = Longer(id, n)  OBVIOUS
<1>1. /\ n \in Nat /\ n = Len(L) /\ Len(M) = n + 1 /\ \A i \in 1..n : M[i] = L[i]
      /\ M[n + 1] = l
  BY DEF OneLineMore
<1>2. id2 \in [1..(n + 1) -> Nat] /\ \A i \in 1..n : id2[i] = id[i]
  BY <1>1, <1>9 DEF Longer, Numbering
<1>10. r2 \in RunStates /\ r2.taskOf = r.taskOf /\ r2.seq >= r.seq  BY DEF Onward
<1>3. r.seq \in Nat /\ r2.seq \in Nat  BY <1>10 DEF RunStates
<1>4. ASSUME NEW i \in 1..(n + 1), M[i].event = "step.start"
      PROVE  i \in 1..n /\ L[i].event = "step.start" /\ id2[i] = id[i]
  BY <1>1, <1>2, <1>4 DEF StartsNone
<1>5. ASSUME NEW i \in 1..(n + 1), M[i].event = "step.start"
      PROVE  id2[i] \in 1..r2.seq
  BY <1>1, <1>3, <1>4, <1>5, <1>10 DEF Ids
<1>6. ASSUME NEW i \in 1..(n + 1), NEW j \in 1..(n + 1), M[i].event = "step.start",
             M[j].event = "step.start", id2[i] = id2[j]
      PROVE  i = j
  BY <1>1, <1>4, <1>6 DEF Ids
<1>7. ASSUME NEW s \in Stations
      PROVE  r2.taskOf[s] = IF LastOf(M, s, {"step.start"}) = 0 THEN 0
                            ELSE id2[LastOf(M, s, {"step.start"})]
  <2>1. PICK k \in 0..n : k = LastOf(L, s, {"step.start"})  BY LastGrows
  <2>2. LastOf(M, s, {"step.start"}) = k  BY <2>1, LastGrows DEF StartsNone
  <2>3. r.taskOf[s] = IF k = 0 THEN 0 ELSE id[k]  BY <2>1 DEF Ids
  <2> QED  BY <1>1, <1>2, <1>10, <2>2, <2>3
<1>8. Ids(id2, r2, M)  BY <1>1, <1>5, <1>6, <1>7 DEF Ids
<1> QED  BY <1>2, <1>8, <1>9, Zenon DEF Numbering, Alike

\* The line is one of these events at s.
Is(l, s, events) == l.at = {s} /\ l.event \in events

LEMMA TasksStart ==
    ASSUME NEW L, NEW l, NEW M, NEW n, OneLineMore(L, l, M, n),
           NEW m \in Models, NEW r \in RunStates, NEW m2, NEW r2,
           NEW s \in Stations, Is(l, s, {"step.start"}), Starts(m, r, s, m2, r2),
           TasksTrue(m, r, L)
    PROVE  TasksTrue(m2, r2, M)
<1>1. /\ n \in Nat /\ n = Len(L) /\ Len(M) = n + 1 /\ \A i \in 1..n : M[i] = L[i]
      /\ M[n + 1] = l
  BY DEF OneLineMore
<1>2. PICK id \in [1..n -> Nat] : Ids(id, r, L) /\ m.tasks = {id[i] : i \in Since(L)}
  BY <1>1 DEF TasksTrue
<1>3. PICK task \in Nat : task = r.seq + 1  BY DEF RunStates
<1>4. /\ m2.tasks = m.tasks \cup {task}
      /\ r2 \in RunStates /\ r2.seq >= task
      /\ r2.taskOf = [r.taskOf EXCEPT ![s] = task]
  BY <1>3 DEF Starts
<1>5. r.seq \in Nat /\ r2.seq \in Nat /\ r.taskOf \in [Stations -> Nat]
  BY <1>4 DEF RunStates
<1> DEFINE id2 == [i \in 1..(n + 1) |-> IF i = n + 1 THEN task ELSE id[i]]
<1>6. id2 \in [1..(n + 1) -> Nat] /\ id2[n + 1] = task /\ \A i \in 1..n : id2[i] = id[i]
  BY <1>1
<1> HIDE DEF id2
<1>7. \A i \in 1..n : L[i].event = "step.start" => id[i] \in 1..r.seq  BY <1>1, <1>2 DEF Ids
<1>8. ASSUME NEW i \in 1..(n + 1), M[i].event = "step.start"
      PROVE  id2[i] \in 1..r2.seq
  <2>1. CASE i = n + 1  BY <2>1, <1>3, <1>4, <1>5, <1>6
  <2>2. CASE i # n + 1
    <3>1. i \in 1..n /\ L[i].event = "step.start"  BY <1>1, <1>8, <2>2
    <3>2. id[i] \in 1..r.seq /\ id2[i] = id[i]  BY <1>6, <1>7, <3>1
    <3> QED  BY <3>2, <1>3, <1>4, <1>5
  <2> QED  BY <2>1, <2>2
<1>9. ASSUME NEW i \in 1..n, M[i].event = "step.start"
      PROVE  id2[i] = id[i] /\ id2[i] # task /\ L[i].event = "step.start"
  <2>1. L[i].event = "step.start"  BY <1>1, <1>9
  <2>2. id[i] \in 1..r.seq /\ id2[i] = id[i]  BY <1>6, <1>7, <2>1
  <2> QED  BY <2>1, <2>2, <1>3, <1>5
<1>10. ASSUME NEW i \in 1..(n + 1), NEW j \in 1..(n + 1), M[i].event = "step.start",
              M[j].event = "step.start", id2[i] = id2[j]
       PROVE  i = j
  <2>1. CASE i \in 1..n /\ j \in 1..n
    <3>1. id[i] = id[j] /\ L[i].event = "step.start" /\ L[j].event = "step.start"
      BY <1>9, <1>10, <2>1
    <3> QED  BY <1>1, <1>2, <2>1, <3>1 DEF Ids
  <2>2. CASE i = n + 1 /\ j \in 1..n  BY <1>6, <1>9, <1>10, <2>2
  <2>3. CASE i \in 1..n /\ j = n + 1  BY <1>6, <1>9, <1>10, <2>3
  <2> QED  BY <1>1, <2>1, <2>2, <2>3
<1>11. ASSUME NEW s0 \in Stations
       PROVE  r2.taskOf[s0] = IF LastOf(M, s0, {"step.start"}) = 0 THEN 0
                              ELSE id2[LastOf(M, s0, {"step.start"})]
  <2>1. PICK k \in 0..n : k = LastOf(L, s0, {"step.start"})  BY LastGrows
  <2>2. LastOf(M, s0, {"step.start"}) = IF l.at = {s0} /\ l.event \in {"step.start"}
                                        THEN n + 1 ELSE k
    <3>1. PICK starts : starts = {"step.start"}  OBVIOUS
    <3>2. LastOf(M, s0, starts) = IF l.at = {s0} /\ l.event \in starts
                                  THEN n + 1 ELSE LastOf(L, s0, starts)
      BY LastGrows
    <3> QED  BY <2>1, <3>1, <3>2, Zenon
  <2>3. r.taskOf[s0] = IF k = 0 THEN 0 ELSE id[k]  BY <1>2, <2>1 DEF Ids
  <2>4. CASE s0 = s
    <3>1. LastOf(M, s0, {"step.start"}) = n + 1 /\ n + 1 # 0  BY <1>1, <2>2, <2>4 DEF Is
    <3>2. r2.taskOf[s0] = task  BY <1>4, <1>5, <2>4
    <3> QED  BY <1>6, <3>1, <3>2
  <2>5. CASE s0 # s
    <3>1. LastOf(M, s0, {"step.start"}) = k  BY <2>2, <2>5 DEF Is
    <3>2. r2.taskOf[s0] = r.taskOf[s0]  BY <1>4, <1>5, <2>5
    <3> QED  BY <1>1, <1>6, <2>3, <3>1, <3>2
  <2> QED  BY <2>4, <2>5
<1>12. Ids(id2, r2, M)  BY <1>1, <1>8, <1>10, <1>11 DEF Ids
<1>13. Since(M) = Since(L) \cup {n + 1} /\ Since(L) \subseteq 1..n
  <2>1. OpenStarts(M) = OpenStarts(L) \cup {n + 1} /\ OpenStarts(L) \subseteq 1..n
    <3>1. l.event = "step.start"  BY DEF Is
    <3> QED  BY <3>1, OpenGrows
  <2>2. PICK b \in 0..n : b = Beginning(L)  BY BeginningGrows
  <2>3. Beginning(M) = b
    <3>1. l # RunLine("run.start")  BY DEF RunLine, Is
    <3> QED  BY <2>2, <3>1, BeginningGrows
  <2>4. n + 1 > b  BY <1>1
  <2> QED  BY <2>1, <2>2, <2>3, <2>4 DEF Since
<1>14. {id2[i] : i \in Since(M)} = {id[i] : i \in Since(L)} \cup {task}
  BY <1>6, <1>13
<1>15. m2.tasks = {id2[i] : i \in Since(M)}  BY <1>2, <1>4, <1>14
<1>16. id2 \in [1..Len(M) -> Nat]  BY <1>1, <1>6
<1> QED  BY <1>12, <1>15, <1>16 DEF TasksTrue

Untasked(m, r, s, m2) == m2.tasks = m.tasks \ {r.taskOf[s]}

LEMMA TasksEnd ==
    ASSUME NEW L, NEW l, NEW M, NEW n, OneLineMore(L, l, M, n),
           NEW m \in Models, NEW r \in RunStates, NEW m2, NEW r2,
           NEW s \in Stations, Is(l, s, {"step.complete", "step.failed"}),
           Untasked(m, r, s, m2), Onward(r, r2),
           TasksTrue(m, r, L)
    PROVE  TasksTrue(m2, r2, M)
<1>1. n \in Nat /\ n = Len(L) /\ Len(M) = n + 1 /\ L \in Seq(Lines)
  BY DEF OneLineMore
<1>2. PICK id \in [1..n -> Nat] : Ids(id, r, L) /\ m.tasks = {id[i] : i \in Since(L)}
  BY <1>1 DEF TasksTrue
<1>20. PICK id2 : id2 = Longer(id, n)  OBVIOUS
<1>3. /\ id2 \in [1..(n + 1) -> Nat] /\ Ids(id2, r2, M)
      /\ \A i \in 1..n : id2[i] = id[i]
  <2>1. StartsNone(l)  BY DEF Is, StartsNone
  <2>2. Ids(id, r, L) /\ Numbering(id, n)  BY <1>2 DEF Numbering
  <2>3. /\ Numbering(Longer(id, n), n + 1) /\ Ids(Longer(id, n), r2, M)
        /\ Alike(Longer(id, n), id, n)
    BY <2>1, <2>2, IdsKept
  <2> QED  BY <1>20, <2>3, Zenon DEF Numbering, Alike
<1>4. PICK k : k = LastOf(L, s, {"step.start"})  OBVIOUS
<1>5. /\ k \in 0..n
      /\ k # 0 => L[k].at = {s} /\ L[k].event = "step.start"
  BY <1>1, <1>4, LastStart
<1>6. OpenStarts(M) = OpenStarts(L) \ {k}
  <2>1. l.at = {s} /\ l.event \in {"step.complete", "step.failed"}  BY DEF Is
  <2> QED  BY <1>4, <2>1, OpenEnds
<1>7. Beginning(M) = Beginning(L)
  <2>1. l # RunLine("run.start")  BY DEF RunLine, Is
  <2> QED  BY <2>1, BeginningGrows
<1>8. /\ Since(L) \subseteq 1..n
      /\ \A i \in Since(L) : L[i].event = "step.start"
  BY OpenGrows DEF Since
<1>9. Since(M) = Since(L) \ {k}  BY <1>6, <1>7 DEF Since
<1>10. r.taskOf[s] = IF k = 0 THEN 0 ELSE id[k]  BY <1>2, <1>4 DEF Ids
<1>11. ASSUME NEW i \in Since(L)
       PROVE  id[i] = r.taskOf[s] <=> i = k
  <2>1. i \in 1..n /\ L[i].event = "step.start"  BY <1>8
  <2>2. id[i] \in 1..r.seq  BY <1>1, <1>2, <2>1 DEF Ids
  <2>3. CASE k = 0  BY <1>10, <2>1, <2>2, <2>3
  <2>4. CASE k # 0
    <3>1. k \in 1..n /\ L[k].event = "step.start"  BY <1>1, <1>5, <2>4
    <3>2. id[i] = id[k] => i = k  BY <1>1, <1>2, <2>1, <3>1 DEF Ids
    <3> QED  BY <1>10, <2>4, <3>2
  <2> QED  BY <2>3, <2>4
<1>12. {id2[i] : i \in Since(M)} = {id[i] : i \in Since(L)} \ {r.taskOf[s]}
  <2>1. \A i \in Since(L) : id2[i] = id[i]  BY <1>3, <1>8
  <2> QED  BY <1>9, <1>11, <2>1
<1>13. m2.tasks = {id2[i] : i \in Since(M)}  BY <1>2, <1>12 DEF Untasked
<1>14. id2 \in [1..Len(M) -> Nat]  BY <1>1, <1>3
<1> QED  BY <1>3, <1>13, <1>14 DEF TasksTrue

\* A line that starts or ends no step leaves the tasks, or wipes them.
Stays(l, m, L, m2) ==
    /\ l.event \notin {"step.start", "step.complete", "step.failed"}
    /\ \/ m2.tasks = m.tasks /\ l # RunLine("run.start")
       \/ m2.tasks = {} /\ (l = RunLine("run.start") \/ Nothing(L))

LEMMA TasksStay ==
    ASSUME NEW L, NEW l, NEW M, NEW n, OneLineMore(L, l, M, n),
           NEW m \in Models, NEW r \in RunStates, NEW m2, NEW r2,
           Stays(l, m, L, m2), Onward(r, r2),
           TasksTrue(m, r, L)
    PROVE  TasksTrue(m2, r2, M)
<1>1. n \in Nat /\ n = Len(L) /\ Len(M) = n + 1 /\ L \in Seq(Lines)
  BY DEF OneLineMore
<1>2. PICK id \in [1..n -> Nat] : Ids(id, r, L) /\ m.tasks = {id[i] : i \in Since(L)}
  BY <1>1 DEF TasksTrue
<1>20. PICK id2 : id2 = Longer(id, n)  OBVIOUS
<1>3. /\ id2 \in [1..(n + 1) -> Nat] /\ Ids(id2, r2, M)
      /\ \A i \in 1..n : id2[i] = id[i]
  <2>1. StartsNone(l)  BY DEF Stays, StartsNone
  <2>2. Ids(id, r, L) /\ Numbering(id, n)  BY <1>2 DEF Numbering
  <2>3. /\ Numbering(Longer(id, n), n + 1) /\ Ids(Longer(id, n), r2, M)
        /\ Alike(Longer(id, n), id, n)
    BY <2>1, <2>2, IdsKept
  <2> QED  BY <1>20, <2>3, Zenon DEF Numbering, Alike
<1>4. OpenStarts(M) = OpenStarts(L) /\ OpenStarts(L) \subseteq 1..n
  <2>1. l.event \notin {"step.start", "step.complete", "step.failed"}  BY DEF Stays
  <2> QED  BY <2>1, OpenGrows
<1>5. Beginning(M) = IF l = RunLine("run.start") THEN n + 1 ELSE Beginning(L)
  BY BeginningGrows
<1>6. m2.tasks = {id2[i] : i \in Since(M)}
  <2>1. CASE m2.tasks = m.tasks /\ l # RunLine("run.start")
    <3>1. Since(M) = Since(L)  BY <1>4, <1>5, <2>1 DEF Since
    <3>2. \A i \in Since(L) : id2[i] = id[i]  BY <1>3, <1>4 DEF Since
    <3> QED  BY <1>2, <2>1, <3>1, <3>2
  <2>2. CASE m2.tasks = {} /\ (l = RunLine("run.start") \/ Nothing(L))
    <3>1. Since(M) = {}
      <4>1. CASE l = RunLine("run.start")
        <5>1. \A i \in 1..n : ~(i > n + 1)  BY <1>1
        <5> QED  BY <1>4, <1>5, <4>1, <5>1 DEF Since
      <4>2. CASE Nothing(L)
        <5>1. OpenStarts(L) = {}  BY <1>1, <4>2, NothingShown
        <5> QED  BY <1>4, <5>1 DEF Since
      <4> QED  BY <2>2, <4>1, <4>2
    <3> QED  BY <2>2, <3>1
  <2> QED  BY <2>1, <2>2 DEF Stays
<1>7. id2 \in [1..Len(M) -> Nat]  BY <1>1, <1>3
<1> QED  BY <1>3, <1>6, <1>7 DEF TasksTrue

LEMMA TasksStep ==
    ASSUME NEW L, NEW l, NEW M, NEW n, OneLineMore(L, l, M, n),
           NEW m \in Models, NEW r \in RunStates, NEW m2, NEW r2, Effect(l, m, r, m2, r2),
           Unsent(r, L), TasksTrue(m, r, L)
    PROVE  TasksTrue(m2, r2, M)
<1>1. CASE \E s \in Stations : l.at = {s} /\ l.event = "step.start" /\ Starts(m, r, s, m2, r2)
  <2>1. PICK s \in Stations : l.at = {s} /\ l.event = "step.start" /\ Starts(m, r, s, m2, r2)
    BY <1>1
  <2>2. Is(l, s, {"step.start"})  BY <2>1 DEF Is
  <2> QED  BY <2>1, <2>2, TasksStart
<1>2. CASE \E s \in Stations : /\ l.at = {s}
                               /\ \/ l.event = "step.complete" /\ Completes(m, r, s, m2, r2)
                                  \/ l.event = "step.failed" /\ Fails(m, r, s, m2, r2)
  <2>1. PICK s \in Stations : /\ l.at = {s}
                              /\ \/ l.event = "step.complete" /\ Completes(m, r, s, m2, r2)
                                 \/ l.event = "step.failed" /\ Fails(m, r, s, m2, r2)
    BY <1>2
  <2>2. /\ Untasked(m, r, s, m2) /\ Onward(r, r2)
        /\ Is(l, s, {"step.complete", "step.failed"})
    BY <2>1 DEF Completes, Fails, Onward, Untasked, Is
  <2> QED  BY <2>1, <2>2, TasksEnd
<1>3. CASE /\ l.event \notin {"step.start", "step.complete", "step.failed"}
           /\ Onward(r, r2)
           /\ \/ m2.tasks = m.tasks /\ l.event # "run.start"
              \/ m2 = Hydrated /\ (l = RunLine("run.start") \/ Nothing(L))
  <2>1. Hydrated.tasks = {}  BY DEF Hydrated
  <2>2. l.event # "run.start" => l # RunLine("run.start")  BY DEF RunLine
  <2>3. Stays(l, m, L, m2)  BY <1>3, <2>1, <2>2 DEF Stays
  <2> QED  BY <1>3, <2>3, TasksStay
<1>4. l.event = "run.start" /\ l.at = {} => l = RunLine("run.start")
  BY LineIs DEF OneLineMore
<1> QED  BY <1>1, <1>2, <1>3, <1>4 DEF Effect, Keeps, Ticks, Unsent, Onward

\* What a console shows is what the log says, and the translator knows it.
Agreed(m, r, L) ==
    /\ m \in Models /\ r \in RunStates /\ L \in Seq(Lines)
    /\ StationsTrue(m, r, L) /\ AgentsTrue(m, r, L)
    /\ TotalsTrue(m, r, L) /\ TasksTrue(m, r, L)

LEMMA AgreedGrows ==
    ASSUME NEW envs \in Seq(Envelopes), NEW r, NEW L, NEW l \in Lines,
           Agreed(Shown(envs), r, L), Unsent(r, L)
    PROVE  Agreed(Shown(envs \o Translate(l, r).out), Translate(l, r).rs, Append(L, l))
<1>1. r \in RunStates /\ L \in Seq(Lines) /\ Shown(envs) \in Models  BY DEF Agreed
<1>2. Translate(l, r) \in Translated  BY <1>1, LineTranslated
<1>3. PICK more \in Seq(Envelopes) : more = Translate(l, r).out  BY <1>2 DEF Translated
<1>4. PICK r2 \in RunStates : r2 = Translate(l, r).rs  BY <1>2 DEF Translated
<1>5. PICK m \in Models : m = Shown(envs)  BY <1>1
<1>6. envs \o more \in Seq(Envelopes)  OBVIOUS
<1>7. PICK m2 \in Models : m2 = Shown(envs \o more)
  BY <1>6, ShownGrows, SnapshotsTyped
<1>8. Behind(m, r)  BY <1>5 DEF Agreed, StationsTrue, AgentsTrue, Behind
<1>9. Effect(l, m, r, m2, r2)
  <2>1. Behind(Shown(envs), r)  BY <1>5, <1>8
  <2>2. Effect(l, Shown(envs), r, Shown(envs \o Translate(l, r).out), Translate(l, r).rs)
    BY <1>1, <2>1, LineShown
  <2> QED  BY <1>3, <1>4, <1>5, <1>7, <2>2, Zenon
<1>10. PICK M : M = Append(L, l)  OBVIOUS
<1>11. PICK n : n = Len(L)  OBVIOUS
<1>12. OneLineMore(L, l, M, n) /\ M \in Seq(Lines)
  <2>1. /\ Append(L, l) \in Seq(Lines) /\ Len(Append(L, l)) = Len(L) + 1 /\ Len(L) \in Nat
        /\ \A i \in 1..Len(L) : Append(L, l)[i] = L[i] /\ Append(L, l)[Len(L) + 1] = l
    BY <1>1
  <2>2. Append(L, l)[Len(L) + 1] = l  BY <1>1
  <2> QED  BY <1>1, <1>10, <1>11, <2>1, <2>2, Zenon DEF OneLineMore
<1>13. StationsTrue(m, r, L) /\ AgentsTrue(m, r, L) /\ TotalsTrue(m, r, L) /\ TasksTrue(m, r, L)
  BY <1>5 DEF Agreed
<1>14. StationsTrue(m2, r2, M)  BY <1>1, <1>9, <1>12, <1>13, StationsStep
<1>15. AgentsTrue(m2, r2, M)  BY <1>1, <1>9, <1>12, <1>13, AgentsStep
<1>16. TotalsTrue(m2, r2, M)  BY <1>1, <1>9, <1>12, <1>13, TotalsStep
<1>17. TasksTrue(m2, r2, M)  BY <1>1, <1>9, <1>12, <1>13, TasksStep
<1>18. Agreed(m2, r2, M)  BY <1>12, <1>14, <1>15, <1>16, <1>17 DEF Agreed
<1> QED  BY <1>3, <1>4, <1>7, <1>10, <1>18, Zenon

LEMMA NothingAgreed ==
    ASSUME NEW r \in RunStates, r.completed = 0, r.failed = 0,
           \A s \in Stations : r.taskOf[s] = 0
    PROVE  Agreed(Hydrated, r, <<>>)
<1>1. PICK none \in Seq(Lines) : none = <<>>
  <2>1. <<>> \in Seq(Lines)  OBVIOUS
  <2> QED  BY <2>1
<1>2. /\ \A s, events : LastOf(none, s, events) = 0
      /\ Beginning(none) = 0 /\ Tick(none) = 0
      /\ \A event : Count(none, event) = 0
      /\ OpenStarts(none) = {}
  BY <1>1, EventsOfNone, Zenon
<1>3. PICK m \in Models : m = Hydrated  BY HydratedTyped
<1>4. /\ \A s \in Stations : m.station[s].state = "idle" /\ m.station[s].rev = 0
      /\ \A s \in Stations : m.agent[s].state = "docked" /\ m.agent[s].rev = 0
      /\ m.tasks = {} /\ m.metrics = <<0, 0>>
  BY <1>3 DEF Hydrated
<1>5. \A s : ~Busy(none, s) /\ ~Away(none, s) /\ ~Back(none, s)
  BY <1>2 DEF Busy, Away, Back
<1>6. \A s \in Stations : r.revStation[s] \in Nat /\ r.revAgent[s] \in Nat  BY DEF RunStates
<1>7. StationsTrue(m, r, none) /\ AgentsTrue(m, r, none)
  BY <1>4, <1>5, <1>6 DEF StationsTrue, AgentsTrue
<1>8. TotalsTrue(m, r, none)  BY <1>2, <1>4 DEF TotalsTrue
<1>9. TasksTrue(m, r, none)
  <2>1. Len(none) = 0 /\ 1..0 = {}  BY <1>1
  <2>2. PICK id : id = [i \in {} |-> 0]  OBVIOUS
  <2>3. id \in [1..Len(none) -> Nat]  BY <2>1, <2>2
  <2>4. Since(none) = {}  BY <1>2 DEF Since
  <2>5. m.tasks = {id[i] : i \in Since(none)}  BY <1>4, <2>4
  <2>6. Ids(id, r, none)  BY <1>2, <2>1 DEF Ids
  <2> QED  BY <2>3, <2>5, <2>6 DEF TasksTrue
<1>10. Agreed(m, r, none)  BY <1>7, <1>8, <1>9 DEF Agreed
<1> QED  BY <1>1, <1>3, <1>10, Zenon

LEMMA AgreedPictures ==
    ASSUME NEW m, NEW r, NEW L, Agreed(m, r, L)
    PROVE  Pictures(m, L)
<1>1. m \in Models /\ r \in RunStates /\ L \in Seq(Lines)  BY DEF Agreed
<1>2. PICK b : b = Beginning(L)  OBVIOUS
<1>3. PICK n \in Nat : n = Len(L)  BY <1>1
<1>4. ASSUME NEW s \in Stations
      PROVE  Draws(m, L, s)
  <2>1. PICK start : start = LastOf(L, s, {"step.start"})  OBVIOUS
  <2>2. PICK done : done = LastOf(L, s, {"step.complete"})  OBVIOUS
  <2>3. PICK end : end = LastOf(L, s, {"step.complete", "step.failed"})  OBVIOUS
  <2>4. m.station[s].state = IF Busy(L, s) THEN "busy" ELSE "idle"
    BY DEF Agreed, StationsTrue
  <2>5. m.agent[s].state = IF Away(L, s) THEN "dispatched"
                           ELSE IF Back(L, s) THEN "returning" ELSE "docked"
    BY DEF Agreed, AgentsTrue
  <2>6. Busy(L, s) <=> start > b /\ start > end  BY <1>2, <2>1, <2>3 DEF Busy
  <2>7. Away(L, s) <=> start > b /\ start > done  BY <1>2, <2>1, <2>2 DEF Away
  <2>8. Back(L, s) <=> done > b /\ done > start  BY <1>2, <2>1, <2>2 DEF Back
  <2>9. /\ start \in 0..n /\ done \in 0..n
    <3>1. ASSUME NEW events  PROVE LastOf(L, s, events) \in 0..n
      <4>1. PICK I : I = StepPlaces(L, s, events)  OBVIOUS
      <4>2. I \in SUBSET (1..n)  BY <1>3, <4>1, PlacesBounded
      <4>3. LastOf(L, s, events) = Top(I)  BY <1>1, <4>1, PlacesAre
      <4> QED  BY <4>2, <4>3, TopGrows
    <3> QED  BY <2>1, <2>2, <3>1
  <2>10. m.station[s].state = "busy" <=> start > b /\ start > end  BY <2>4, <2>6
  <2>11. m.agent[s].state = CASE start > b /\ start > done -> "dispatched"
                              [] done > b /\ done > start -> "returning"
                              [] OTHER -> "docked"
    BY <2>5, <2>7, <2>8, <2>9
  <2> QED  BY <1>2, <2>1, <2>2, <2>3, <2>10, <2>11, Zenon DEF Draws
<1>5. Cardinality(m.tasks) = Cardinality({i \in OpenStarts(L) : i > b})
  <2>1. PICK id \in [1..n -> Nat] : Ids(id, r, L) /\ m.tasks = {id[i] : i \in Since(L)}
    BY <1>3 DEF Agreed, TasksTrue
  <2>2. PICK S : S = Since(L)  OBVIOUS
  <2>3. S \subseteq 1..n /\ \A i \in S : L[i].event = "step.start"
    <3>1. OpenStarts(L) = {i \in 1..n : /\ L[i].event = "step.start"
                                        /\ ~\E j \in (i + 1)..n : Closes(L, i, j)}
      BY <1>1, <1>3, OpenStartsAre
    <3> QED  BY <2>2, <3>1 DEF Since
  <2>4. IsFiniteSet(S)
    <3>1. IsFiniteSet(1..n)  BY FS_Interval
    <3> QED  BY <2>3, <3>1, FS_Subset
  <2>5. \A i, j \in S : id[i] = id[j] => i = j
    BY <1>3, <2>1, <2>3 DEF Ids
  <2>6. PICK T : T = {id[i] : i \in S}  OBVIOUS
  <2>7. [i \in S |-> id[i]] \in Bijection(S, T)
    BY <2>5, <2>6 DEF Bijection, Injection, Surjection, IsInjective
  <2>8. Cardinality(S) = Cardinality(T)
    BY <2>4, <2>7, FS_Bijection DEF ExistsBijection
  <2> QED  BY <1>2, <2>1, <2>2, <2>6, <2>8 DEF Since
<1>6. m.metrics = IF Tick(L) > b
                  THEN <<Count(Told(L), "step.complete"), Count(Told(L), "step.failed")>>
                  ELSE <<0, 0>>
  BY <1>2 DEF Agreed, TotalsTrue
<1>7. m.metrics = Totals(L)  BY <1>2, <1>6, Zenon DEF Totals, Tick, Told
<1> QED  BY <1>2, <1>4, <1>5, <1>7, Zenon DEF Pictures

-----------------------------------------------------------------------------
(* The snapshot that is not sent twice                                     *)

LEMMA EmitRemembers ==
    ASSUME NEW r0, "snapshotSent" \in DOMAIN r0, NEW envs, NEW skip
    PROVE  /\ "snapshotSent" \in DOMAIN Emit(r0, envs, skip).rs
           /\ Emit(r0, envs, skip).rs.snapshotSent = r0.snapshotSent
<1>1. PICK r2 : r2 = Emit(r0, envs, skip).rs  OBVIOUS
<1>2. PICK q : q = r0.seq + skip + Len(envs)  OBVIOUS
<1>3. r2 = [r0 EXCEPT !.seq = q]  BY <1>1, <1>2 DEF Emit
<1>4. "snapshotSent" \in DOMAIN r2 /\ r2.snapshotSent = r0.snapshotSent  BY <1>3
<1> QED  BY <1>1, <1>4, Zenon

LEMMA StepRemembers ==
    ASSUME NEW r \in RunStates, NEW s \in Stations
    PROVE  /\ TranslateStart(r, {s}, s).rs.snapshotSent = r.snapshotSent
           /\ TranslateComplete(r, {s}, s).rs.snapshotSent = r.snapshotSent
           /\ TranslateFailed(r, {s}, s).rs.snapshotSent = r.snapshotSent
<1>1. TranslateStart(r, {s}, s).rs.snapshotSent = r.snapshotSent
  <2> DEFINE task == r.seq + 1
             now == [r EXCEPT !.taskOf[s] = task, !.revAgent[s] = @ + 1,
                              !.revStation[s] = @ + 1]
             more == <<Env("task.enqueued", {s}, "", <<task>>),
                       Env("task.assigned", {s}, "", <<task>>),
                       Env("agent.updated", {s}, "dispatched", <<now.revAgent[s]>>),
                       Env("station.updated", {s}, "busy", <<now.revStation[s]>>), Log>>
  <2>1. "snapshotSent" \in DOMAIN now /\ now.snapshotSent = r.snapshotSent  BY DEF RunStates
  <2>2. TranslateStart(r, {s}, s) = Emit(now, more, 1)  BY DEF TranslateStart
  <2> HIDE DEF now, more
  <2> QED  BY <2>1, <2>2, EmitRemembers
<1>2. TranslateComplete(r, {s}, s).rs.snapshotSent = r.snapshotSent
  <2> DEFINE now == [r EXCEPT !.completed = @ + 1, !.revAgent[s] = @ + 1, !.revStation[s] = @ + 1]
             more == <<Env("task.completed", {s}, "", <<r.taskOf[s]>>),
                       Env("agent.updated", {s}, "returning", <<now.revAgent[s]>>),
                       Env("station.updated", {s}, "idle", <<now.revStation[s]>>),
                       Env("metrics.tick", {}, "", <<now.completed, now.failed>>), Log>>
  <2>1. "snapshotSent" \in DOMAIN now /\ now.snapshotSent = r.snapshotSent  BY DEF RunStates
  <2>2. TranslateComplete(r, {s}, s) = Emit(now, more, 0)  BY DEF TranslateComplete
  <2> HIDE DEF now, more
  <2> QED  BY <2>1, <2>2, EmitRemembers
<1>3. TranslateFailed(r, {s}, s).rs.snapshotSent = r.snapshotSent
  <2> DEFINE now == [r EXCEPT !.failed = @ + 1, !.revStation[s] = @ + 1]
             ended == <<Env("task.failed", {s}, "", <<r.taskOf[s]>>)>>
             first == Emit(now, ended, 0)
             more == <<Env("alert.raised", {s}, "warning", <<>>),
                       Env("station.updated", {s}, "idle", <<now.revStation[s]>>), Log>>
             rest == Emit(first.rs, more, 1)
  <2>1. "snapshotSent" \in DOMAIN now /\ now.snapshotSent = r.snapshotSent  BY DEF RunStates
  <2>2. TranslateFailed(r, {s}, s) = [out |-> first.out \o rest.out, rs |-> rest.rs]
    BY DEF TranslateFailed
  <2> HIDE DEF now, more, ended
  <2>3. "snapshotSent" \in DOMAIN first.rs /\ first.rs.snapshotSent = r.snapshotSent
    BY <2>1, EmitRemembers
  <2> HIDE DEF first
  <2>4. rest.rs.snapshotSent = r.snapshotSent  BY <2>3, EmitRemembers
  <2> HIDE DEF rest
  <2> QED  BY <2>2, <2>4
<1> QED  BY <1>1, <1>2, <1>3

\* A snapshot that was sent stays sent, and is once a run or its plan begins.
LEMMA Remembers ==
    ASSUME NEW r \in RunStates, NEW line \in Lines
    PROVE  /\ r.snapshotSent => Translate(line, r).rs.snapshotSent
           /\ line \in Starters => Translate(line, r).rs.snapshotSent
<1>1. "snapshotSent" \in DOMAIN r  BY DEF RunStates
<1>2. PICK r1 : r1 = [r EXCEPT !.snapshotSent = TRUE]  OBVIOUS
<1>3. "snapshotSent" \in DOMAIN r1 /\ r1.snapshotSent = TRUE  BY <1>1, <1>2 DEF RunStates
<1>4. CASE line.event \in RunEvents \cup {"junk"}
  <2>1. CASE line.event = "run.start"
    <3>1. Translate(line, r) = Emit(r1, <<Snapshot, Log>>, 0)
      BY <1>2, <2>1 DEF Translate
    <3>2. Emit(r1, <<Snapshot, Log>>, 0).rs.snapshotSent = r1.snapshotSent
      BY <1>3, EmitRemembers
    <3> QED  BY <1>3, <3>1, <3>2
  <2>2. CASE line.event = "plan.created"
    <3>1. PICK envs : envs = (IF r.snapshotSent THEN <<>> ELSE <<Snapshot>>) \o <<Log>>
      OBVIOUS
    <3>2. Translate(line, r) = Emit(r1, envs, 0)
      BY <1>2, <2>2, <3>1 DEF Translate
    <3>3. Emit(r1, envs, 0).rs.snapshotSent = r1.snapshotSent
      BY <1>3, EmitRemembers
    <3> QED  BY <1>3, <3>2, <3>3
  <2>3. CASE line.event = "run.complete"
    <3>1. PICK envs : envs = <<Env("metrics.tick", {}, "", <<r.completed, r.failed>>), Log>>
      OBVIOUS
    <3>2. Translate(line, r) = Emit(r, envs, 0)  BY <2>3, <3>1 DEF Translate
    <3>3. Emit(r, envs, 0).rs.snapshotSent = r.snapshotSent  BY <1>1, EmitRemembers
    <3> QED  BY <2>3, <3>2, <3>3 DEF Starters, RunLine
  <2>4. CASE line.event = "junk"
    <3>1. Translate(line, r) = [out |-> <<>>, rs |-> r]  BY <2>4 DEF Translate
    <3> QED  BY <2>4, <3>1 DEF Starters, RunLine
  <2> QED  BY <1>4, <2>1, <2>2, <2>3, <2>4 DEF RunEvents
<1>5. CASE line.event \in StepEvents
  <2>1. PICK s \in Stations : line.at = {s}
    BY <1>5, LineKinds DEF StepEvents, RunEvents
  <2>2. (CHOOSE x \in line.at : TRUE) = s  BY <2>1
  <2>3. line \notin Starters  BY <1>5 DEF Starters, RunLine, StepEvents
  <2>4. CASE line.event = "step.start"
    <3>1. Translate(line, r) = TranslateStart(r, {s}, s)
      BY <2>1, <2>2, <2>4 DEF Translate
    <3> QED  BY <2>3, <3>1, StepRemembers
  <2>5. CASE line.event = "step.complete"
    <3>1. Translate(line, r) = TranslateComplete(r, {s}, s)
      BY <2>1, <2>2, <2>5 DEF Translate
    <3> QED  BY <2>3, <3>1, StepRemembers
  <2>6. CASE line.event = "step.failed"
    <3>1. Translate(line, r) = TranslateFailed(r, {s}, s)
      BY <2>1, <2>2, <2>6 DEF Translate
    <3> QED  BY <2>3, <3>1, StepRemembers
  <2>7. CASE line.event = "retry"
    <3>1. PICK envs : envs = <<Env("alert.raised", line.at, "warning", <<>>), Log>>
      OBVIOUS
    <3>2. Translate(line, r) = Emit(r, envs, 1)  BY <2>7, <3>1 DEF Translate
    <3>3. Emit(r, envs, 1).rs.snapshotSent = r.snapshotSent  BY <1>1, EmitRemembers
    <3> QED  BY <2>3, <3>2, <3>3
  <2>8. CASE line.event = "critic.review"
    <3>1. PICK envs : envs = <<Log>>  OBVIOUS
    <3>2. Translate(line, r) = Emit(r, envs, 0)  BY <2>8, <3>1 DEF Translate
    <3>3. Emit(r, envs, 0).rs.snapshotSent = r.snapshotSent  BY <1>1, EmitRemembers
    <3> QED  BY <2>3, <3>2, <3>3
  <2> QED  BY <1>5, <2>4, <2>5, <2>6, <2>7, <2>8 DEF StepEvents
<1> QED  BY <1>4, <1>5, LineKinds

-----------------------------------------------------------------------------
(* A whole log, converted for a replay                                     *)

LEMMA OpenedShown ==
    ASSUME NEW r \in RunStates
    PROVE  /\ Opened(r).out \in Seq(Envelopes) /\ Opened(r).rs \in RunStates
           /\ Shown(Opened(r).out) = Hydrated
           /\ Opened(r).rs.snapshotSent
           /\ Opened(r).rs.taskOf = r.taskOf
           /\ Opened(r).rs.completed = r.completed /\ Opened(r).rs.failed = r.failed
<1>1. PICK q \in Nat : q = r.seq  BY DEF RunStates
<1>2. PICK e \in Envelopes : e = Snapshot  BY SnapshotsTyped
<1>3. PICK list \in Seq(Envelopes) : list = <<e>>  BY ListsTyped
<1>4. PICK o : o = Opened(r)  OBVIOUS
<1>5. o.out = Stamped(list, q) /\ o.rs = [r EXCEPT !.seq = r.seq + 1, !.snapshotSent = TRUE]
  BY <1>1, <1>2, <1>3, <1>4 DEF Opened
<1>6. o \in Translated  BY <1>4, OpenedTyped
<1>7. o.out \in Seq(Envelopes) /\ o.rs \in RunStates  BY <1>6 DEF Translated
<1>8. PICK none \in Seq(Envelopes) : none = <<>>
  <2>1. <<>> \in Seq(Envelopes)  OBVIOUS
  <2> QED  BY <2>1
<1>9. none \o o.out = o.out  BY <1>7, <1>8
<1>10. Shown(none \o Stamped(list, q)) = Shown(none \o list)  BY ShownStamped
<1>11. Shown(none \o <<e>>) = Route(Shown(none), e)  BY ShownOne
<1>12. Shown(none) = Hydrated  BY <1>8, ShownNone, Zenon
<1>13. PICK m \in Models : m = Hydrated  BY HydratedTyped
<1>14. Route(m, e) = Hydrated  BY <1>2, RouteNothing
<1>15. Shown(o.out) = Hydrated
  BY <1>3, <1>5, <1>9, <1>10, <1>11, <1>12, <1>13, <1>14, Zenon
<1>16. /\ o.rs.snapshotSent /\ o.rs.taskOf = r.taskOf
       /\ o.rs.completed = r.completed /\ o.rs.failed = r.failed
  BY <1>5 DEF RunStates
<1> QED  BY <1>4, <1>7, <1>15, <1>16, Zenon

LEMMA NewRunIs ==
    ASSUME NEW q \in Nat, NEW r, r = [NewRunState EXCEPT !.seq = q]
    PROVE  /\ r \in RunStates
           /\ \A s \in Stations : r.taskOf[s] = 0
           /\ r.completed = 0 /\ r.failed = 0
<1>1. r \in RunStates  BY NewRunTyped
<1> QED  BY <1>1 DEF NewRunState

LEMMA ConvertAgreed ==
    ASSUME NEW L \in Seq(Lines), NEW q \in Nat
    PROVE  \E r : Agreed(Shown(ConvertRun(L, q).out), r, L)
<1>1. PICK r0 : r0 = [NewRunState EXCEPT !.seq = q]  OBVIOUS
<1>2. /\ r0 \in RunStates /\ \A s \in Stations : r0.taskOf[s] = 0
      /\ r0.completed = 0 /\ r0.failed = 0
  BY <1>1, NewRunIs
<1>3. PICK o : o = Opened(r0)  OBVIOUS
<1>4. /\ o.out \in Seq(Envelopes) /\ o.rs \in RunStates /\ Shown(o.out) = Hydrated
      /\ o.rs.snapshotSent /\ o.rs.taskOf = r0.taskOf
      /\ o.rs.completed = r0.completed /\ o.rs.failed = r0.failed
  BY <1>2, <1>3, OpenedShown
<1>5. PICK a \in Seq(Envelopes) : a = o.out  BY <1>4
<1>6. PICK r1 \in RunStates : r1 = o.rs  BY <1>4
<1>7. PICK t \in [0..Len(L) -> Translated] :
          /\ t[0] = [out |-> <<>>, rs |-> r1]
          /\ \A i \in 1..Len(L) : t[i] = TakeLine(t[i - 1], L[i])
          /\ TranslateAll(L, r1) = t[Len(L)]
  BY TranslatedInOrder
<1>8. PICK n \in Nat : n = Len(L)  OBVIOUS
<1> DEFINE Good(i) == /\ Agreed(Shown(a \o t[i].out), t[i].rs, SubSeq(L, 1, i))
                      /\ t[i].rs.snapshotSent
           G == {i \in Nat : i <= n => Good(i)}
<1>9. 0 \in G
  <2>1. Agreed(Hydrated, r1, <<>>)
    <3>1. r1.completed = 0 /\ r1.failed = 0 /\ \A s \in Stations : r1.taskOf[s] = 0
      BY <1>2, <1>4, <1>6
    <3> QED  BY <3>1, NothingAgreed
  <2>2. a \o <<>> = a /\ SubSeq(L, 1, 0) = <<>>  OBVIOUS
  <2>3. t[0].out = <<>> /\ t[0].rs = r1  BY <1>7
  <2>4. Good(0)  BY <1>4, <1>5, <1>6, <2>1, <2>2, <2>3
  <2> QED  BY <2>4
<1>10. ASSUME NEW i \in Nat, i \in G
       PROVE  i + 1 \in G
  <2> HIDE DEF Good
  <2> SUFFICES ASSUME i + 1 <= n
               PROVE  Good(i + 1)
    OBVIOUS
  <2>1. Good(i) /\ i \in 0..n /\ i + 1 \in 1..n /\ (i + 1) - 1 = i  BY <1>10
  <2>2. t[i] \in Translated  BY <1>8, <2>1
  <2>3. PICK out0 \in Seq(Envelopes) : out0 = t[i].out  BY <2>2 DEF Translated
  <2>4. PICK r \in RunStates : r = t[i].rs  BY <2>2 DEF Translated
  <2>5. PICK l \in Lines : l = L[i + 1]  BY <1>8, <2>1
  <2>6. t[i + 1] = TakeLine(t[i], l)  BY <1>7, <1>8, <2>1, <2>5
  <2>7. t[i + 1].out = out0 \o Translate(l, r).out /\ t[i + 1].rs = Translate(l, r).rs
    <3>1. PICK u : u = Translate(l, r)  OBVIOUS
    <3>2. TakeLine(t[i], l) = [out |-> t[i].out \o Translate(l, t[i].rs).out,
                               rs |-> Translate(l, t[i].rs).rs]
      BY Zenon DEF TakeLine
    <3>3. t[i + 1] = [out |-> out0 \o u.out, rs |-> u.rs]
      BY <2>3, <2>4, <2>6, <3>1, <3>2, Zenon
    <3>4. PICK a2, b2 : a2 = out0 \o u.out /\ b2 = u.rs  OBVIOUS
    <3>5. t[i + 1] = [out |-> a2, rs |-> b2]  BY <3>3, <3>4, Zenon
    <3>6. t[i + 1].out = a2 /\ t[i + 1].rs = b2  BY <3>5
    <3> QED  BY <3>1, <3>4, <3>6, Zenon
  <2>8. PICK K : K = SubSeq(L, 1, i)  OBVIOUS
  <2>9. Agreed(Shown(a \o out0), r, K) /\ r.snapshotSent
    BY <2>1, <2>3, <2>4, <2>8 DEF Good
  <2>10. a \o out0 \in Seq(Envelopes)  OBVIOUS
  <2>11. PICK envs \in Seq(Envelopes) : envs = a \o out0  BY <2>10
  <2>12. Agreed(Shown(envs \o Translate(l, r).out), Translate(l, r).rs, Append(K, l))
    <3>1. Agreed(Shown(envs), r, K)  BY <2>9, <2>11
    <3>2. Unsent(r, K)  BY <2>9 DEF Unsent
    <3> QED  BY <3>1, <3>2, AgreedGrows
  <2>13. Translate(l, r) \in Translated  BY LineTranslated
  <2>14. PICK more \in Seq(Envelopes) : more = Translate(l, r).out  BY <2>13 DEF Translated
  <2>15. a \o (out0 \o more) = (a \o out0) \o more  OBVIOUS
  <2>16. Append(K, l) = SubSeq(L, 1, i + 1)
    BY <1>8, <2>1, <2>5, <2>8
  <2>17. Translate(l, r).rs.snapshotSent  BY <2>9, Remembers
  <2>18. PICK M : M = SubSeq(L, 1, i + 1)  OBVIOUS
  <2>19. Agreed(Shown(a \o t[i + 1].out), t[i + 1].rs, M)
    BY <2>7, <2>11, <2>12, <2>14, <2>15, <2>16, <2>18, Zenon
  <2> QED  BY <2>7, <2>17, <2>18, <2>19 DEF Good
<1> HIDE DEF Good
<1>11. Good(n)
  <2>1. G \in SUBSET Nat  OBVIOUS
  <2>2. Nat \subseteq G  BY <1>9, <1>10, NatSetInduction
  <2> QED  BY <2>2
<1>12. SubSeq(L, 1, n) = L  BY <1>8
<1>13. ConvertRun(L, q).out = a \o t[n].out
  <2>1. ConvertRun(L, q).out = Opened(r0).out \o TranslateAll(L, Opened(r0).rs).out
    BY <1>1 DEF ConvertRun
  <2> QED  BY <1>3, <1>5, <1>6, <1>7, <1>8, <2>1, Zenon
<1> QED  BY <1>11, <1>12, <1>13 DEF Good

-----------------------------------------------------------------------------
(* What a run writes, and what is made of it: the invariant behind the     *)
(* picture                                                                 *)

\* A run has begun, as far as the log shows.
RunBegun == \E j \in 1..Len(log) : log[j] \in Starters

\* No line speaks of a step before some run has begun.
Story ==
    /\ \A i \in 1..Len(log) :
          log[i].event \in StepEvents => \E j \in 1..(i - 1) : log[j] \in Starters
    /\ writer \in {"open"} \cup Stations => RunBegun \/ half = <<RunLine("plan.created")>>
    /\ \A l \in Lines : half = <<l>> /\ l.event \in StepEvents => RunBegun
    /\ half = Orphan => writer = "off"

LEMMA InitStory == Init => Story
<1> SUFFICES ASSUME Init
             PROVE  Story
  OBVIOUS
<1>1. PICK b \in Beginnings : log = b.log /\ writer = b.writer  BY DEF Init
<1>2. /\ log \in Seq(Lines)
      /\ writer \in {"open"} \cup Stations => Begun(log)
      /\ \A i \in 1..Len(log) : log[i].event \in StepEvents => Begun(SubSeq(log, 1, i - 1))
  BY <1>1, OpsConsoleAssumption
<1>3. half = <<>>  BY DEF Init
<1>4. Begun(log) => RunBegun
  <2>1. DOMAIN log = 1..Len(log)  BY <1>2
  <2> QED  BY <2>1 DEF Begun, ToSet, RunBegun
<1>5. ASSUME NEW i \in 1..Len(log), log[i].event \in StepEvents
      PROVE  \E j \in 1..(i - 1) : log[j] \in Starters
  <2>1. PICK L : L = SubSeq(log, 1, i - 1)  OBVIOUS
  <2>2. Begun(L)  BY <1>2, <1>5, <2>1
  <2>3. DOMAIN L = 1..(i - 1) /\ \A j \in 1..(i - 1) : L[j] = log[j]  BY <1>2, <2>1
  <2> QED  BY <2>2, <2>3 DEF Begun, ToSet
<1>6. /\ half # <<RunLine("plan.created")>> /\ half # Orphan
      /\ \A l \in Lines : half # <<l>>
  BY <1>3 DEF Orphan
<1> QED  BY <1>2, <1>4, <1>5, <1>6, Zenon DEF Story

\* A line more: what was begun stays so, and a line of a step needs a beginning.
LEMMA StoryGrows ==
    ASSUME Files, Story, NEW l \in Lines, log' = Append(log, l),
           l.event \in StepEvents => RunBegun
    PROVE  /\ (\A i \in 1..Len(log) :
                 log[i].event \in StepEvents => \E j \in 1..(i - 1) : log[j] \in Starters)'
           /\ RunBegun => RunBegun'
           /\ l \in Starters => RunBegun'
<1>1. PICK n \in Nat : n = Len(log)  BY DEF Files
<1>2. /\ Len(log') = n + 1 /\ log'[n + 1] = l
      /\ \A i \in 1..n : log'[i] = log[i]
  BY <1>1, Grown DEF Files
<1>3. RunBegun => RunBegun'  BY <1>1, <1>2 DEF RunBegun
<1>4. l \in Starters => RunBegun'  BY <1>1, <1>2 DEF RunBegun
<1>5. ASSUME NEW i \in 1..(n + 1), log'[i].event \in StepEvents
      PROVE  \E j \in 1..(i - 1) : log'[j] \in Starters
  <2>1. CASE i = n + 1
    <3>1. RunBegun  BY <1>2, <1>5, <2>1
    <3>2. PICK j \in 1..n : log[j] \in Starters  BY <1>1, <3>1 DEF RunBegun
    <3> QED  BY <1>2, <2>1, <3>2
  <2>2. CASE i \in 1..n
    <3>1. PICK j \in 1..(i - 1) : log[j] \in Starters
      BY <1>1, <1>2, <1>5, <2>2 DEF Story
    <3>2. j \in 1..n  BY <2>2
    <3> QED  BY <1>2, <3>1, <3>2
  <2>3. i = n + 1 \/ i \in 1..n  OBVIOUS
  <2> QED  BY <2>1, <2>2, <2>3
<1> QED  BY <1>1, <1>2, <1>3, <1>4, <1>5

LEMMA WriteStory ==
    ASSUME Files, Story, NEW line \in Lines, Write(line)
    PROVE  Story'
<1>1. PICK after \in Places : Follows(line, after) /\ writer' = after  BY DEF Write
<1>2. half = <<>> \/ half = Orphan  BY DEF Write
<1>3. \/ log' = Append(log, IF half = Orphan THEN Junk ELSE line) /\ half' = <<>>
      \/ half = <<>> /\ half' = <<line>> /\ log' = log
  BY DEF Write
<1>4. {"off", "planning", "open"} \cap Stations = {}  BY OpsConsoleAssumption
<1>5. half # <<RunLine("plan.created")>>  BY <1>2 DEF Orphan, Junk, RunLine
<1>6. writer \in {"open"} \cup Stations => RunBegun  BY <1>5 DEF Story
<1>7. /\ after \in {"open"} \cup Stations =>
             line = RunLine("plan.created") \/ writer \in {"open"} \cup Stations
      /\ line.event \in StepEvents => writer \in {"open"} \cup Stations
  <2>1. CASE writer = "off" /\ line = RunLine("run.start") /\ after = "planning"
    BY <1>4, <2>1 DEF RunLine, StepEvents
  <2>2. CASE writer = "planning" /\ line = RunLine("plan.created") /\ after = "open"
    BY <1>4, <2>2 DEF RunLine, StepEvents
  <2>3. CASE writer \in {"open"} \cup Stations
    BY <2>3
  <2> QED  BY <1>1, <2>1, <2>2, <2>3 DEF Follows
<1>8. line.event \in StepEvents => RunBegun  BY <1>6, <1>7
<1>9. half = Orphan => writer = "off" /\ after = "planning"
  <2> SUFFICES ASSUME half = Orphan
               PROVE  writer = "off" /\ after = "planning"
    OBVIOUS
  <2>1. writer = "off"  BY DEF Story
  <2>2. writer \notin Stations /\ writer # "open" /\ writer # "planning"  BY <1>4, <2>1
  <2> QED  BY <1>1, <2>1, <2>2 DEF Follows
<1>10. CASE half = <<>> /\ half' = <<line>> /\ log' = log
  <2>1. RunBegun' <=> RunBegun  BY <1>10 DEF RunBegun
  <2>2. half' # Orphan
    <3>1. line # Junk
      BY <1>1 DEF Follows, Junk, RunLine, StepLine
    <3> QED  BY <1>10, <3>1 DEF Orphan
  <2>3. writer' \in {"open"} \cup Stations =>
            RunBegun' \/ half' = <<RunLine("plan.created")>>
    BY <1>1, <1>6, <1>7, <1>10, <2>1
  <2>4. \A l \in Lines : half' = <<l>> /\ l.event \in StepEvents => RunBegun'
    BY <1>8, <1>10, <2>1
  <2> QED  BY <1>10, <2>2, <2>3, <2>4 DEF Story
<1>11. CASE log' = Append(log, IF half = Orphan THEN Junk ELSE line) /\ half' = <<>>
  <2>1. PICK l \in Lines : l = IF half = Orphan THEN Junk ELSE line  BY JunkIsLine
  <2>2. log' = Append(log, l)  BY <1>11, <2>1
  <2>3. l.event \in StepEvents => RunBegun
    BY <1>8, <2>1 DEF Junk, RunLine, StepEvents
  <2>4. /\ (\A i \in 1..Len(log) :
              log[i].event \in StepEvents => \E j \in 1..(i - 1) : log[j] \in Starters)'
        /\ RunBegun => RunBegun'
        /\ l \in Starters => RunBegun'
    BY <2>2, <2>3, StoryGrows
  <2>5. writer' \in {"open"} \cup Stations => RunBegun'
    <3>1. CASE half = Orphan  BY <1>1, <1>4, <1>9, <3>1
    <3>2. CASE half # Orphan
      <4>1. l = line  BY <2>1, <3>2
      <4> QED  BY <1>1, <1>6, <1>7, <2>4, <4>1 DEF Starters
    <3> QED  BY <3>1, <3>2
  <2>6. half' # Orphan /\ \A x \in Lines : half' # <<x>>  BY <1>11 DEF Orphan
  <2> QED  BY <2>4, <2>5, <2>6 DEF Story
<1> QED  BY <1>3, <1>10, <1>11

LEMMA StoryKept == Files /\ Story /\ [Next]_vars => Story'
<1> SUFFICES ASSUME Files, Story, [Next]_vars
             PROVE  Story'
  OBVIOUS
<1> USE DEF logVars, tailVars, pageVars
<1>1. ASSUME NEW line \in Lines, Write(line)
      PROVE  Story'
  BY <1>1, WriteStory
<1>2. CASE WriteRest
  <2>1. /\ half # <<>> /\ half # Orphan /\ log' = log \o half
        /\ half' = <<>> /\ writer' = writer
    BY <1>2 DEF WriteRest
  <2>2. PICK line \in Lines : half = <<line>>  BY <2>1 DEF Files
  <2>3. log' = Append(log, line)  BY <2>1, <2>2 DEF Files
  <2>4. line.event \in StepEvents => RunBegun  BY <2>2 DEF Story
  <2>5. /\ (\A i \in 1..Len(log) :
              log[i].event \in StepEvents => \E j \in 1..(i - 1) : log[j] \in Starters)'
        /\ RunBegun => RunBegun'
        /\ line \in Starters => RunBegun'
    BY <2>3, <2>4, StoryGrows
  <2>6. half = <<RunLine("plan.created")>> => line \in Starters
    BY <2>2 DEF Starters
  <2>7. writer' \in {"open"} \cup Stations => RunBegun'
    BY <2>1, <2>5, <2>6 DEF Story
  <2>8. half' # Orphan /\ \A x \in Lines : half' # <<x>>  BY <2>1 DEF Orphan
  <2> QED  BY <2>5, <2>7, <2>8 DEF Story
<1>3. CASE Kill
  <2>1. log' = log /\ writer' = "off" /\ half' \in {<<>>, Orphan}
    BY <1>3 DEF Kill
  <2>2. writer' \notin {"open"} \cup Stations  BY <2>1, OpsConsoleAssumption
  <2>3. ASSUME NEW l \in Lines, half' = <<l>>
        PROVE  l.event \notin StepEvents
    BY <2>1, <2>3 DEF Orphan, Junk, RunLine, StepEvents
  <2> QED  BY <2>1, <2>2, <2>3 DEF Story
<1>4. CASE UNCHANGED <<log, half, writer>>
  BY <1>4 DEF Story, RunBegun
<1>5. CASE Tailing
  BY <1>4, <1>5 DEF Tailing, TailLine, TailHalf, WatchPoll, WatchLine, Broadcast
<1>6. CASE LoadRun  BY <1>4, <1>6 DEF LoadRun
<1>7. ASSUME NEW c \in Streams, Serving(c) \/ Open(c) \/ Leave(c)
      PROVE  Story'
  BY <1>4, <1>7 DEF Serving, Accept, Deliver, EndReplay, Notice, Release, Open, Leave
<1>8. CASE UNCHANGED vars  BY <1>4, <1>8 DEF vars
<1> QED  BY <1>1, <1>2, <1>3, <1>5, <1>6, <1>7, <1>8 DEF Next

\* Neither a step nor the beginning of a run is spoken of.
Idle(L) == \A i \in 1..Len(L) : L[i] \notin Starters /\ L[i].event \notin StepEvents

\* What the bridge or the watch has translated is what the log says; only the watch
\* opens its feed with a snapshot that its state does not remember, and then it has
\* read of no run yet.
Drawn ==
    /\ Agreed(Shown(sent \o out), rs, Heard)
    /\ rs.snapshotSent \/ (mode = "watch" /\ Idle(Heard))

\* What was converted is what the log said then, and a stream has all of it before it
\* or behind it.
Replayed ==
    /\ out = <<>>
    /\ \E r : Agreed(Shown(cached), r, SubSeq(log, 1, loaded))
    /\ \A c \in Streams :
        IF stage[c] = "attached"
        THEN (got[c] = <<>> /\ queue[c] = cached) \/ (got[c] = cached /\ queue[c] = <<>>)
        ELSE got[c] = <<>>

Faithful == IF mode = "replay" THEN Replayed ELSE Drawn

\* What was heard, when a line more is and when the log grows.
LEMMA HeardTyped ==
    ASSUME Files, Tails, mode # "replay"
    PROVE  /\ Heard \in Seq(Lines) /\ Len(Heard) = Len(taken) /\ Len(taken) \in Nat
           /\ \A i \in 1..Len(taken) :
                 Heard[i] = IF taken[i] = 0 THEN RestOf(i) ELSE log[taken[i]]
<1>1. PICK n \in Nat : n = Len(taken) /\ DOMAIN taken = 1..n  BY DEF Tails
<1>2. Heard = [i \in 1..n |-> IF taken[i] = 0 THEN RestOf(i) ELSE log[taken[i]]]
  BY <1>1 DEF Heard
<1>3. ASSUME NEW i \in 1..n
      PROVE  (IF taken[i] = 0 THEN RestOf(i) ELSE log[taken[i]]) \in Lines
  <2>1. taken[i] \in Nat /\ taken[i] <= Len(log)  BY <1>1 DEF Tails
  <2>2. CASE taken[i] = 0  BY <2>2, RestIsLine
  <2>3. CASE taken[i] # 0
    <3>1. taken[i] \in 1..Len(log)  BY <2>1, <2>3 DEF Files
    <3> QED  BY <2>3, <3>1 DEF Files
  <2> QED  BY <2>2, <2>3
<1>4. Heard \in Seq(Lines) /\ Len(Heard) = n  BY <1>2, <1>3
<1> QED  BY <1>1, <1>2, <1>4

\* Only the bridge tears a line, and then it has read as far as that one.
LEMMA TornRead ==
    ASSUME Files, Tails, mode # "replay", NEW i \in 1..Len(taken), taken[i] = 0
    PROVE  mode = "bridge" /\ i \in 1..Len(log)
<1>1. Len(taken) \in Nat /\ Len(log) \in Nat  BY DEF Files, Tails
<1>2. mode # "watch"
  <2> SUFFICES ASSUME mode = "watch"
               PROVE  FALSE
    OBVIOUS
  <2>1. PICK h \in 0..Len(log) : ToSet(taken) = Sound(h)  BY DEF Tails, WatchAt
  <2>2. i \in DOMAIN taken  BY DEF Tails
  <2>3. 0 \in Sound(h)  BY <2>1, <2>2 DEF ToSet
  <2> QED  BY <2>3 DEF Sound
<1>3. mode = "bridge"  BY <1>2 DEF Files
<1> QED  BY <1>1, <1>3 DEF Tails, BridgeAt

LEMMA HeardKept ==
    ASSUME Files, Tails, mode # "replay", mode' = mode, LogKept, taken' = taken
    PROVE  Heard' = Heard
<1>1. PICK n \in Nat : n = Len(taken) /\ DOMAIN taken = 1..n  BY DEF Tails
<1>2. Heard = [i \in 1..n |-> IF taken[i] = 0 THEN RestOf(i) ELSE log[taken[i]]]
  BY <1>1 DEF Heard
<1>3. Heard' = [i \in 1..n |-> IF taken[i] = 0 THEN RestOf(i)' ELSE log'[taken[i]]]
  BY <1>1 DEF Heard, RestOf
<1>4. ASSUME NEW i \in 1..n, taken[i] # 0
      PROVE  log'[taken[i]] = log[taken[i]]
  <2>1. taken[i] \in Nat /\ taken[i] <= Len(log)  BY <1>1 DEF Tails
  <2>2. taken[i] \in 1..Len(log)  BY <1>4, <2>1 DEF Files
  <2> QED  BY <2>2 DEF LogKept
<1>5. ASSUME NEW i \in 1..n, taken[i] = 0
      PROVE  RestOf(i)' = RestOf(i)
  <2>1. i \in 1..Len(log)  BY <1>1, <1>5, TornRead
  <2>2. log'[i] = log[i]  BY <2>1 DEF LogKept
  <2> QED  BY <2>2 DEF RestOf
<1> QED  BY <1>2, <1>3, <1>4, <1>5

LEMMA HeardGrows ==
    ASSUME Files, Tails, mode # "replay", mode' = mode, log' = log,
           NEW p \in 0..Len(log), taken' = Append(taken, p),
           NEW l, l = IF p = 0 THEN RestOf(Len(taken) + 1) ELSE log[p]
    PROVE  Heard' = Append(Heard, l)
<1>1. PICK n \in Nat : n = Len(taken) /\ DOMAIN taken = 1..n  BY DEF Tails
<1>2. /\ Heard \in Seq(Lines) /\ Len(Heard) = n
      /\ \A i \in 1..n : Heard[i] = IF taken[i] = 0 THEN RestOf(i) ELSE log[taken[i]]
  BY <1>1, HeardTyped
<1>3. /\ taken' \in Seq(Nat) /\ DOMAIN taken' = 1..(n + 1) /\ taken'[n + 1] = p
      /\ \A i \in 1..n : taken'[i] = taken[i]
  BY <1>1 DEF Tails, Files
<1>4. Heard' = [i \in 1..(n + 1) |-> IF taken'[i] = 0 THEN RestOf(i) ELSE log[taken'[i]]]
  BY <1>3 DEF Heard, RestOf
<1>5. Append(Heard, l) = [i \in 1..(n + 1) |-> IF i = n + 1 THEN l ELSE Heard[i]]
  BY <1>1, <1>2
<1>6. ASSUME NEW i \in 1..(n + 1)
      PROVE  (IF taken'[i] = 0 THEN RestOf(i) ELSE log[taken'[i]])
             = (IF i = n + 1 THEN l ELSE Heard[i])
  <2>1. CASE i = n + 1  BY <1>1, <1>3, <2>1
  <2>2. CASE i # n + 1
    <3>1. i \in 1..n  BY <1>1, <2>2
    <3> QED  BY <1>2, <1>3, <2>2, <3>1
  <2> QED  BY <2>1, <2>2
<1> QED  BY <1>4, <1>5, <1>6, Zenon

LEMMA IdleNothing ==
    ASSUME NEW L \in Seq(Lines), Idle(L)
    PROVE  Nothing(L)
<1> SUFFICES ASSUME NEW i \in 1..Len(L)
             PROVE  L[i].event \notin StepEvents /\ L[i].event # "run.start"
  BY DEF Nothing
<1>1. L[i] \in Lines /\ L[i] \notin Starters /\ L[i].event \notin StepEvents  BY DEF Idle
<1>2. PICK l \in Lines : l = L[i]  BY <1>1
<1>3. l.event = "run.start" => l = RunLine("run.start")
  BY <1>1, <1>2 DEF Lines, RunLine, StepEvents
<1> QED  BY <1>1, <1>2, <1>3 DEF Starters

LEMMA IdleGrows ==
    ASSUME NEW L \in Seq(Lines), Idle(L), NEW l \in Lines, l \notin Starters,
           l.event \notin StepEvents
    PROVE  Idle(Append(L, l))
<1>1. PICK M : M = Append(L, l)  OBVIOUS
<1>2. /\ Len(M) = Len(L) + 1 /\ Len(L) \in Nat /\ M[Len(L) + 1] = l
      /\ \A i \in 1..Len(L) : M[i] = L[i]
  BY <1>1
<1>3. ASSUME NEW i \in 1..Len(M)
      PROVE  M[i] \notin Starters /\ M[i].event \notin StepEvents
  <2>1. i = Len(L) + 1 \/ i \in 1..Len(L)  BY <1>2
  <2> QED  BY <1>2, <2>1 DEF Idle
<1> QED  BY <1>1, <1>3 DEF Idle

LEMMA JunkSilent ==
    ASSUME NEW r \in RunStates
    PROVE  Translate(Junk, r).out = <<>> /\ Translate(Junk, r).rs = r
<1>1. Translate(Junk, r) = [out |-> <<>>, rs |-> r]  BY DEF Translate, Junk, RunLine
<1> QED  BY <1>1

\* A line is translated: the feed that follows is as true as the one before.
LEMMA LineTold ==
    ASSUME Drawn, sent \in Seq(Envelopes), out = <<>>, NEW l \in Lines, sent' = sent,
           out' = Translate(l, rs).out, rs' = Translate(l, rs).rs,
           Heard' = Append(Heard, l), mode' = mode,
           Idle(Heard) /\ l.event \in StepEvents => rs.snapshotSent
    PROVE  Drawn'
<1>1. PICK r \in RunStates : r = rs  BY DEF Drawn, Agreed
<1>2. PICK L \in Seq(Lines) : L = Heard  BY DEF Drawn, Agreed
<1>3. sent \o out = sent  OBVIOUS
<1>4. Agreed(Shown(sent), r, L)  BY <1>1, <1>2, <1>3 DEF Drawn
<1>5. Unsent(r, L)  BY <1>1, <1>2, IdleNothing DEF Drawn, Unsent
<1>6. Agreed(Shown(sent \o Translate(l, r).out), Translate(l, r).rs, Append(L, l))
  BY <1>4, <1>5, AgreedGrows
<1>7. Agreed(Shown(sent' \o out'), rs', Heard')
  BY <1>1, <1>2, <1>6, Zenon
<1>8. rs'.snapshotSent \/ (mode' = "watch" /\ Idle(Heard'))
  <2>1. CASE r.snapshotSent
    <3>1. Translate(l, r).rs.snapshotSent  BY <2>1, Remembers
    <3> QED  BY <1>1, <3>1, Zenon
  <2>2. CASE l \in Starters
    <3>1. Translate(l, r).rs.snapshotSent  BY <2>2, Remembers
    <3> QED  BY <1>1, <3>1, Zenon
  <2>3. CASE ~r.snapshotSent /\ l \notin Starters
    <3>1. mode = "watch" /\ Idle(L)  BY <1>1, <1>2, <2>3 DEF Drawn
    <3>2. l.event \notin StepEvents  BY <1>1, <1>2, <2>3, <3>1
    <3>3. Idle(Append(L, l))  BY <2>3, <3>1, <3>2, IdleGrows
    <3> QED  BY <1>2, <3>1, <3>3, Zenon
  <2> QED  BY <2>1, <2>2, <2>3
<1> QED  BY <1>7, <1>8 DEF Drawn

\* Nothing is translated, and what was is sent or to be sent as it was.
LEMMA StillTold ==
    ASSUME Drawn, sent' \o out' = sent \o out, rs' = rs, Heard' = Heard, mode' = mode
    PROVE  Drawn'
<1>1. PICK a, b, L : a = sent \o out /\ b = rs /\ L = Heard  OBVIOUS
<1>2. Agreed(Shown(sent' \o out'), rs', Heard')  BY <1>1, Zenon DEF Drawn
<1>3. rs'.snapshotSent \/ (mode' = "watch" /\ Idle(Heard'))  BY Zenon DEF Drawn
<1> QED  BY <1>2, <1>3 DEF Drawn

LEMMA TailTold ==
    ASSUME Files, Tails, Feeds, Drawn, TailLine
    PROVE  Drawn'
<1>1. /\ mode = "bridge" /\ out = <<>> /\ cursor < Len(log)
      /\ taken' = Append(taken, IF bitten THEN 0 ELSE cursor + 1)
      /\ mode' = mode /\ log' = log /\ sent' = sent
      /\ Handle(IF bitten THEN RestOf(cursor + 1) ELSE log[cursor + 1])
  BY DEF TailLine, logVars
<1>2. cursor \in Nat /\ Len(log) \in Nat  BY <1>1 DEF Tails, Files
<1>3. PICK p \in 0..Len(log) : p = IF bitten THEN 0 ELSE cursor + 1  BY <1>1, <1>2
<1>4. PICK l \in Lines : l = IF bitten THEN RestOf(cursor + 1) ELSE log[cursor + 1]
  <2>1. cursor + 1 \in 1..Len(log)  BY <1>1, <1>2
  <2>2. log[cursor + 1] \in Lines  BY <2>1 DEF Files
  <2> QED  BY <2>2, RestIsLine
<1>5. l = IF p = 0 THEN RestOf(Len(taken) + 1) ELSE log[p]
  <2>1. Len(taken) = cursor  BY <1>1 DEF Tails, BridgeAt
  <2> QED  BY <1>2, <1>3, <1>4, <2>1
<1>6. Heard' = Append(Heard, l)  BY <1>1, <1>3, <1>5, HeardGrows
<1>7. out' = Translate(l, rs).out /\ rs' = Translate(l, rs).rs  BY <1>1, <1>4 DEF Handle
<1>8. rs.snapshotSent  BY <1>1 DEF Drawn
<1> QED  BY <1>1, <1>6, <1>7, <1>8, LineTold DEF Feeds

LEMMA WatchTold ==
    ASSUME Files, Story, Tails, Feeds, Drawn, WatchLine
    PROVE  Drawn'
<1>1. /\ batch # <<>> /\ out = <<>>
      /\ Handle(log[Head(batch)])
      /\ IF log[Head(batch)] = Junk THEN taken' = taken ELSE taken' = Append(taken, Head(batch))
      /\ mode' = mode /\ log' = log /\ sent' = sent
  BY DEF WatchLine, logVars
<1>2. mode = "watch"  BY <1>1 DEF Tails
<1>3. PICK h \in 0..Len(log) :
        /\ ToSet(taken) = Sound(h) /\ cursor = Len(taken)
        /\ cursor < batch[1] /\ batch[1] <= h + 1
        /\ batch[1] + Len(batch) - 1 <= Len(log)
  BY <1>1, <1>2 DEF Tails, WatchAt
<1>4. PICK p \in Nat : p = Head(batch) /\ p = batch[1]  BY <1>1 DEF Tails
<1>5. /\ p \in 1..Len(log) /\ p <= h + 1
  <2>1. Len(batch) \in Nat /\ Len(batch) > 0 /\ Len(taken) \in Nat /\ Len(log) \in Nat
    BY <1>1 DEF Tails, Files
  <2> QED  BY <1>3, <1>4, <2>1
<1>6. PICK l \in Lines : l = log[p]  BY <1>5 DEF Files
<1>7. out' = Translate(l, rs).out /\ rs' = Translate(l, rs).rs
  BY <1>1, <1>4, <1>6 DEF Handle
<1>8. CASE l = Junk
  <2>1. taken' = taken  BY <1>1, <1>4, <1>6, <1>8
  <2>2. LogKept  BY <1>1 DEF Files, LogKept
  <2>3. Heard' = Heard  BY <1>1, <1>2, <2>1, <2>2, HeardKept
  <2>4. PICK r \in RunStates : r = rs  BY DEF Feeds
  <2>5. out' = <<>> /\ rs' = rs  BY <1>7, <1>8, <2>4, JunkSilent, Zenon
  <2>6. sent' \o out' = sent \o out  BY <1>1, <2>5
  <2> QED  BY <1>1, <2>3, <2>5, <2>6, StillTold
<1>9. CASE l # Junk
  <2>1. taken' = Append(taken, p)  BY <1>1, <1>4, <1>6, <1>9
  <2>2. p \in 0..Len(log) /\ l = IF p = 0 THEN RestOf(Len(taken) + 1) ELSE log[p]
    BY <1>5, <1>6
  <2>3. Heard' = Append(Heard, l)  BY <1>1, <1>2, <2>1, <2>2, HeardGrows
  <2>4. ASSUME Idle(Heard), l.event \in StepEvents
        PROVE  FALSE
    <3>1. PICK j \in 1..(p - 1) : log[j] \in Starters
      BY <1>5, <1>6, <2>4 DEF Story
    <3>2. j \in 1..h  BY <1>3, <1>5
    <3>3. log[j] # Junk  BY <3>1 DEF Starters, RunLine, Junk
    <3>4. j \in ToSet(taken)  BY <1>3, <3>2, <3>3 DEF Sound
    <3>5. PICK k \in 1..Len(taken) : taken[k] = j
      <4>1. \E k \in DOMAIN taken : taken[k] = j  BY <3>4 DEF ToSet
      <4>2. DOMAIN taken = 1..Len(taken)  BY DEF Tails
      <4> QED  BY <4>1, <4>2
    <3>6. Heard[k] = log[j] /\ k \in 1..Len(Heard)
      <4>1. /\ Len(Heard) = Len(taken)
            /\ Heard[k] = IF taken[k] = 0 THEN RestOf(k) ELSE log[taken[k]]
        BY <1>2, HeardTyped
      <4>2. taken[k] # 0  BY <3>5
      <4> QED  BY <3>5, <4>1, <4>2
    <3> QED  BY <2>4, <3>1, <3>6 DEF Idle
  <2> QED  BY <1>1, <1>7, <2>3, <2>4, LineTold DEF Feeds
<1> QED  BY <1>8, <1>9

\* A step that neither translates, nor broadcasts, nor loads.
LEMMA TrueUndisturbed ==
    ASSUME Typed, Faithful, Files', LogKept, mode' = mode,
           UNCHANGED <<taken, rs, out, sent, cached, loaded>>,
           mode = "replay" => \A c \in Streams :
               IF stage'[c] = "attached"
               THEN \/ got'[c] = <<>> /\ queue'[c] = cached
                    \/ got'[c] = cached /\ queue'[c] = <<>>
               ELSE got'[c] = <<>>
    PROVE  Faithful'
<1>1. CASE mode = "replay"
  <2>1. SubSeq(log', 1, loaded) = SubSeq(log, 1, loaded)
    <3>1. log \in Seq(Lines) /\ loaded \in 0..Len(log)  BY DEF Typed, Files, Feeds
    <3>2. PICK n \in Nat : n = loaded  BY <3>1
    <3>3. SubSeq(log, 1, n) = [i \in 1..n |-> log[i]]  BY <3>1, <3>2
    <3>4. SubSeq(log', 1, n) = [i \in 1..n |-> log'[i]]
      <4>1. log' \in Seq(Lines) /\ n <= Len(log')  BY <3>1, <3>2 DEF LogKept, Files
      <4> QED  BY <4>1
    <3>5. \A i \in 1..n : log'[i] = log[i]  BY <3>1, <3>2 DEF LogKept
    <3> QED  BY <3>2, <3>3, <3>4, <3>5
  <2>2. PICK r : Agreed(Shown(cached), r, SubSeq(log, 1, loaded))
    BY <1>1 DEF Faithful, Replayed
  <2>3. Agreed(Shown(cached'), r, SubSeq(log', 1, loaded'))
    BY <2>1, <2>2, Zenon
  <2>4. out' = <<>>  BY <1>1 DEF Faithful, Replayed
  <2>5. Replayed'  BY <1>1, <2>3, <2>4 DEF Replayed
  <2> QED  BY <1>1, <2>5 DEF Faithful
<1>2. CASE mode # "replay"
  <2>1. Heard' = Heard  BY <1>2, HeardKept DEF Typed
  <2>2. Drawn  BY <1>2 DEF Faithful
  <2>3. Drawn'  BY <2>1, <2>2, StillTold
  <2> QED  BY <1>2, <2>3 DEF Faithful
<1> QED  BY <1>1, <1>2

\* The envelope at the head of what is to be sent is sent.
LEMMA BroadcastTrue ==
    ASSUME Typed, Faithful, LogKept, mode' = mode, Broadcast
    PROVE  Faithful'
<1>1. /\ out # <<>> /\ sent' = Append(sent, Head(out)) /\ out' = Tail(out)
      /\ taken' = taken /\ rs' = rs
  BY DEF Broadcast, tailVars
<1>2. mode # "replay"  BY <1>1 DEF Faithful, Replayed
<1>3. Heard' = Heard  BY <1>1, <1>2, HeardKept DEF Typed
<1>4. sent' \o out' = sent \o out
  <2>1. PICK e \in Envelopes : e = Head(out)  BY <1>1 DEF Typed, Feeds
  <2>2. PICK rest \in Seq(Envelopes) : rest = Tail(out)
    <3>1. Tail(out) \in Seq(Envelopes)  BY <1>1 DEF Typed, Feeds
    <3> QED  BY <3>1
  <2>3. out = <<e>> \o rest  BY <1>1, <2>1, <2>2 DEF Typed, Feeds
  <2>4. Append(sent, e) \o rest = sent \o (<<e>> \o rest)  BY DEF Typed, Feeds
  <2> QED  BY <1>1, <2>1, <2>2, <2>3, <2>4
<1>5. Drawn  BY <1>2 DEF Faithful
<1>6. Drawn'  BY <1>1, <1>3, <1>4, <1>5, StillTold
<1> QED  BY <1>2, <1>6 DEF Faithful

\* What is loaded is converted anew, and nobody is being served.
LEMMA LoadTrue ==
    ASSUME Typed, Faithful, LoadRun
    PROVE  Faithful'
<1>1. /\ mode = "replay" /\ served = NoStream /\ mode' = mode /\ log' = log
      /\ cached' = ConvertRun(log, rs.seq).out /\ loaded' = Len(log)
      /\ UNCHANGED <<out, queue, stage, got>>
  BY DEF LoadRun, logVars, pageVars
<1>2. PICK q \in Nat : q = rs.seq  BY DEF Typed, Feeds, RunStates
<1>3. log \in Seq(Lines)  BY DEF Typed, Files
<1>4. PICK r : Agreed(Shown(ConvertRun(log, q).out), r, log)  BY <1>3, ConvertAgreed
<1>5. SubSeq(log, 1, Len(log)) = log  BY <1>3
<1>6. Agreed(Shown(cached'), r, SubSeq(log', 1, loaded'))
  BY <1>1, <1>2, <1>4, <1>5, Zenon
<1>7. \A c \in Streams : stage[c] # "attached"
  BY <1>1, OpsConsoleAssumption DEF Typed, Service
<1>8. out' = <<>> /\ \A c \in Streams : stage'[c] # "attached" /\ got'[c] = <<>>
  BY <1>1, <1>7 DEF Faithful, Replayed
<1>9. Replayed'  BY <1>6, <1>8 DEF Replayed
<1> QED  BY <1>1, <1>9 DEF Faithful

\* A stream of a replay is handed the whole list, and has it once it is written.
LEMMA ServingTrue ==
    ASSUME Typed, Faithful, mode = "replay", NEW c \in Streams,
           Serving(c) \/ Open(c) \/ Leave(c)
    PROVE  \A d \in Streams :
               IF stage'[d] = "attached"
               THEN \/ got'[d] = <<>> /\ queue'[d] = cached
                    \/ got'[d] = cached /\ queue'[d] = <<>>
               ELSE got'[d] = <<>>
<1>1. \A d \in Streams : IF stage[d] = "attached"
                         THEN \/ got[d] = <<>> /\ queue[d] = cached
                              \/ got[d] = cached /\ queue[d] = <<>>
                         ELSE got[d] = <<>>
  BY DEF Faithful, Replayed
<1>2. /\ stage \in [Streams -> {"away", "waiting", "attached", "gone"}]
      /\ queue \in [Streams -> Seq(Envelopes)] /\ got \in [Streams -> Seq(Envelopes)]
      /\ cached \in Seq(Envelopes)
  BY DEF Typed, Service, Feeds
<1>3. CASE Accept(c)
  <2>1. stage[c] = "waiting" /\ stage' = [stage EXCEPT ![c] = "attached"] /\ got' = got
        /\ queue' = [queue EXCEPT ![c] = cached]
    BY <1>3 DEF Accept
  <2>2. got[c] = <<>>  BY <1>1, <2>1
  <2> QED  BY <1>1, <1>2, <2>1, <2>2
<1>4. CASE Deliver(c)
  <2>1. stage[c] = "attached" /\ queue[c] # <<>> /\ stage' = stage
        /\ got' = [got EXCEPT ![c] = got[c] \o queue[c]]
        /\ queue' = [queue EXCEPT ![c] = <<>>]
    BY <1>4 DEF Deliver
  <2>2. got[c] = <<>> /\ queue[c] = cached  BY <1>1, <2>1
  <2>3. got[c] \o queue[c] = cached  BY <1>2, <2>2
  <2>4. got'[c] = cached /\ queue'[c] = <<>> /\ stage'[c] = "attached"
    BY <1>2, <2>1, <2>3
  <2>5. ASSUME NEW d \in Streams, d # c
        PROVE  stage'[d] = stage[d] /\ got'[d] = got[d] /\ queue'[d] = queue[d]
    BY <1>2, <2>1, <2>5
  <2> QED  BY <1>1, <2>4, <2>5
<1>5. CASE EndReplay(c) \/ Notice(c)
  <2>1. stage' = [stage EXCEPT ![c] = "away"] /\ got' = [got EXCEPT ![c] = <<>>]
        /\ queue' = [queue EXCEPT ![c] = <<>>]
    BY <1>5 DEF EndReplay, Notice, Release
  <2> QED  BY <1>1, <1>2, <2>1
<1>6. CASE Open(c)
  <2>1. stage[c] = "away" /\ stage' = [stage EXCEPT ![c] = "waiting"]
        /\ got' = got /\ queue' = queue
    BY <1>6 DEF Open
  <2> QED  BY <1>1, <1>2, <2>1
<1>7. CASE Leave(c)
  <2>1. stage' = [stage EXCEPT ![c] = "gone"] /\ got' = [got EXCEPT ![c] = <<>>]
        /\ queue' = queue
    BY <1>7 DEF Leave
  <2> QED  BY <1>1, <1>2, <2>1
<1> QED  BY <1>3, <1>4, <1>5, <1>6, <1>7 DEF Serving

LEMMA InitFaithful == Init => Faithful
<1> SUFFICES ASSUME Init
             PROVE  Faithful
  OBVIOUS
<1>1. Typed  BY InitTyped
<1>2. log \in Seq(Lines)  BY <1>1 DEF Typed, Files
<1>3. CASE mode = "replay"
  <2>1. cached = ConvertRun(log, 0).out /\ loaded = Len(log) /\ out = <<>>
    BY <1>3 DEF Init
  <2>2. PICK r : Agreed(Shown(ConvertRun(log, 0).out), r, log)  BY <1>2, ConvertAgreed
  <2>3. SubSeq(log, 1, Len(log)) = log  BY <1>2
  <2>4. Agreed(Shown(cached), r, SubSeq(log, 1, loaded))  BY <2>1, <2>2, <2>3, Zenon
  <2>5. \A c \in Streams : stage[c] # "attached" /\ got[c] = <<>>  BY DEF Init
  <2>6. Replayed  BY <2>1, <2>4, <2>5 DEF Replayed
  <2> QED  BY <1>3, <2>6 DEF Faithful
<1>4. CASE mode # "replay"
  <2>1. /\ out = Opened(NewRunState).out /\ sent = <<>> /\ taken = <<>>
        /\ rs = [Opened(NewRunState).rs EXCEPT !.snapshotSent = mode = "bridge"]
    BY <1>4 DEF Init
  <2>2. PICK r0 : r0 = [NewRunState EXCEPT !.seq = 0]  OBVIOUS
  <2>3. r0 = NewRunState  BY <2>2 DEF NewRunState
  <2>4. /\ r0 \in RunStates /\ \A s \in Stations : r0.taskOf[s] = 0
        /\ r0.completed = 0 /\ r0.failed = 0
    BY <2>2, NewRunIs
  <2>5. PICK o : o = Opened(r0)  OBVIOUS
  <2>6. /\ o.out \in Seq(Envelopes) /\ o.rs \in RunStates /\ Shown(o.out) = Hydrated
        /\ o.rs.snapshotSent /\ o.rs.taskOf = r0.taskOf
        /\ o.rs.completed = r0.completed /\ o.rs.failed = r0.failed
    BY <2>4, <2>5, OpenedShown
  <2>7. out = o.out /\ rs = [o.rs EXCEPT !.snapshotSent = mode = "bridge"]
    BY <2>1, <2>3, <2>5, Zenon
  <2>8. rs \in RunStates  BY <1>1 DEF Typed, Feeds
  <2>9. PICK r1 \in RunStates : r1 = o.rs  BY <2>6
  <2>10. /\ rs.taskOf = r1.taskOf /\ rs.completed = r1.completed /\ rs.failed = r1.failed
         /\ rs.snapshotSent = (mode = "bridge")
    BY <2>7, <2>9 DEF RunStates
  <2>11. rs.completed = 0 /\ rs.failed = 0 /\ \A s \in Stations : rs.taskOf[s] = 0
    BY <2>4, <2>6, <2>9, <2>10
  <2>12. Agreed(Hydrated, rs, <<>>)  BY <2>8, <2>11, NothingAgreed
  <2>13. Heard = <<>>
    <3>1. Len(taken) = 0  BY <2>1
    <3>2. Heard \in Seq(Lines) /\ Len(Heard) = 0  BY <1>1, <1>4, <3>1, HeardTyped DEF Typed
    <3> QED  BY <3>2
  <2>14. sent \o out = o.out  BY <2>1, <2>6, <2>7
  <2>15. Agreed(Shown(sent \o out), rs, Heard)
    BY <2>6, <2>12, <2>13, <2>14, Zenon
  <2>16. mode \in {"bridge", "watch"}  BY <1>1, <1>4 DEF Typed, Files
  <2>17. Idle(Heard)
    <3>1. Len(Heard) = 0 /\ 1..0 = {}  BY <2>13
    <3> QED  BY <3>1 DEF Idle
  <2>18. Drawn  BY <2>10, <2>15, <2>16, <2>17 DEF Drawn
  <2> QED  BY <1>4, <2>18 DEF Faithful
<1> QED  BY <1>3, <1>4

LEMMA FaithfulKept == Typed /\ Story /\ Faithful /\ [Next]_vars => Faithful'
<1> SUFFICES ASSUME Typed, Story, Faithful, [Next]_vars
             PROVE  Faithful'
  OBVIOUS
<1> USE DEF logVars, tailVars, pageVars
<1>1. Files' /\ LogKept /\ mode' = mode  BY FilesTyped DEF Typed
<1>2. CASE UNCHANGED <<taken, rs, out, sent, cached, loaded, stage, queue, got>>
  <2>1. mode = "replay" => \A c \in Streams :
            IF stage'[c] = "attached"
            THEN \/ got'[c] = <<>> /\ queue'[c] = cached
                 \/ got'[c] = cached /\ queue'[c] = <<>>
            ELSE got'[c] = <<>>
    BY <1>2 DEF Faithful, Replayed
  <2> QED  BY <1>1, <1>2, <2>1, TrueUndisturbed
<1>3. ASSUME NEW line \in Lines, Write(line)
      PROVE  Faithful'
  BY <1>2, <1>3 DEF Write
<1>4. CASE WriteRest \/ Kill  BY <1>2, <1>4 DEF WriteRest, Kill
<1>5. CASE TailHalf \/ WatchPoll  BY <1>2, <1>5 DEF TailHalf, WatchPoll
<1>6. CASE TailLine
  <2>1. mode = "bridge"  BY <1>6 DEF TailLine
  <2>2. Drawn'  BY <1>6, <2>1, TailTold DEF Faithful, Typed
  <2> QED  BY <1>1, <2>1, <2>2 DEF Faithful
<1>7. CASE WatchLine
  <2>1. mode = "watch"  BY <1>7 DEF WatchLine, Typed, Tails
  <2>2. Drawn'  BY <1>7, <2>1, WatchTold DEF Faithful, Typed
  <2> QED  BY <1>1, <2>1, <2>2 DEF Faithful
<1>8. CASE Broadcast  BY <1>1, <1>8, BroadcastTrue
<1>9. CASE LoadRun  BY <1>9, LoadTrue
<1>10. ASSUME NEW c \in Streams, Serving(c) \/ Open(c) \/ Leave(c)
       PROVE  Faithful'
  <2>1. UNCHANGED <<taken, rs, out, sent, cached, loaded>>
    BY <1>10 DEF Serving, Accept, Deliver, EndReplay, Notice, Release, Open, Leave
  <2>2. mode = "replay" => \A d \in Streams :
            IF stage'[d] = "attached"
            THEN \/ got'[d] = <<>> /\ queue'[d] = cached
                 \/ got'[d] = cached /\ queue'[d] = <<>>
            ELSE got'[d] = <<>>
    BY <1>10, ServingTrue
  <2> QED  BY <1>1, <2>1, <2>2, TrueUndisturbed
<1>11. CASE UNCHANGED vars  BY <1>2, <1>11 DEF vars
<1> QED  BY <1>3, <1>4, <1>5, <1>6, <1>7, <1>8, <1>9, <1>10, <1>11 DEF Next, Tailing

-----------------------------------------------------------------------------
(* What was heard and what the log says: the watch, in the log's order        *)

\* Behind every line that the watch has taken it takes those that come later in
\* the log, unless they are still to come in this poll; and it takes each line once
\* and in its turn as long as none is junk.
Ordered ==
    \A a \in 1..Len(taken), j \in ToSet(taken) : j > taken[a] =>
        \/ \E b \in 1..Len(taken) : b > a /\ taken[b] = j
        \/ batch # <<>> /\ Head(batch) <= j
Straight == Junk \notin ToSet(log) => \A i \in 1..Len(taken) : taken[i] = i
InTurn == mode = "watch" => Ordered /\ Straight

LEMMA NoJunkBefore ==
    ASSUME Files, Files', LogKept, Junk \notin ToSet(log')
    PROVE  Junk \notin ToSet(log)
<1>1. DOMAIN log = 1..Len(log) /\ DOMAIN log' = 1..Len(log')  BY DEF Files
<1>2. 1..Len(log) \subseteq 1..Len(log')  BY DEF LogKept
<1> QED  BY <1>1, <1>2 DEF LogKept, ToSet

LEMMA HandledInTurn ==
    ASSUME Files, Tails, InTurn, WatchLine
    PROVE  Ordered' /\ Straight'
<1>1. /\ mode = "watch" /\ batch # <<>> /\ batch' = Tail(batch) /\ log' = log
      /\ IF log[Head(batch)] = Junk
         THEN UNCHANGED <<cursor, taken>>
         ELSE cursor' = cursor + 1 /\ taken' = Append(taken, Head(batch))
  BY DEF WatchLine, logVars, Tails
<1>2. PICK h \in 0..Len(log) :
        /\ ToSet(taken) = Sound(h)
        /\ cursor = Len(taken) /\ cursor <= h
        /\ \A i \in 1..Len(batch) : batch[i] = batch[1] + i - 1
        /\ cursor < batch[1] /\ batch[1] <= h + 1
        /\ h <= batch[1] + Len(batch) - 1
        /\ batch[1] + Len(batch) - 1 <= Len(log)
  BY <1>1 DEF Tails, WatchAt
<1>3. PICK p \in Nat : p = batch[1] /\ p = Head(batch)  BY <1>1 DEF Tails
<1>4. PICK k \in Nat : k = Len(batch) /\ k > 0  BY <1>1 DEF Tails
<1>5. /\ batch' \in Seq(Nat) /\ Len(batch') = k - 1
      /\ \A i \in 1..(k - 1) : batch'[i] = batch[i + 1]
  BY <1>1, <1>4, HeadTailProperties DEF Tails
<1>6. /\ k = 1 => h <= p
      /\ k # 1 => batch' # <<>> /\ Head(batch') = p + 1
  <2>1. k = 1 => h <= p  BY <1>2, <1>3, <1>4
  <2>2. ASSUME k # 1  PROVE batch' # <<>> /\ Head(batch') = p + 1
    <3>1. 1 \in 1..(k - 1) /\ 2 \in 1..k  BY <1>4, <2>2
    <3>2. batch[2] = p + 1  BY <1>2, <1>3, <1>4, <3>1
    <3>3. batch'[1] = p + 1  BY <1>5, <3>1, <3>2
    <3> QED  BY <1>4, <1>5, <2>2, <3>3
  <2> QED  BY <2>1, <2>2
<1>7. PICK n \in Nat : n = Len(taken)  BY DEF Tails
<1>8. Ordered /\ Straight  BY <1>1 DEF InTurn
<1>9. \A i \in 1..n : taken[i] \in Nat  BY <1>7 DEF Tails
<1>10. \A j \in ToSet(taken) : j \in 1..h /\ log[j] # Junk  BY <1>2 DEF Sound
<1>11. CASE log[p] = Junk
  <2>1. taken' = taken  BY <1>1, <1>3, <1>11
  <2>2. ASSUME NEW a \in 1..n, NEW j \in ToSet(taken), j > taken[a]
        PROVE  \/ \E b \in 1..n : b > a /\ taken[b] = j
               \/ batch' # <<>> /\ Head(batch') <= j
    <3>1. (\E b \in 1..n : b > a /\ taken[b] = j) \/ p <= j
      BY <1>3, <1>7, <1>8, <2>2 DEF Ordered
    <3>2. j # p /\ j \in 1..h  BY <1>10, <1>11
    <3>3. p <= j => k # 1 /\ p + 1 <= j  BY <1>6, <3>2
    <3> QED  BY <1>6, <3>1, <3>3
  <2>3. Ordered'  BY <1>7, <2>1, <2>2 DEF Ordered
  <2> QED  BY <1>1, <1>8, <2>1, <2>3 DEF Straight
<1>12. CASE log[p] # Junk
  <2>1. taken' = Append(taken, p)  BY <1>1, <1>3, <1>12
  <2>2. /\ Len(taken') = n + 1 /\ taken'[n + 1] = p
        /\ \A i \in 1..n : taken'[i] = taken[i]
    BY <1>7, <2>1 DEF Tails
  <2>3. ToSet(taken') = ToSet(taken) \cup {p}  BY <2>1, TakenGrows DEF Tails
  <2>4. ASSUME NEW a \in 1..(n + 1), NEW j \in ToSet(taken'), j > taken'[a]
        PROVE  \/ \E b \in 1..(n + 1) : b > a /\ taken'[b] = j
               \/ batch' # <<>> /\ Head(batch') <= j
    <3>1. j = p \/ j \in ToSet(taken)  BY <2>3
    <3>2. j \in Nat  BY <1>10, <3>1
    <3>3. CASE a = n + 1
      <4>1. j > p /\ j \in 1..h  BY <1>10, <2>2, <2>4, <3>1, <3>2, <3>3
      <4> QED  BY <1>6, <4>1
    <3>4. CASE a \in 1..n /\ j = p
      <4>1. n + 1 \in 1..(n + 1) /\ n + 1 > a  BY <3>4
      <4> QED  BY <2>2, <3>4, <4>1
    <3>5. CASE a \in 1..n /\ j # p
      <4>1. j \in ToSet(taken) /\ j > taken[a]  BY <2>2, <2>4, <3>1, <3>5
      <4>2. (\E b \in 1..n : b > a /\ taken[b] = j) \/ p <= j
        BY <1>3, <1>7, <1>8, <3>5, <4>1 DEF Ordered
      <4>3. CASE p <= j
        <5>1. k # 1 /\ p + 1 <= j  BY <1>6, <1>10, <3>5, <4>1, <4>3
        <5> QED  BY <1>6, <5>1
      <4>4. CASE \E b \in 1..n : b > a /\ taken[b] = j
        <5>1. PICK b \in 1..n : b > a /\ taken[b] = j  BY <4>4
        <5>2. b \in 1..(n + 1) /\ taken'[b] = j  BY <2>2, <5>1
        <5> QED  BY <5>1, <5>2
      <4> QED  BY <4>2, <4>3, <4>4
    <3> QED  BY <3>3, <3>4, <3>5
  <2>5. Ordered'  BY <2>2, <2>4 DEF Ordered
  <2>6. ASSUME Junk \notin ToSet(log)
        PROVE  \A i \in 1..(n + 1) : taken'[i] = i
    <3>1. \A i \in 1..n : taken[i] = i  BY <1>7, <1>8, <2>6 DEF Straight
    <3>2. Sound(h) = 1..h
      <4>1. DOMAIN log = 1..Len(log) /\ h <= Len(log) /\ Len(log) \in Nat  BY DEF Files
      <4>2. \A i \in 1..h : i \in DOMAIN log  BY <4>1
      <4>3. \A i \in 1..h : log[i] # Junk  BY <2>6, <4>2 DEF ToSet
      <4> QED  BY <4>3 DEF Sound
    <3>3. ToSet(taken) = 1..n
      <4>1. DOMAIN taken = 1..n  BY <1>7 DEF Tails
      <4> QED  BY <3>1, <4>1 DEF ToSet
    <3>4. h <= n
      <4> SUFFICES ASSUME h > n
                   PROVE  FALSE
        BY <1>7
      <4>1. h \in 1..h /\ h \notin 1..n  BY <1>7
      <4> QED  BY <1>2, <3>2, <3>3, <4>1
    <3>5. p = n + 1  BY <1>2, <1>3, <1>7, <3>4
    <3> QED  BY <2>2, <3>1, <3>5
  <2>7. Straight'  BY <1>1, <2>2, <2>6 DEF Straight
  <2> QED  BY <2>5, <2>7
<1> QED  BY <1>11, <1>12

LEMMA InTurnKept == Files /\ Tails /\ InTurn /\ [Next]_vars => InTurn'
<1> SUFFICES ASSUME Files, Tails, InTurn, [Next]_vars
             PROVE  InTurn'
  OBVIOUS
<1> USE DEF logVars, tailVars, pageVars
<1>1. Files' /\ LogKept /\ mode' = mode  BY FilesTyped
<1>2. CASE taken' = taken /\ (batch' = batch \/ batch = <<>>)
  <2> SUFFICES ASSUME mode = "watch"
               PROVE  Ordered' /\ Straight'
    BY <1>1 DEF InTurn
  <2>1. Ordered /\ Straight  BY DEF InTurn
  <2>2. Ordered'  BY <1>2, <2>1 DEF Ordered
  <2>3. Straight'  BY <1>1, <1>2, <2>1, NoJunkBefore DEF Straight
  <2> QED  BY <2>2, <2>3
<1>3. CASE TailLine  BY <1>1, <1>3 DEF TailLine, InTurn
<1>4. CASE WatchLine  BY <1>4, HandledInTurn DEF InTurn
<1>5. CASE TailHalf \/ WatchPoll \/ Broadcast  BY <1>2, <1>5 DEF TailHalf, WatchPoll, Broadcast
<1>6. ASSUME NEW line \in Lines, Write(line)
      PROVE  InTurn'
  BY <1>2, <1>6 DEF Write
<1>7. CASE WriteRest \/ Kill  BY <1>2, <1>7 DEF WriteRest, Kill
<1>8. CASE LoadRun  BY <1>2, <1>8 DEF LoadRun
<1>9. ASSUME NEW c \in Streams, Serving(c) \/ Open(c) \/ Leave(c)
      PROVE  InTurn'
  BY <1>2, <1>9 DEF Serving, Accept, Deliver, EndReplay, Notice, Release, Open, Leave
<1>10. CASE UNCHANGED vars  BY <1>2, <1>10 DEF vars
<1> QED  BY <1>3, <1>4, <1>5, <1>6, <1>7, <1>8, <1>9, <1>10 DEF Next, Tailing

LEMMA InitInTurn == Init => InTurn
<1> SUFFICES ASSUME Init
             PROVE  Ordered /\ Straight
  BY DEF InTurn
<1>1. Len(taken) = 0 /\ 1..0 = {}  BY DEF Init
<1> QED  BY <1>1 DEF Ordered, Straight

-----------------------------------------------------------------------------
(* The totals, by the lines they count                                     *)

TickedPlaces(L, event) == {i \in 1..Tick(L) : L[i].event = event}

LEMMA TotalsAre ==
    ASSUME NEW L \in Seq(Lines)
    PROVE  /\ Tick(L) \in 0..Len(L)
           /\ Totals(L) = IF Tick(L) > Beginning(L)
                          THEN <<Cardinality(TickedPlaces(L, "step.complete")),
                                 Cardinality(TickedPlaces(L, "step.failed"))>>
                          ELSE <<0, 0>>
<1>1. PICK n \in Nat : n = Len(L)  OBVIOUS
<1>2. PICK t : t = Tick(L)  OBVIOUS
<1>3. t \in 0..n
  <2>1. PICK I : I = TickPlaces(L)  OBVIOUS
  <2>2. I \in SUBSET (1..n)  BY <1>1, <2>1, PlacesBounded
  <2>3. t = Top(I)  BY <1>2, <2>1, PlacesAre
  <2> QED  BY <2>2, <2>3, TopGrows
<1>4. PICK M : M = SubSeq(L, 1, t)  OBVIOUS
<1>5. M \in Seq(Lines) /\ Len(M) = t /\ \A i \in 1..t : M[i] = L[i]
  BY <1>1, <1>3, <1>4
<1>6. \A event : EventPlaces(M, event) = TickedPlaces(L, event)
  BY <1>2, <1>5 DEF EventPlaces, TickedPlaces
<1>7. \A event : Count(M, event) = Cardinality(TickedPlaces(L, event))
  BY <1>5, <1>6, PlacesAre
<1>8. Totals(L) = IF t > Beginning(L)
                  THEN <<Count(M, "step.complete"), Count(M, "step.failed")>>
                  ELSE <<0, 0>>
  BY <1>2, <1>4, Zenon DEF Totals, Tick
<1>9. Totals(L) = IF Tick(L) > Beginning(L)
                  THEN <<Cardinality(TickedPlaces(L, "step.complete")),
                         Cardinality(TickedPlaces(L, "step.failed"))>>
                  ELSE <<0, 0>>
  <2>1. PICK a, b : /\ a = Count(M, "step.complete") /\ b = Count(M, "step.failed")
                    /\ a = Cardinality(TickedPlaces(L, "step.complete"))
                    /\ b = Cardinality(TickedPlaces(L, "step.failed"))
    BY <1>7
  <2> QED  BY <1>2, <1>8, <2>1, Zenon
<1> QED  BY <1>1, <1>2, <1>3, <1>9

\* Totals that some lines reach, others reach too when those they count are among
\* theirs, one by one.
LEMMA FewerTold ==
    ASSUME NEW K \in Seq(Lines), NEW L \in Seq(Lines),
           Tick(K) > Beginning(K) =>
               /\ Tick(L) > Beginning(L)
               /\ \A event \in {"step.complete", "step.failed"} :
                     \E f \in [TickedPlaces(K, event) -> TickedPlaces(L, event)] :
                         \A i, j \in TickedPlaces(K, event) : f[i] = f[j] => i = j
    PROVE  \A k \in 1..2 : Totals(K)[k] <= Totals(L)[k]
<1>1. ASSUME NEW event
      PROVE  /\ IsFiniteSet(TickedPlaces(L, event))
             /\ Cardinality(TickedPlaces(L, event)) \in Nat
  <2>1. Tick(L) \in Nat  BY TotalsAre
  <2>2. PICK n \in Nat : n = Tick(L)  BY <2>1
  <2>3. PICK I : I = TickedPlaces(L, event)  OBVIOUS
  <2>4. I \in SUBSET (1..n)  BY <2>2, <2>3 DEF TickedPlaces
  <2> QED  BY <2>3, <2>4, LastRemoved
<1>2. CASE Tick(K) > Beginning(K)
  <2>1. ASSUME NEW event \in {"step.complete", "step.failed"}
        PROVE  Cardinality(TickedPlaces(K, event)) <= Cardinality(TickedPlaces(L, event))
    <3>1. PICK f \in [TickedPlaces(K, event) -> TickedPlaces(L, event)] :
              \A i, j \in TickedPlaces(K, event) : f[i] = f[j] => i = j
      BY <1>2
    <3>2. f \in Injection(TickedPlaces(K, event), TickedPlaces(L, event))
      BY <3>1 DEF Injection, IsInjective
    <3> QED  BY <1>1, <3>2, FS_Injection
  <2>2. /\ Totals(K) = <<Cardinality(TickedPlaces(K, "step.complete")),
                         Cardinality(TickedPlaces(K, "step.failed"))>>
        /\ Totals(L) = <<Cardinality(TickedPlaces(L, "step.complete")),
                         Cardinality(TickedPlaces(L, "step.failed"))>>
    BY <1>2, TotalsAre
  <2> QED  BY <2>1, <2>2
<1>3. CASE ~(Tick(K) > Beginning(K))
  <2>1. Totals(K) = <<0, 0>>  BY <1>3, TotalsAre
  <2>2. \A k \in 1..2 : Totals(L)[k] \in Nat
    <3>1. PICK x, y \in Nat : Totals(L) = <<x, y>>
      BY <1>1, TotalsAre
    <3> QED  BY <3>1
  <2> QED  BY <2>1, <2>2
<1> QED  BY <1>2, <1>3

\* A picture drawn of some lines is one of any others with the same last places.
LEMMA DrawnAlike ==
    ASSUME NEW m, NEW s, NEW K, NEW L, Draws(m, K, s),
           LastOf(K, s, {"step.start"}) > Beginning(K)
               <=> LastOf(L, s, {"step.start"}) > Beginning(L),
           LastOf(K, s, {"step.complete"}) > Beginning(K)
               <=> LastOf(L, s, {"step.complete"}) > Beginning(L),
           LastOf(K, s, {"step.start"}) > LastOf(K, s, {"step.complete", "step.failed"})
               <=> LastOf(L, s, {"step.start"}) > LastOf(L, s, {"step.complete", "step.failed"}),
           LastOf(K, s, {"step.start"}) > LastOf(K, s, {"step.complete"})
               <=> LastOf(L, s, {"step.start"}) > LastOf(L, s, {"step.complete"}),
           LastOf(K, s, {"step.complete"}) > LastOf(K, s, {"step.start"})
               <=> LastOf(L, s, {"step.complete"}) > LastOf(L, s, {"step.start"})
    PROVE  Draws(m, L, s)
BY DEF Draws

-----------------------------------------------------------------------------
(* What was heard and what the log says: the bridge, line for line            *)

LEMMA BridgeHeard ==
    ASSUME Typed, mode = "bridge", cursor = Len(log)
    PROVE  /\ Heard \in Seq(Lines) /\ Len(Heard) = Len(log) /\ Torn \subseteq 1..Len(log)
           /\ \A i \in 1..Len(log) : Heard[i] = IF i \in Torn THEN RestOf(i) ELSE log[i]
<1>1. Files /\ Tails /\ BridgeAt  BY DEF Typed, Tails
<1>2. PICK n \in Nat : n = Len(taken) /\ n = Len(log) /\ DOMAIN taken = 1..n
  BY <1>1 DEF BridgeAt, Files, Tails
<1>3. \A i \in 1..n : taken[i] \in {0, i}  BY <1>1, <1>2 DEF BridgeAt
<1>4. Torn = {i \in 1..n : taken[i] = 0}  BY <1>2 DEF Torn
<1>5. /\ Heard \in Seq(Lines) /\ Len(Heard) = n
      /\ \A i \in 1..n : Heard[i] = IF taken[i] = 0 THEN RestOf(i) ELSE log[taken[i]]
  BY <1>1, <1>2, HeardTyped
<1> QED  BY <1>2, <1>3, <1>4, <1>5

LEMMA WholeHeard ==
    ASSUME Typed, mode = "bridge", cursor = Len(log), Torn = {}
    PROVE  Heard = log
<1>1. /\ Heard \in Seq(Lines) /\ Len(Heard) = Len(log)
      /\ \A i \in 1..Len(log) : Heard[i] = log[i]
  BY BridgeHeard
<1>2. log \in Seq(Lines)  BY DEF Typed, Files
<1> QED  BY <1>1, <1>2

\* A torn line that is no start of a run, nor junk, is heard as junk.
LEMMA TornIsJunk ==
    ASSUME Typed, mode = "bridge", cursor = Len(log),
           \A i \in Torn : log[i] \notin {Junk, RunLine("run.start")}
    PROVE  /\ \A i \in 1..Len(log) : Heard[i] = IF i \in Torn THEN Junk ELSE log[i]
           /\ Beginning(Heard) = Beginning(log)
<1>1. /\ Heard \in Seq(Lines) /\ Len(Heard) = Len(log) /\ log \in Seq(Lines)
      /\ \A i \in 1..Len(log) : Heard[i] = IF i \in Torn THEN RestOf(i) ELSE log[i]
  BY BridgeHeard DEF Typed, Files
<1>2. \A i \in Torn : RestOf(i) = Junk  BY DEF RestOf
<1>3. Junk # RunLine("run.start")  BY DEF Junk, RunLine
<1>4. StartPlaces(Heard) = StartPlaces(log)
  BY <1>1, <1>2, <1>3 DEF StartPlaces
<1> QED  BY <1>1, <1>2, <1>4, PlacesAre

LEMMA BridgeStations ==
    ASSUME Typed, mode = "bridge", cursor = Len(log), NEW m, NEW s \in Stations,
           \A i \in Torn : log[i] \notin {Junk, RunLine("run.start")},
           \A i \in Torn : log[i].at # {s},
           Draws(m, Heard, s)
    PROVE  Draws(m, log, s)
<1>1. /\ Heard \in Seq(Lines) /\ Len(Heard) = Len(log) /\ log \in Seq(Lines)
      /\ \A i \in 1..Len(log) : Heard[i] = IF i \in Torn THEN Junk ELSE log[i]
  BY BridgeHeard, TornIsJunk DEF Typed, Files
<1>2. Junk.at # {s}  BY DEF Junk, RunLine
<1>3. \A events : StepPlaces(Heard, s, events) = StepPlaces(log, s, events)
  BY <1>1, <1>2 DEF StepPlaces
<1>4. \A events : LastOf(Heard, s, events) = LastOf(log, s, events)
  BY <1>1, <1>3, PlacesAre
<1>5. Beginning(Heard) = Beginning(log)  BY TornIsJunk
<1> QED  BY <1>4, <1>5, DrawnAlike

LEMMA BridgeTotals ==
    ASSUME Typed, mode = "bridge", cursor = Len(log),
           \A i \in Torn : log[i] \notin {Junk, RunLine("run.start")}
    PROVE  \A k \in 1..2 : Totals(Heard)[k] <= Totals(log)[k]
<1>1. /\ Heard \in Seq(Lines) /\ Len(Heard) = Len(log) /\ log \in Seq(Lines)
      /\ \A i \in 1..Len(log) : Heard[i] = IF i \in Torn THEN Junk ELSE log[i]
      /\ Beginning(Heard) = Beginning(log)
  BY BridgeHeard, TornIsJunk DEF Typed, Files
<1>2. PICK n \in Nat : n = Len(log)  BY <1>1
<1>3. Junk.event \notin {"step.complete", "step.failed", "run.complete"}
  BY DEF Junk, RunLine
<1>4. /\ TickPlaces(Heard) \in SUBSET (1..n) /\ TickPlaces(log) \in SUBSET (1..n)
      /\ TickPlaces(Heard) \subseteq TickPlaces(log)
  BY <1>1, <1>2, <1>3 DEF TickPlaces
<1>5. /\ Tick(Heard) = Top(TickPlaces(Heard)) /\ Tick(log) = Top(TickPlaces(log))
      /\ Beginning(Heard) = Top(StartPlaces(Heard)) /\ StartPlaces(Heard) \in SUBSET (1..n)
  BY <1>1, <1>2, PlacesAre, PlacesBounded
<1>6. /\ Tick(Heard) \in 0..n /\ Tick(log) \in 0..n /\ Beginning(Heard) \in 0..n
      /\ Tick(Heard) # 0 => Tick(Heard) \in TickPlaces(Heard)
      /\ \A i \in TickPlaces(log) : i <= Tick(log)
  <2>1. PICK I, J, B : I = TickPlaces(Heard) /\ J = TickPlaces(log) /\ B = StartPlaces(Heard)
    OBVIOUS
  <2>2. I \in SUBSET (1..n) /\ J \in SUBSET (1..n) /\ B \in SUBSET (1..n)
    BY <1>4, <1>5, <2>1
  <2>3. /\ Top(I) \in 0..n /\ Top(J) \in 0..n /\ Top(B) \in 0..n
        /\ Top(I) = 0 <=> I = {}
        /\ Top(I) # 0 => Top(I) \in I
        /\ \A i \in J : i <= Top(J)
    BY <2>2, TopGrows
  <2> QED  BY <1>5, <2>1, <2>3
<1>7. Tick(Heard) <= Tick(log)  BY <1>4, <1>6
<1>8. ASSUME NEW event \in {"step.complete", "step.failed"}
      PROVE  \E f \in [TickedPlaces(Heard, event) -> TickedPlaces(log, event)] :
                 \A i, j \in TickedPlaces(Heard, event) : f[i] = f[j] => i = j
  <2>1. TickedPlaces(Heard, event) \subseteq TickedPlaces(log, event)
    BY <1>1, <1>2, <1>3, <1>6, <1>7 DEF TickedPlaces
  <2>2. PICK I, J : I = TickedPlaces(Heard, event) /\ J = TickedPlaces(log, event)  OBVIOUS
  <2>3. [i \in I |-> i] \in [I -> J]  BY <2>1, <2>2
  <2>4. \A i, j \in I : [x \in I |-> x][i] = [x \in I |-> x][j] => i = j  OBVIOUS
  <2>5. \E f \in [I -> J] : \A i, j \in I : f[i] = f[j] => i = j  BY <2>3, <2>4
  <2> QED  BY <2>2, <2>5
<1>9. Tick(Heard) > Beginning(Heard) => Tick(log) > Beginning(log)
  BY <1>1, <1>6, <1>7
<1> QED  BY <1>1, <1>8, <1>9, FewerTold

-----------------------------------------------------------------------------
(* What was heard and what the log says: the watch, again and in order        *)

\* The watch has handled its poll, and taken every line that is no junk.
Handled == /\ mode = "watch" /\ batch = <<>>
           /\ \A i \in DOMAIN log : log[i] = Junk \/ i \in ToSet(taken)

\* Where the lines at some places of the log were heard.
HeardAt(Y) == {k \in 1..Len(taken) : taken[k] \in Y}

LEMMA WatchHeard ==
    ASSUME Typed, mode = "watch"
    PROVE  /\ Heard \in Seq(Lines) /\ Len(Heard) = Len(taken) /\ Len(taken) \in Nat
           /\ \A k \in 1..Len(taken) : /\ taken[k] \in 1..Len(log)
                                       /\ Heard[k] = log[taken[k]]
           /\ ToSet(taken) = {taken[k] : k \in 1..Len(taken)}
<1>1. Files /\ Tails  BY DEF Typed
<1>2. PICK n \in Nat : n = Len(taken) /\ DOMAIN taken = 1..n  BY <1>1 DEF Tails
<1>3. \A k \in 1..n : taken[k] # 0  BY <1>1, <1>2, TornRead
<1>4. \A k \in 1..n : taken[k] \in 1..Len(log)
  <2> TAKE k \in 1..n
  <2>1. taken[k] \in Nat /\ taken[k] <= Len(log) /\ Len(log) \in Nat
    BY <1>1, <1>2 DEF Tails, Files
  <2> QED  BY <1>3, <2>1
<1>5. /\ Heard \in Seq(Lines) /\ Len(Heard) = n
      /\ \A i \in 1..n : Heard[i] = IF taken[i] = 0 THEN RestOf(i) ELSE log[taken[i]]
  BY <1>1, <1>2, HeardTyped
<1>6. ToSet(taken) = {taken[k] : k \in 1..n}  BY <1>2 DEF ToSet
<1> QED  BY <1>2, <1>3, <1>4, <1>5, <1>6

\* The last of some lines of the log is the last of them that was heard.
LEMMA LastHeard ==
    ASSUME Typed, InTurn, Handled, NEW Y \in SUBSET ToSet(taken)
    PROVE  /\ Y \in SUBSET (1..Len(log)) /\ HeardAt(Y) \in SUBSET (1..Len(taken))
           /\ Top(HeardAt(Y)) = 0 <=> Top(Y) = 0
           /\ Top(HeardAt(Y)) # 0 => taken[Top(HeardAt(Y))] = Top(Y)
<1>1. PICK q \in Nat : q = Len(taken)  BY WatchHeard DEF Handled
<1>2. PICK n \in Nat : n = Len(log)  BY DEF Typed, Files
<1>3. PICK X : X = HeardAt(Y)  OBVIOUS
<1>4. X = {k \in 1..q : taken[k] \in Y}  BY <1>1, <1>3 DEF HeardAt
<1>5. /\ Y \in SUBSET (1..n) /\ \A y \in Y : \E k \in 1..q : taken[k] = y
  BY <1>1, <1>2, WatchHeard DEF Handled
<1>6. X = {} <=> Y = {}  BY <1>4, <1>5
<1>7. X \in SUBSET (1..q)  BY <1>4
<1>8. Top(X) = 0 <=> Top(Y) = 0  BY <1>5, <1>6, <1>7, TopGrows
<1>9. ASSUME Top(X) # 0
      PROVE  taken[Top(X)] = Top(Y)
  <2>1. PICK x \in X : x = Top(X) /\ \A i \in X : i <= x  BY <1>7, <1>9, TopGrows
  <2>2. PICK y \in Y : y = Top(Y) /\ \A i \in Y : i <= y
    <3>1. Top(Y) \in Y /\ \A i \in Y : i <= Top(Y)  BY <1>5, <1>8, <1>9, TopGrows
    <3> QED  BY <3>1
  <2>3. taken[x] \in Y /\ x \in 1..q  BY <1>4, <2>1
  <2>4. taken[x] <= y /\ taken[x] \in Nat /\ y \in Nat
    <3>1. taken[x] \in 1..n /\ y \in 1..n  BY <1>5, <2>3
    <3> QED  BY <2>2, <2>3, <3>1
  <2>5. ASSUME taken[x] < y
        PROVE  FALSE
    <3>1. y \in ToSet(taken)  OBVIOUS
    <3>2. PICK b \in 1..q : b > x /\ taken[b] = y
      BY <1>1, <2>3, <2>5, <3>1 DEF InTurn, Ordered, Handled
    <3>3. b \in X  BY <1>4, <3>2
    <3> QED  BY <2>1, <2>3, <3>2, <3>3
  <2> QED  BY <2>1, <2>2, <2>4, <2>5
<1> QED  BY <1>1, <1>2, <1>3, <1>5, <1>7, <1>8, <1>9

\* Two lines come last in the order in which they were last heard.
LEMMA LaterHeard ==
    ASSUME Typed, InTurn, Handled,
           NEW Y \in SUBSET ToSet(taken), NEW Z \in SUBSET ToSet(taken), Top(Y) > Top(Z)
    PROVE  Top(HeardAt(Y)) > Top(HeardAt(Z))
<1>1. PICK q \in Nat : q = Len(taken)  BY WatchHeard DEF Handled
<1>2. PICK n \in Nat : n = Len(log)  BY DEF Typed, Files
<1>3. Y \in SUBSET (1..n) /\ Z \in SUBSET (1..n)  BY <1>2, LastHeard
<1>4. Top(Y) \in 0..n /\ Top(Z) \in 0..n  BY <1>3, TopGrows
<1>5. PICK A, B : A = HeardAt(Y) /\ B = HeardAt(Z)  OBVIOUS
<1>6. A \in SUBSET (1..q) /\ B \in SUBSET (1..q)  BY <1>1, <1>5 DEF HeardAt
<1>7. Top(A) \in 0..q /\ Top(B) \in 0..q /\ \A i \in A : i <= Top(A)  BY <1>6, TopGrows
<1>8. Top(A) # 0  BY <1>4, <1>5, LastHeard
<1>9. CASE Top(B) = 0  BY <1>5, <1>7, <1>8, <1>9
<1>10. CASE Top(B) # 0
  <2>1. PICK b : b = Top(B)  OBVIOUS
  <2>2. taken[b] = Top(Z) /\ b \in 1..q  BY <1>5, <1>7, <1>10, <2>1, LastHeard
  <2>3. Top(Y) \in Y
    <3>1. Top(Y) # 0  BY <1>4
    <3> QED  BY <1>3, <3>1, TopGrows
  <2>4. PICK a \in 1..q : a > b /\ taken[a] = Top(Y)
    BY <1>1, <2>2, <2>3 DEF InTurn, Ordered, Handled
  <2>5. a \in A  BY <1>1, <1>5, <2>3, <2>4 DEF HeardAt
  <2>6. a <= Top(A)  BY <1>7, <2>5
  <2> QED  BY <1>5, <1>7, <2>1, <2>2, <2>4, <2>6
<1> QED  BY <1>9, <1>10

LEMMA SameOrder ==
    ASSUME Typed, InTurn, Handled,
           NEW Y \in SUBSET ToSet(taken), NEW Z \in SUBSET ToSet(taken), Y \cap Z = {}
    PROVE  Top(HeardAt(Y)) > Top(HeardAt(Z)) <=> Top(Y) > Top(Z)
<1>1. PICK q \in Nat : q = Len(taken)  BY WatchHeard DEF Handled
<1>2. PICK n \in Nat : n = Len(log)  BY DEF Typed, Files
<1>3. Y \in SUBSET (1..n) /\ Z \in SUBSET (1..n)  BY <1>2, LastHeard
<1>4. Top(Y) \in 0..n /\ Top(Z) \in 0..n  BY <1>3, TopGrows
<1>5. PICK A, B : A = HeardAt(Y) /\ B = HeardAt(Z)  OBVIOUS
<1>6. A \in SUBSET (1..q) /\ B \in SUBSET (1..q)  BY <1>1, <1>5 DEF HeardAt
<1>7. Top(A) \in 0..q /\ Top(B) \in 0..q  BY <1>6, TopGrows
<1>8. Top(Y) > Top(Z) => Top(A) > Top(B)  BY <1>5, LaterHeard
<1>9. ASSUME Top(A) > Top(B)
      PROVE  Top(Y) > Top(Z)
  <2>1. Top(Y) # 0  BY <1>5, <1>7, <1>9, LastHeard
  <2>2. Top(Z) > Top(Y) => Top(B) > Top(A)  BY <1>5, LaterHeard
  <2>3. Top(Z) # Top(Y)
    <3>1. Top(Y) \in Y  BY <1>3, <2>1, TopGrows
    <3>2. Top(Z) # 0 => Top(Z) \in Z  BY <1>3, TopGrows
    <3> QED  BY <2>1, <3>1, <3>2
  <2> QED  BY <1>4, <1>7, <1>9, <2>2, <2>3
<1> QED  BY <1>5, <1>8, <1>9

\* What is told of the log at some places was heard, and nothing else was.
LEMMA PlacesHeard ==
    ASSUME Typed, Handled
    PROVE  /\ \A s, events : /\ StepPlaces(log, s, events) \in SUBSET ToSet(taken)
                             /\ StepPlaces(Heard, s, events)
                                    = HeardAt(StepPlaces(log, s, events))
           /\ StartPlaces(log) \in SUBSET ToSet(taken)
           /\ StartPlaces(Heard) = HeardAt(StartPlaces(log))
           /\ TickPlaces(log) \in SUBSET ToSet(taken)
           /\ TickPlaces(Heard) = HeardAt(TickPlaces(log))
<1>1. /\ Len(Heard) = Len(taken)
      /\ \A k \in 1..Len(taken) : taken[k] \in 1..Len(log) /\ Heard[k] = log[taken[k]]
  BY WatchHeard DEF Handled
<1>2. \A i \in 1..Len(log) : log[i] = Junk \/ i \in ToSet(taken)
  <2>1. DOMAIN log = 1..Len(log)  BY DEF Typed, Files
  <2> QED  BY <2>1 DEF Handled
<1>3. /\ \A s : Junk.at # {s}
      /\ Junk # RunLine("run.start")
      /\ Junk.event \notin {"step.complete", "run.complete"}
  BY DEF Junk, RunLine
<1>4. ASSUME NEW s, NEW events
      PROVE  /\ StepPlaces(log, s, events) \in SUBSET ToSet(taken)
             /\ StepPlaces(Heard, s, events) = HeardAt(StepPlaces(log, s, events))
  BY <1>1, <1>2, <1>3 DEF StepPlaces, HeardAt
<1>5. /\ StartPlaces(log) \in SUBSET ToSet(taken)
      /\ StartPlaces(Heard) = HeardAt(StartPlaces(log))
  BY <1>1, <1>2, <1>3 DEF StartPlaces, HeardAt
<1>6. /\ TickPlaces(log) \in SUBSET ToSet(taken)
      /\ TickPlaces(Heard) = HeardAt(TickPlaces(log))
  BY <1>1, <1>2, <1>3 DEF TickPlaces, HeardAt
<1> QED  BY <1>4, <1>5, <1>6

LEMMA WatchStations ==
    ASSUME Typed, InTurn, Handled, NEW m, NEW s \in Stations, Draws(m, Heard, s)
    PROVE  Draws(m, log, s)
<1>1. log \in Seq(Lines) /\ Heard \in Seq(Lines)  BY WatchHeard DEF Typed, Files, Handled
<1> DEFINE P(events) == StepPlaces(log, s, events)
           B == StartPlaces(log)
<1>2. \A events : /\ LastOf(log, s, events) = Top(P(events))
                  /\ LastOf(Heard, s, events) = Top(HeardAt(P(events)))
                  /\ P(events) \in SUBSET ToSet(taken)
  BY <1>1, PlacesAre, PlacesHeard
<1>3. /\ Beginning(log) = Top(B) /\ Beginning(Heard) = Top(HeardAt(B))
      /\ B \in SUBSET ToSet(taken)
  BY <1>1, PlacesAre, PlacesHeard
<1>4. /\ P({"step.start"}) \cap B = {} /\ P({"step.complete"}) \cap B = {}
      /\ P({"step.start"}) \cap P({"step.complete", "step.failed"}) = {}
      /\ P({"step.start"}) \cap P({"step.complete"}) = {}
      /\ P({"step.complete"}) \cap P({"step.start"}) = {}
  BY DEF StepPlaces, StartPlaces, RunLine
<1> HIDE DEF P, B
<1>5. LastOf(Heard, s, {"step.start"}) > Beginning(Heard)
          <=> LastOf(log, s, {"step.start"}) > Beginning(log)
  BY <1>2, <1>3, <1>4, SameOrder
<1>6. LastOf(Heard, s, {"step.complete"}) > Beginning(Heard)
          <=> LastOf(log, s, {"step.complete"}) > Beginning(log)
  BY <1>2, <1>3, <1>4, SameOrder
<1>7. LastOf(Heard, s, {"step.start"}) > LastOf(Heard, s, {"step.complete", "step.failed"})
          <=> LastOf(log, s, {"step.start"}) > LastOf(log, s, {"step.complete", "step.failed"})
  BY <1>2, <1>4, SameOrder
<1>8. /\ LastOf(Heard, s, {"step.start"}) > LastOf(Heard, s, {"step.complete"})
             <=> LastOf(log, s, {"step.start"}) > LastOf(log, s, {"step.complete"})
      /\ LastOf(Heard, s, {"step.complete"}) > LastOf(Heard, s, {"step.start"})
             <=> LastOf(log, s, {"step.complete"}) > LastOf(log, s, {"step.start"})
  BY <1>2, <1>4, SameOrder
<1> QED  BY <1>5, <1>6, <1>7, <1>8, DrawnAlike

LEMMA WatchWhole ==
    ASSUME Typed, InTurn, Handled, Junk \notin ToSet(log)
    PROVE  Heard = log
<1>1. /\ Heard \in Seq(Lines) /\ log \in Seq(Lines) /\ Len(Heard) = Len(taken)
      /\ Len(taken) \in Nat /\ Len(log) \in Nat
      /\ \A k \in 1..Len(taken) : taken[k] \in 1..Len(log) /\ Heard[k] = log[taken[k]]
      /\ ToSet(taken) = {taken[k] : k \in 1..Len(taken)}
  BY WatchHeard DEF Typed, Files, Handled
<1>2. \A k \in 1..Len(taken) : taken[k] = k  BY DEF InTurn, Straight, Handled
<1>3. \A i \in 1..Len(log) : i \in 1..Len(taken)
  <2> TAKE i \in 1..Len(log)
  <2>1. i \in DOMAIN log  BY <1>1
  <2>2. i \in ToSet(taken)  BY <2>1 DEF Handled, ToSet
  <2> QED  BY <1>1, <1>2, <2>2
<1>4. Len(taken) = Len(log)
  <2>1. \A k \in 1..Len(taken) : k \in 1..Len(log)  BY <1>1, <1>2
  <2> QED  BY <1>1, <1>3, <2>1
<1> QED  BY <1>1, <1>2, <1>4

\* What the log counts before its last tick was heard before that was last heard.
LEMMA WatchTotals ==
    ASSUME Typed, InTurn, Handled
    PROVE  \A k \in 1..2 : Totals(log)[k] <= Totals(Heard)[k]
<1>1. /\ Heard \in Seq(Lines) /\ log \in Seq(Lines) /\ Len(Heard) = Len(taken)
      /\ \A k \in 1..Len(taken) : taken[k] \in 1..Len(log) /\ Heard[k] = log[taken[k]]
      /\ ToSet(taken) = {taken[k] : k \in 1..Len(taken)}
  BY WatchHeard DEF Typed, Files, Handled
<1>2. PICK q, n \in Nat : q = Len(taken) /\ n = Len(log)  BY <1>1, WatchHeard DEF Handled
<1> DEFINE T == TickPlaces(log)
           B == StartPlaces(log)
<1>3. /\ Tick(log) = Top(T) /\ Tick(Heard) = Top(HeardAt(T)) /\ T \in SUBSET ToSet(taken)
      /\ Beginning(log) = Top(B) /\ Beginning(Heard) = Top(HeardAt(B))
      /\ B \in SUBSET ToSet(taken)
  BY <1>1, PlacesAre, PlacesHeard
<1>4. T \cap B = {}  BY DEF TickPlaces, StartPlaces, RunLine
<1> HIDE DEF T, B
<1>5. Tick(Heard) > Beginning(Heard) <=> Tick(log) > Beginning(log)
  BY <1>3, <1>4, SameOrder
<1>6. ASSUME Tick(log) > Beginning(log), NEW event \in {"step.complete", "step.failed"}
      PROVE  \E f \in [TickedPlaces(log, event) -> TickedPlaces(Heard, event)] :
                 \A i, j \in TickedPlaces(log, event) : f[i] = f[j] => i = j
  <2>1. PICK t, u : t = Tick(log) /\ u = Tick(Heard)  OBVIOUS
  <2>2. /\ T \in SUBSET (1..n) /\ B \in SUBSET (1..n)
        /\ HeardAt(T) \in SUBSET (1..q) /\ HeardAt(B) \in SUBSET (1..q)
    BY <1>2, <1>3, LastHeard
  <2>3. t \in 0..n /\ Top(B) \in 0..n  BY <1>3, <2>1, <2>2, TopGrows
  <2>4. t # 0  BY <1>3, <1>6, <2>1, <2>3
  <2>5. u # 0 /\ taken[u] = t  BY <1>3, <2>1, <2>4, LastHeard
  <2>6. /\ u \in 0..q /\ u \in HeardAt(T) /\ \A k \in HeardAt(T) : k <= u
    <3>1. PICK A : A = HeardAt(T)  OBVIOUS
    <3>2. A \in SUBSET (1..q) /\ u = Top(A)  BY <1>3, <2>1, <2>2, <3>1
    <3>3. Top(A) \in 0..q /\ Top(A) \in A /\ \A k \in A : k <= Top(A)
      BY <2>5, <3>2, TopGrows
    <3> QED  BY <3>1, <3>2, <3>3
  <2>7. t \in T /\ t \in ToSet(taken)  BY <1>3, <2>1, <2>2, <2>4, TopGrows
  <2>8. ASSUME NEW i \in TickedPlaces(log, event)
        PROVE  \E k \in TickedPlaces(Heard, event) : taken[k] = i
    <3>1. i \in 1..t /\ i \in 1..n /\ log[i].event = event
      BY <2>1, <2>3 DEF TickedPlaces
    <3>2. log[i] # Junk  BY <3>1 DEF Junk, RunLine
    <3>3. i \in ToSet(taken)  BY <1>1, <1>2, <3>1, <3>2 DEF Handled
    <3>4. PICK k \in 1..q : taken[k] = i  BY <1>1, <1>2, <3>3
    <3>5. k <= u
      <4>1. CASE i = t
        <5>1. k \in HeardAt(T)  BY <1>2, <2>7, <3>4, <4>1 DEF HeardAt
        <5> QED  BY <2>6, <5>1
      <4>2. CASE i # t
        <5>1. PICK b \in 1..q : b > k /\ taken[b] = t
          BY <1>2, <2>3, <2>7, <3>1, <3>4, <4>2 DEF InTurn, Ordered, Handled
        <5>2. b \in HeardAt(T)  BY <1>2, <2>7, <5>1 DEF HeardAt
        <5> QED  BY <2>6, <3>4, <5>1, <5>2
      <4> QED  BY <4>1, <4>2
    <3>6. Heard[k].event = event /\ k \in 1..u
      BY <1>1, <1>2, <2>6, <3>1, <3>4, <3>5
    <3> QED  BY <2>1, <3>4, <3>6 DEF TickedPlaces
  <2>9. PICK I, J : I = TickedPlaces(log, event) /\ J = TickedPlaces(Heard, event)  OBVIOUS
  <2> DEFINE f == [i \in I |-> CHOOSE k \in J : taken[k] = i]
  <2>10. \A i \in I : f[i] \in J /\ taken[f[i]] = i  BY <2>8, <2>9
  <2>11. f \in [I -> J]  BY <2>10
  <2>12. \A i, j \in I : f[i] = f[j] => i = j  BY <2>10
  <2> HIDE DEF f
  <2>13. \E g \in [I -> J] : \A i, j \in I : g[i] = g[j] => i = j  BY <2>11, <2>12
  <2> QED  BY <2>9, <2>13
<1> QED  BY <1>1, <1>5, <1>6, FewerTold

\* Whatever was heard of an event, its lines in the log and the repeats make up for.
LEMMA HeardOnceOrAgain ==
    ASSUME Typed, Handled, NEW event
    PROVE  /\ Count(log, event) \in Nat /\ Repeats \in Nat
           /\ Cardinality(EventPlaces(Heard, event)) <= Count(log, event) + Repeats
<1>1. /\ Heard \in Seq(Lines) /\ log \in Seq(Lines) /\ Len(Heard) = Len(taken)
      /\ \A k \in 1..Len(taken) : taken[k] \in 1..Len(log) /\ Heard[k] = log[taken[k]]
      /\ ToSet(taken) = {taken[k] : k \in 1..Len(taken)}
  BY WatchHeard DEF Typed, Files, Handled
<1>2. PICK q, n \in Nat : q = Len(taken) /\ n = Len(log)  BY <1>1, WatchHeard DEF Handled
<1>3. PICK T : T = ToSet(taken)  OBVIOUS
<1> DEFINE f == [i \in T |-> CHOOSE k \in 1..q : taken[k] = i]
<1>4. \A i \in T : f[i] \in 1..q /\ taken[f[i]] = i  BY <1>1, <1>2, <1>3
<1>5. DOMAIN f = T  OBVIOUS
<1> HIDE DEF f
<1> DEFINE P == {f[i] : i \in T}
           E == EventPlaces(Heard, event)
           L == EventPlaces(log, event)
           S == {f[i] : i \in L \cap T}
<1>6. T \in SUBSET (1..n) /\ L \in SUBSET (1..n) /\ P \in SUBSET (1..q) /\ S \in SUBSET P
      /\ E \in SUBSET (1..q)
  BY <1>1, <1>2, <1>3, <1>4 DEF EventPlaces
<1>7. /\ IsFiniteSet(T) /\ IsFiniteSet(L) /\ IsFiniteSet(P) /\ IsFiniteSet(E)
      /\ IsFiniteSet(S) /\ IsFiniteSet(L \cap T)
      /\ Cardinality(T) \in Nat /\ Cardinality(L) \in Nat /\ Cardinality(P) \in Nat
      /\ Cardinality(S) \in Nat /\ Cardinality(E) \in Nat
  <2>1. S \in SUBSET (1..q) /\ L \cap T \in SUBSET (1..n)  BY <1>6
  <2> QED  BY <1>6, <2>1, LastRemoved
<1>8. Cardinality(P) = Cardinality(T)
  <2>1. [i \in T |-> f[i]] \in Bijection(T, P)
    BY <1>4 DEF Bijection, Injection, Surjection, IsInjective
  <2> QED  BY <1>7, <2>1, FS_Bijection DEF ExistsBijection
<1>9. Cardinality(S) <= Cardinality(L)
  <2>1. [i \in L \cap T |-> f[i]] \in Bijection(L \cap T, S)
    BY <1>4 DEF Bijection, Injection, Surjection, IsInjective
  <2>2. Cardinality(S) = Cardinality(L \cap T)
    BY <1>7, <2>1, FS_Bijection DEF ExistsBijection
  <2>3. Cardinality(L \cap T) <= Cardinality(L)  BY <1>7, FS_Subset
  <2> QED  BY <2>2, <2>3
<1>10. /\ IsFiniteSet((1..q) \ P) /\ Cardinality((1..q) \ P) = q - Cardinality(P)
       /\ Cardinality((1..q) \ P) \in Nat
  <2>1. IsFiniteSet(1..q) /\ Cardinality(1..q) = q  BY FS_Interval
  <2>2. (1..q) \cap P = P  BY <1>6
  <2>3. PICK D : D = 1..q  OBVIOUS
  <2>4. IsFiniteSet(D \ P) /\ Cardinality(D \ P) = Cardinality(D) - Cardinality(D \cap P)
    BY <2>1, <2>3, FS_Difference
  <2>5. Cardinality(D \ P) \in Nat  BY <2>4, FS_CardinalityType
  <2>6. Cardinality(D \ P) = q - Cardinality(P)  BY <2>1, <2>2, <2>3, <2>4
  <2> QED  BY <2>3, <2>4, <2>5, <2>6
<1>11. Repeats = q - Cardinality(T)  BY <1>2, <1>3 DEF Repeats
<1>12. E \subseteq S \cup ((1..q) \ P)
  <2> SUFFICES ASSUME NEW k \in E, k \in P
               PROVE  k \in S
    BY <1>6
  <2>1. PICK i \in T : k = f[i]  OBVIOUS
  <2>2. k \in 1..q /\ Heard[k].event = event  BY <1>1, <1>2 DEF EventPlaces
  <2>3. log[i].event = event /\ i \in 1..n  BY <1>1, <1>2, <1>4, <2>1, <2>2
  <2>4. i \in L  BY <1>2, <2>3 DEF EventPlaces
  <2> QED  BY <2>1, <2>4
<1> HIDE DEF P, E, L, S
<1>13. S \cap ((1..q) \ P) = {}  BY <1>6
<1>14. /\ IsFiniteSet(S \cup ((1..q) \ P))
       /\ Cardinality(S \cup ((1..q) \ P)) = Cardinality(S) + Cardinality((1..q) \ P)
  <2>1. PICK R : R = (1..q) \ P  OBVIOUS
  <2>2. Cardinality(S \cap R) = 0  BY <1>13, <2>1, FS_EmptySet
  <2>3. /\ IsFiniteSet(S \cup R)
        /\ Cardinality(S \cup R) = Cardinality(S) + Cardinality(R) - Cardinality(S \cap R)
    BY <1>7, <1>10, <2>1, FS_Union
  <2>4. Cardinality(S) \in Nat /\ Cardinality(R) \in Nat  BY <1>7, <1>10, <2>1
  <2> QED  BY <2>1, <2>2, <2>3, <2>4
<1>15. Cardinality(E) <= Cardinality(S) + Cardinality((1..q) \ P)
  BY <1>12, <1>14, FS_Subset
<1>16. Count(log, event) = Cardinality(L)  BY <1>1, PlacesAre DEF L
<1> QED  BY <1>7, <1>8, <1>9, <1>10, <1>11, <1>15, <1>16 DEF E

LEMMA WatchTotalsBounded ==
    ASSUME Typed, Handled
    PROVE  /\ Totals(Heard)[1] <= Count(log, "step.complete") + Repeats
           /\ Totals(Heard)[2] <= Count(log, "step.failed") + Repeats
<1>1. Heard \in Seq(Lines)  BY WatchHeard DEF Handled
<1>2. PICK n \in Nat : n = Len(Heard)  BY <1>1
<1>3. Tick(Heard) \in 0..n  BY <1>1, <1>2, TotalsAre
<1>4. ASSUME NEW event
      PROVE  /\ Cardinality(TickedPlaces(Heard, event)) <= Count(log, event) + Repeats
             /\ 0 <= Count(log, event) + Repeats
  <2>1. PICK I, J : I = TickedPlaces(Heard, event) /\ J = EventPlaces(Heard, event)  OBVIOUS
  <2>2. J \in SUBSET (1..n) /\ I \in SUBSET J
    BY <1>2, <1>3, <2>1 DEF TickedPlaces, EventPlaces
  <2>3. IsFiniteSet(J) /\ Cardinality(J) \in Nat  BY <2>2, LastRemoved
  <2>4. Cardinality(I) <= Cardinality(J) /\ IsFiniteSet(I)  BY <2>2, <2>3, FS_Subset
  <2>5. Cardinality(I) \in Nat  BY <2>4, FS_CardinalityType
  <2>6. /\ Cardinality(J) <= Count(log, event) + Repeats
        /\ Count(log, event) \in Nat /\ Repeats \in Nat
    BY <2>1, HeardOnceOrAgain
  <2> QED  BY <2>1, <2>3, <2>4, <2>5, <2>6
<1>5. CASE Tick(Heard) > Beginning(Heard)
  <2>1. Totals(Heard) = <<Cardinality(TickedPlaces(Heard, "step.complete")),
                          Cardinality(TickedPlaces(Heard, "step.failed"))>>
    BY <1>1, <1>5, TotalsAre
  <2> QED  BY <1>4, <2>1
<1>6. CASE ~(Tick(Heard) > Beginning(Heard))
  <2>1. Totals(Heard) = <<0, 0>>  BY <1>1, <1>6, TotalsAre
  <2> QED  BY <1>4, <2>1
<1> QED  BY <1>5, <1>6

-----------------------------------------------------------------------------
(* What a console draws, and what the log says                             *)

\* A console that has everything draws what the translator heard.
LEMMA HeardPictured ==
    ASSUME Typed, Faithful, NEW c \in Streams, Current(c), mode = "replay" \/ got[c] = sent
    PROVE  Pictures(Shown(got[c]), Heard)
<1>1. stage[c] = "attached" /\ queue[c] = <<>> /\ out = <<>>  BY DEF Current
<1>2. CASE mode = "replay"
  <2>1. got[c] # <<>>  BY <1>2 DEF Current
  <2>2. got[c] = cached  BY <1>1, <1>2, <2>1 DEF Faithful, Replayed
  <2>3. Heard = SubSeq(log, 1, loaded)  BY <1>2 DEF Heard
  <2>4. PICK r : Agreed(Shown(cached), r, SubSeq(log, 1, loaded))
    BY <1>2 DEF Faithful, Replayed
  <2>5. Agreed(Shown(got[c]), r, Heard)  BY <2>2, <2>3, <2>4, Zenon
  <2> QED  BY <2>5, AgreedPictures
<1>3. CASE mode # "replay"
  <2>1. sent \o out = got[c]  BY <1>1, <1>3 DEF Typed, Feeds
  <2>2. Agreed(Shown(got[c]), rs, Heard)  BY <1>3, <2>1, Zenon DEF Faithful, Drawn
  <2> QED  BY <2>2, AgreedPictures
<1> QED  BY <1>2, <1>3

\* Whatever run.log holds, however its run was killed and launched again, and whoever
\* connects when: a console that has received every envelope of a bridge or a watch,
\* or the whole of a replay, and applies each, draws what the log on disk says.  A line
\* that the bridge has read in two parts costs no station but its own and adds nothing
\* to the totals, unless it starts a run; a junk line costs the watch no station, and
\* each line that it takes again adds at most one to a total.
THEOREM DrawsTheLog == Spec => []TrueToLog
<1> DEFINE Inv == Typed /\ Story /\ Faithful /\ InTurn
<1>1. Init => Inv  BY InitTyped, InitStory, InitFaithful, InitInTurn
<1>2. Inv /\ [Next]_vars => Inv'
  BY FilesTyped, TailsTyped, FeedsTyped, ServiceTyped, StoryKept, FaithfulKept, InTurnKept
     DEF Typed
<1>3. Inv => TrueToLog
  <2> SUFFICES ASSUME Typed, Faithful, InTurn, NEW c \in Streams, Current(c),
                      mode = "replay" \/ got[c] = sent
               PROVE  LET m == Shown(got[c])
                      IN CASE mode = "replay" -> Pictures(m, SubSeq(log, 1, loaded))
                           [] mode = "bridge" ->
                                  /\ Torn = {} => Pictures(m, log)
                                  /\ (\A i \in Torn :
                                         log[i] \notin {Junk, RunLine("run.start")}) =>
                                         /\ \A s \in Stations :
                                               (\A i \in Torn : log[i].at # {s}) =>
                                                   Draws(m, log, s)
                                         /\ \A k \in 1..2 : m.metrics[k] <= Totals(log)[k]
                           [] mode = "watch" ->
                                  /\ Junk \notin ToSet(log) => Pictures(m, log)
                                  /\ \A s \in Stations : Draws(m, log, s)
                                  /\ \A k \in 1..2 : Totals(log)[k] <= m.metrics[k]
                                  /\ m.metrics[1] <= Count(log, "step.complete") + Repeats
                                  /\ m.metrics[2] <= Count(log, "step.failed") + Repeats
    BY Zenon DEF TrueToLog
  <2>1. PICK m : m = Shown(got[c])  OBVIOUS
  <2>2. Pictures(m, Heard)  BY <2>1, HeardPictured
  <2>3. (\A s \in Stations : Draws(m, Heard, s)) /\ m.metrics = Totals(Heard)
    BY <2>2 DEF Pictures
  <2>4. CASE mode = "replay"
    <3>1. Heard = SubSeq(log, 1, loaded)  BY <2>4 DEF Heard
    <3> QED  BY <2>1, <2>2, <2>4, <3>1
  <2>5. CASE mode = "bridge"
    <3>1. cursor = Len(log)  BY <2>5 DEF Current
    <3>2. Torn = {} => Pictures(m, log)  BY <2>2, <2>5, <3>1, WholeHeard
    <3>3. ASSUME \A i \in Torn : log[i] \notin {Junk, RunLine("run.start")}
          PROVE  /\ \A s \in Stations : (\A i \in Torn : log[i].at # {s}) => Draws(m, log, s)
                 /\ \A k \in 1..2 : m.metrics[k] <= Totals(log)[k]
      BY <2>3, <2>5, <3>1, <3>3, BridgeStations, BridgeTotals
    <3> QED  BY <2>1, <2>5, <3>2, <3>3
  <2>6. CASE mode = "watch"
    <3>1. Handled  BY <2>6 DEF Current, Handled
    <3>2. Junk \notin ToSet(log) => Pictures(m, log)  BY <2>2, <3>1, WatchWhole
    <3>3. \A s \in Stations : Draws(m, log, s)  BY <2>3, <3>1, WatchStations
    <3>4. \A k \in 1..2 : Totals(log)[k] <= m.metrics[k]  BY <2>3, <3>1, WatchTotals
    <3>5. /\ m.metrics[1] <= Count(log, "step.complete") + Repeats
          /\ m.metrics[2] <= Count(log, "step.failed") + Repeats
      BY <2>3, <3>1, WatchTotalsBounded
    <3> QED  BY <2>1, <2>6, <3>2, <3>3, <3>4, <3>5
  <2>7. mode \in {"bridge", "watch", "replay"}  BY DEF Typed, Files
  <2> QED  BY <2>4, <2>5, <2>6, <2>7
<1> HIDE DEF Inv
<1> QED  BY <1>1, <1>2, <1>3, PTL DEF Spec
=============================================================================
