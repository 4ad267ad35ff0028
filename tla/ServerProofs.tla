----------------------------- MODULE ServerProofs -----------------------------
(***************************************************************************)
(* The receiving end.  First the replay window of one peer: it gives the   *)
(* verdicts of the ideal filter, for every window size and every bound on  *)
(* the jumps of the arrivals, and so implements ReplayFilter.  Then the    *)
(* tables of the server: they stay within their limits, guards outlive     *)
(* sessions, and old starts end, whatever the peers and the limits are.    *)
(* Last what depends on the numbers in use: nothing is dispatched twice,   *)
(* and no session counts more numbers as received than it expected.        *)
(***************************************************************************)
EXTENDS ReplayWindow, ReliableServer, SequenceProofs,
        SequenceTheorems, FiniteSetTheorems

(* An advance by at most MaxJump ages every number by as much, and what    *)
(* lies between the old and the new highest number is older than all that  *)
(* is remembered.                                                          *)
LEMMA Advance ==
  ASSUME NEW h \in SeqNum, NEW s \in SeqNum, NEW t \in SeqNum,
         IsAhead(s, h), Dist(h, s) <= MaxJump
  PROVE  /\ Dist(s, s) = 0
         /\ Dist(t, h) + Dist(h, s) < SeqSpace =>
              Dist(t, s) = Dist(t, h) + Dist(h, s)
         /\ Dist(t, h) + Dist(h, s) >= SeqSpace =>
              Dist(t, s) = (Dist(t, h) + Dist(h, s)) - SeqSpace
         /\ Dist(s, h) + Dist(h, s) = SeqSpace
BY HalfSpaceAssumption, SMT DEF Dist, IsAhead, SeqNum, SeqSpace

(* The products of the assumptions are natural numbers, and one more entry *)
(* is worth one more jump.                                                 *)
LEMMA Products ==
  /\ Size \in Nat /\ MaxJump \in Nat /\ HalfSpace \in Nat
  /\ MaxJump * Size \in Nat
  /\ \A n \in Nat : /\ MaxJump * n \in Nat
                    /\ MaxJump * (n + 1) = MaxJump * n + MaxJump
                    /\ n <= Size => MaxJump * n <= MaxJump * Size
<1>1. Size \in Nat /\ MaxJump \in Nat /\ HalfSpace \in Nat
  BY WindowAssumption, JumpAssumption, HalfSpaceAssumption
<1>2. ASSUME NEW n \in Nat
      PROVE  /\ MaxJump * n \in Nat
             /\ MaxJump * (n + 1) = MaxJump * n + MaxJump
             /\ n <= Size => MaxJump * n <= MaxJump * Size
  BY <1>1, SMT
<1>3. QED
  BY <1>1, <1>2

(* Sets of sequence numbers are finite. *)
LEMMA SeqSetsFinite ==
  ASSUME NEW S, S \subseteq SeqNum
  PROVE  IsFiniteSet(S) /\ Cardinality(S) \in Nat
<1>1. 0 \in Int /\ SeqSpace - 1 \in Int
  BY HalfSpaceAssumption, SMT DEF SeqSpace
<1>2. IsFiniteSet(SeqNum)
  BY <1>1, FS_Interval DEF SeqNum
<1>3. IsFiniteSet(S)
  BY <1>2, FS_Subset
<1>4. QED
  BY <1>3, FS_CardinalityType

-----------------------------------------------------------------------------
(* The first number of an epoch. *)
LEMMA FirstAccepted ==
  ASSUME IInv, NEW s \in SeqNum, Receive(s), window.highest = NoSeq
  PROVE  IInv'
<1>1. window' = [highest |-> s, seen |-> {s}]
  BY DEF Receive, Accept
<1>2. Dist(s, s) = 0 /\ s # NoSeq
  BY DistType DEF SeqNum, NoSeq
<1>3. accepted' = {s}
  <2>1. Accepts(window, s) /\ accepted = {}
    BY DEF Accepts, IInv
  <2>2. 0 < HalfSpace
    BY HalfSpaceAssumption
  <2>3. QED
    BY <1>1, <1>2, <2>1, <2>2 DEF Receive
<1>4. Cardinality({s}) \in Nat
  BY SeqSetsFinite
<1>5. EntriesRecent'
  BY <1>1, <1>2, <1>4, Products, SMT DEF EntriesRecent
<1>6. \A t \in accepted' : Dist(t, s) < HalfSpace
  BY <1>2, <1>3, HalfSpaceAssumption
<1>7. window' \in ReplayWindow /\ accepted' \subseteq SeqNum
  BY <1>1, <1>3 DEF ReplayWindow
<1>8. QED
  BY <1>1, <1>2, <1>3, <1>5, <1>6, <1>7 DEF IInv

(* A number ahead: everything ages by the jump, and what is remembered      *)
(* stays recent because each advance adds an entry until the set is pruned. *)
LEMMA AheadAccepted ==
  ASSUME IInv, NEW s \in SeqNum, Receive(s),
         window.highest # NoSeq, IsAhead(s, window.highest)
  PROVE  IInv'
<1> DEFINE h == window.highest
           j == Dist(h, s)
           c == Cardinality(window.seen)
           grown == window.seen \cup {s}
<1>1. /\ h \in SeqNum /\ window.seen \subseteq SeqNum
      /\ accepted \subseteq SeqNum
  BY DEF IInv, ReplayWindow
<1>2. j \in Nat /\ j <= MaxJump
  <2>1. j \in SeqNum
    BY <1>1, DistType
  <2>2. j <= MaxJump
    BY <1>1 DEF Receive
  <2> QED BY <2>1, <2>2 DEF SeqNum
<1>3. window' = PruneIfNeeded([highest |-> s, seen |-> grown])
  BY DEF Receive, Accept
<1>4. window'.highest = s /\ s # NoSeq
  <2>1. s # NoSeq
    BY DEF SeqNum, NoSeq
  <2>2. window'.highest = s
    BY <1>3 DEF PruneIfNeeded
  <2> QED BY <2>1, <2>2
<1>5. /\ Size \in Nat /\ MaxJump \in Nat /\ HalfSpace \in Nat
      /\ SeqSpace = 2 * HalfSpace
      /\ MaxJump * Size \in Nat /\ c \in Nat /\ MaxJump * c \in Nat
      /\ MaxJump * (c + 1) = MaxJump * c + MaxJump
      /\ Size < HalfSpace /\ MaxJump < HalfSpace
      /\ Size + MaxJump * Size + MaxJump < SeqSpace
  BY <1>1, Products, SeqSetsFinite, WindowAssumption, JumpAssumption
     DEF SeqSpace
<1>6. ASSUME NEW t \in SeqNum
      PROVE  /\ Dist(t, h) \in Nat /\ Dist(t, s) \in Nat
             /\ Dist(s, s) = 0
             /\ Dist(t, h) + j < SeqSpace => Dist(t, s) = Dist(t, h) + j
             /\ Dist(t, h) + j >= SeqSpace =>
                  Dist(t, s) = (Dist(t, h) + j) - SeqSpace
             /\ Dist(s, h) + j = SeqSpace
  <2>1. Dist(t, h) \in Nat /\ Dist(t, s) \in Nat
    BY <1>1, DistType DEF SeqNum
  <2>2. /\ Dist(s, s) = 0
        /\ Dist(t, h) + j < SeqSpace => Dist(t, s) = Dist(t, h) + j
        /\ Dist(t, h) + j >= SeqSpace =>
             Dist(t, s) = (Dist(t, h) + j) - SeqSpace
        /\ Dist(s, h) + j = SeqSpace
    BY <1>1, <1>2, Advance
  <2>3. QED
    BY <2>1, <2>2
<1>7. ASSUME NEW t \in window.seen
      PROVE  /\ Dist(t, h) <= Size + MaxJump * Size
             /\ Dist(t, h) <= Size + MaxJump * c
             /\ Dist(t, s) = Dist(t, h) + j
  <2>1. Dist(t, h) <= Size + MaxJump * Size /\ Dist(t, h) <= Size + MaxJump * c
    BY DEF IInv, EntriesRecent
  <2>2. t \in SeqNum
    BY <1>1
  <2> HIDE DEF h, j, c
  <2>3. Dist(t, h) + j < SeqSpace
    BY <1>2, <1>5, <1>6, <2>1, <2>2, SMT
  <2>4. QED
    BY <1>6, <2>1, <2>2, <2>3
<1>8. s \notin window.seen
  <2>1. ASSUME s \in window.seen PROVE FALSE
    <3>1. Dist(s, h) <= Size + MaxJump * Size
      BY <1>7, <2>1
    <3> HIDE DEF h, j, c
    <3>2. QED
      BY <1>2, <1>5, <1>6, <3>1, SMT
  <2>2. QED
    BY <2>1
<1>9. Cardinality(grown) = c + 1
  BY <1>1, <1>8, SeqSetsFinite, FS_AddElement
<1>10. ASSUME NEW t \in grown
       PROVE  t \in SeqNum /\ Dist(t, s) <= Size + MaxJump * (c + 1)
  <2>1. t \in SeqNum
    BY <1>1
  <2>2. CASE t = s
    <3> HIDE DEF h, j, c
    <3>1. QED
      BY <1>5, <1>6, <2>2, SMT
  <2>3. CASE t \in window.seen
    <3>1. Dist(t, h) <= Size + MaxJump * c /\ Dist(t, s) = Dist(t, h) + j
      BY <1>7, <2>3
    <3> HIDE DEF h, j, c
    <3>2. QED
      BY <1>2, <1>5, <1>6, <2>1, <3>1, SMT
  <2>4. QED
    BY <2>2, <2>3
<1>11. EntriesRecent'
  <2>1. CASE Cardinality(grown) <= Size
    <3>1. window'.seen = grown
      BY <1>3, <2>1 DEF PruneIfNeeded
    <3>2. MaxJump * (c + 1) <= MaxJump * Size
      BY <1>5, <1>9, <2>1, Products
    <3>3. ASSUME NEW t \in grown
          PROVE  /\ Dist(t, s) <= Size + MaxJump * Size
                 /\ Dist(t, s) <= Size + MaxJump * Cardinality(grown)
      <4>1. Dist(t, s) <= Size + MaxJump * (c + 1) /\ Dist(t, s) \in Nat
        BY <1>6, <1>10
      <4> HIDE DEF h, j, c
      <4>2. Dist(t, s) <= Size + MaxJump * Size
        BY <1>5, <3>2, <4>1, SMT
      <4>3. QED
        BY <1>9, <4>1, <4>2
    <3>4. QED
      BY <1>4, <3>1, <3>3 DEF EntriesRecent
  <2>2. CASE ~ (Cardinality(grown) <= Size)
    <3>1. window'.seen = {t \in grown : Dist(t, s) < Size}
      BY <1>3, <2>2 DEF PruneIfNeeded, Inside
    <3>2. window'.seen \subseteq SeqNum
      BY <1>10, <3>1
    <3>3. MaxJump * Cardinality(window'.seen) \in Nat
      BY <3>2, SeqSetsFinite, Products
    <3>4. ASSUME NEW t \in window'.seen
          PROVE  /\ Dist(t, s) <= Size + MaxJump * Size
                 /\ Dist(t, s) <= Size + MaxJump * Cardinality(window'.seen)
      <4>1. Dist(t, s) < Size /\ Dist(t, s) \in Nat
        BY <1>6, <3>1, <3>2
      <4>2. QED
        BY <1>5, <3>3, <4>1, SMT
    <3>5. QED
      BY <1>4, <3>4 DEF EntriesRecent
  <2>3. QED
    BY <2>1, <2>2
<1>12. accepted' = {t \in accepted \cup {s} : Dist(t, s) < HalfSpace}
  BY <1>4 DEF Receive, Accepts
<1>13. ASSUME NEW t \in SeqNum, Dist(t, s) < Size
       PROVE  t \in window'.seen <=> t \in accepted'
  <2>1. t \in window'.seen <=> t \in grown
    <3>1. Dist(t, s) < Size
      BY <1>13
    <3>2. QED
      BY <1>3, <3>1 DEF PruneIfNeeded, Inside
  <2>2. t \in accepted' <=> t \in accepted \cup {s}
    <3>1. Dist(t, s) < HalfSpace
      <4> HIDE DEF h, j, c
      <4>1. QED
        BY <1>5, <1>6, <1>13, SMT
    <3>2. QED
      BY <1>12, <3>1
  <2>3. ASSUME t \in window.seen PROVE t \in accepted
    <3>1. Dist(t, s) = Dist(t, h) + j
      BY <1>7, <2>3
    <3>2. Dist(t, h) < Size
      <4> HIDE DEF h, j, c
      <4>1. QED
        BY <1>2, <1>5, <1>6, <1>13, <3>1, SMT
    <3>3. QED
      BY <2>3, <3>2 DEF IInv
  <2>4. ASSUME t \in accepted PROVE t \in window.seen
    <3>1. Dist(t, h) < HalfSpace
      BY <2>4 DEF IInv
    <3>2. Dist(t, h) < Size
      <4> HIDE DEF h, j, c
      <4>1. QED
        BY <1>2, <1>5, <1>6, <1>13, <3>1, SMT
    <3>3. QED
      BY <2>4, <3>2 DEF IInv
  <2>5. QED
    BY <2>1, <2>2, <2>3, <2>4
<1>14. window' \in ReplayWindow
  <2>1. window' = [highest |-> s, seen |-> window'.seen]
    BY <1>3 DEF PruneIfNeeded
  <2>2. window'.seen \subseteq grown
    BY <1>3 DEF PruneIfNeeded
  <2>3. window'.seen \subseteq SeqNum
    BY <1>10, <2>2
  <2>4. [highest |-> s, seen |-> window'.seen] \in ReplayWindow
    BY <2>3 DEF ReplayWindow
  <2>5. QED
    BY <2>1, <2>4
<1>15. accepted' \subseteq SeqNum /\ \A t \in accepted' : Dist(t, s) < HalfSpace
  BY <1>1, <1>12
<1>16. QED
  BY <1>4, <1>11, <1>13, <1>14, <1>15 DEF IInv

(* A number inside the window that is new: one more entry. *)
LEMMA BehindAccepted ==
  ASSUME IInv, NEW s \in SeqNum, Receive(s),
         window.highest # NoSeq, ~ IsAhead(s, window.highest),
         Accepts(window, s)
  PROVE  IInv'
<1> DEFINE h == window.highest
           c == Cardinality(window.seen)
<1>1. /\ h \in SeqNum /\ window.seen \subseteq SeqNum
      /\ accepted \subseteq SeqNum
  BY DEF IInv, ReplayWindow
<1>2. Dist(s, h) < Size /\ s \notin window.seen
  BY DEF Accepts, Inside
<1>3. window' = [highest |-> h, seen |-> window.seen \cup {s}]
  <2>1. window' = [window EXCEPT !.seen = @ \cup {s}]
    BY DEF Receive, Accept
  <2>2. QED
    BY <2>1 DEF IInv, ReplayWindow
<1>4. Cardinality(window'.seen) = c + 1
  BY <1>1, <1>2, <1>3, SeqSetsFinite, FS_AddElement
<1>5. /\ Size \in Nat /\ MaxJump \in Nat /\ HalfSpace \in Nat
      /\ MaxJump * Size \in Nat /\ c \in Nat /\ MaxJump * c \in Nat
      /\ MaxJump * (c + 1) = MaxJump * c + MaxJump
      /\ Size < HalfSpace
  BY <1>1, Products, SeqSetsFinite, WindowAssumption
<1>6. ASSUME NEW t \in SeqNum PROVE Dist(t, h) \in Nat
  <2>1. Dist(t, h) \in SeqNum
    BY <1>1, DistType
  <2>2. QED
    BY <2>1 DEF SeqNum
<1>7. EntriesRecent'
  <2>1. ASSUME NEW t \in window'.seen
        PROVE  /\ Dist(t, h) <= Size + MaxJump * Size
               /\ Dist(t, h) <= Size + MaxJump * (c + 1)
    <3>1. t \in SeqNum
      BY <1>1, <1>3
    <3>2. CASE t = s
      <4>1. Dist(t, h) \in Nat /\ Dist(t, h) < Size
        BY <1>2, <1>6, <3>1, <3>2
      <4> HIDE DEF h, c
      <4>2. QED
        BY <1>5, <4>1, SMT
    <3>3. CASE t \in window.seen
      <4>1. /\ Dist(t, h) <= Size + MaxJump * Size
            /\ Dist(t, h) <= Size + MaxJump * c
            /\ Dist(t, h) \in Nat
        BY <1>6, <3>1, <3>3 DEF IInv, EntriesRecent
      <4> HIDE DEF h, c
      <4>2. QED
        BY <1>5, <4>1, SMT
    <3>4. QED
      BY <1>3, <3>2, <3>3
  <2>2. QED
    BY <1>3, <1>4, <2>1 DEF EntriesRecent
<1>8. accepted' = {t \in accepted \cup {s} : Dist(t, h) < HalfSpace}
  BY <1>3 DEF Receive
<1>9. \A t \in SeqNum : Dist(t, h) < Size => Dist(t, h) < HalfSpace
  <2> HIDE DEF h, c
  <2>1. QED
    BY <1>5, <1>6, SMT
<1>10. ASSUME NEW t \in SeqNum, Dist(t, h) < Size
       PROVE  t \in window'.seen <=> t \in accepted'
  <2>1. t \in window.seen <=> t \in accepted
    BY <1>10 DEF IInv
  <2>2. QED
    BY <1>3, <1>8, <1>9, <1>10, <2>1
<1>11. window' \in ReplayWindow
  BY <1>1, <1>3 DEF ReplayWindow
<1>12. accepted' \subseteq SeqNum /\ \A t \in accepted' : Dist(t, h) < HalfSpace
  BY <1>1, <1>8
<1>13. QED
  BY <1>3, <1>7, <1>10, <1>11, <1>12 DEF IInv

(* A number that is refused changes nothing. *)
LEMMA Refused ==
  ASSUME IInv, NEW s \in SeqNum, Receive(s), ~ Accepts(window, s)
  PROVE  /\ window' = window
         /\ accepted' = accepted
<1>1. window.highest # NoSeq /\ ~ IsAhead(s, window.highest)
  BY DEF Accepts
<1>2. window' = window
  BY <1>1 DEF Receive, Accept
<1>3. QED
  BY <1>1, <1>2 DEF Receive, IInv

(* The inductive invariant: inside the window, the set holds exactly the   *)
(* numbers accepted, and its old entries are recent enough not to be taken *)
(* for numbers to come (accept and _pruneIfNeeded).                        *)
THEOREM InductiveInvariant == WindowSpec => []IInv
<1>1. WindowInit => IInv
  BY DEF WindowInit, IInv, NewWindow, ReplayWindow
<1>2. ASSUME IInv, [WindowNext]_windowVars PROVE IInv'
  <2>1. CASE Reset
    BY <2>1 DEF Reset, IInv, NewWindow, ReplayWindow
  <2>2. ASSUME NEW s \in SeqNum, Receive(s) PROVE IInv'
    <3>1. CASE window.highest = NoSeq
      BY <1>2, <2>2, <3>1, FirstAccepted
    <3>2. CASE window.highest # NoSeq /\ IsAhead(s, window.highest)
      BY <1>2, <2>2, <3>2, AheadAccepted
    <3>3. CASE /\ window.highest # NoSeq /\ ~ IsAhead(s, window.highest)
               /\ Accepts(window, s)
      BY <1>2, <2>2, <3>3, BehindAccepted
    <3>4. CASE ~ Accepts(window, s)
      <4>1. window' = window /\ accepted' = accepted
        BY <1>2, <2>2, <3>4, Refused
      <4>2. QED
        BY <1>2, <4>1 DEF IInv, EntriesRecent
    <3>5. QED
      BY <3>1, <3>2, <3>3, <3>4
  <2>3. CASE UNCHANGED windowVars
    BY <1>2, <2>3 DEF windowVars, IInv, EntriesRecent
  <2>4. QED
    BY <1>2, <2>1, <2>2, <2>3 DEF WindowNext
<1>3. QED
  BY <1>1, <1>2, PTL DEF WindowSpec

(* With the invariant, the verdict of accept is the one of the ideal       *)
(* filter.                                                                 *)
LEMMA VerdictIsExact == IInv => ExactVerdict
<1>1. ASSUME IInv, NEW s \in SeqNum
      PROVE  Accepts(window, s) <=>
               \/ window.highest = NoSeq
               \/ IsAhead(s, window.highest)
               \/ Dist(s, window.highest) < Size /\ s \notin accepted
  <2>1. CASE window.highest = NoSeq
    BY <2>1 DEF Accepts
  <2>2. CASE window.highest # NoSeq
    <3>1. Dist(s, window.highest) < Size =>
            (s \in window.seen <=> s \in accepted)
      BY <1>1, <2>2 DEF IInv
    <3>2. QED
      BY <2>2, <3>1 DEF Accepts, Inside
  <2>3. QED
    BY <2>1, <2>2
<1>2. QED
  BY <1>1 DEF ExactVerdict

(* accept refuses exactly what was accepted before or is too old: no DATA  *)
(* packet is processed twice, and none is lost to a stale entry.           *)
THEOREM NeverTwiceNeverLost == WindowSpec => []ExactVerdict
BY InductiveInvariant, VerdictIsExact, PTL

(* The filter counts on the same sequence space. *)
LEMMA SameArithmetic ==
  /\ Abstract!NoSeq = NoSeq
  /\ Abstract!SeqNum = SeqNum
  /\ \A a, b : Abstract!Dist(a, b) = Dist(a, b)
  /\ \A a, b : Abstract!IsAhead(a, b) = IsAhead(a, b)
BY DEF Abstract!NoSeq, Abstract!SeqNum, Abstract!Dist, Abstract!IsAhead,
       Abstract!SeqSpace, NoSeq, SeqNum, Dist, IsAhead, SeqSpace

(* One step of the window is a step of the ideal filter. *)
LEMMA StepImplements ==
  ASSUME IInv, WindowNext
  PROVE  Abstract!Next
<1>1. CASE Reset
  BY <1>1, SameArithmetic
     DEF Reset, NewWindow, Abstract!Next, Abstract!Reset, Abstract!NoVerdict
<1>2. ASSUME NEW s \in SeqNum, Receive(s) PROVE Abstract!Receive(s)
  <2>1. Accepts(window, s) <=> Abstract!Fresh(s)
    BY VerdictIsExact, SameArithmetic
       DEF ExactVerdict, Abstract!Fresh, Abstract!Ahead
  <2>2. verdict' = [seq |-> s, fresh |-> Abstract!Fresh(s)]
    <3>1. verdict' = [seq |-> s, fresh |-> Accepts(window, s)]
      BY <1>2 DEF Receive
    <3>2. Accepts(window, s) = Abstract!Fresh(s)
      BY Zenon, <2>1 DEF Accepts, Abstract!Fresh
    <3>3. QED
      BY <3>1, <3>2
  <2>3. window'.highest = IF Abstract!Ahead(s) THEN s ELSE window.highest
    <3>1. CASE window.highest = NoSeq
      BY <1>2, <3>1, SameArithmetic DEF Receive, Accept, Abstract!Ahead
    <3>2. CASE window.highest # NoSeq /\ IsAhead(s, window.highest)
      BY <1>2, <3>2, SameArithmetic
         DEF Receive, Accept, PruneIfNeeded, Abstract!Ahead
    <3>3. CASE window.highest # NoSeq /\ ~ IsAhead(s, window.highest)
      <4>1. \/ window' = window
            \/ window' = [window EXCEPT !.seen = @ \cup {s}]
        BY <1>2, <3>3 DEF Receive, Accept
      <4>2. window'.highest = window.highest
        BY <4>1 DEF IInv, ReplayWindow
      <4>3. QED
        BY <3>3, <4>2, SameArithmetic DEF Abstract!Ahead
    <3>4. QED
      BY <3>1, <3>2, <3>3
  <2>4. accepted' = {t \in IF Abstract!Fresh(s) THEN accepted \cup {s}
                           ELSE accepted : Dist(t, window'.highest) < HalfSpace}
    BY <1>2, <2>1 DEF Receive
  <2>5. QED
    BY <2>2, <2>3, <2>4, SameArithmetic DEF Abstract!Receive
<1>3. QED
  BY <1>1, <1>2, SameArithmetic DEF WindowNext, Abstract!Next

(* The window implements the ideal filter that remembers everything (the   *)
(* description at the head of replay-window.ts).                           *)
THEOREM Implements == WindowSpec => ImplementsFilter
<1>1. WindowInit => Abstract!Init
  BY SameArithmetic DEF WindowInit, NewWindow, Abstract!Init, Abstract!NoVerdict
<1>2. IInv /\ [WindowNext]_windowVars => [Abstract!Next]_(Abstract!vars)
  <2>1. ASSUME IInv, WindowNext PROVE Abstract!Next
    BY <2>1, StepImplements
  <2>2. ASSUME UNCHANGED windowVars PROVE UNCHANGED Abstract!vars
    BY <2>2 DEF windowVars, Abstract!vars
  <2>3. QED
    BY <2>1, <2>2
<1>3. QED
  BY <1>1, <1>2, InductiveInvariant, PTL
     DEF WindowSpec, ImplementsFilter, Abstract!Spec

-----------------------------------------------------------------------------
(* What removing one place makes of a sequence. *)
LEMMA RemoveAtFacts ==
  ASSUME NEW S, NEW s \in Seq(S), NEW k \in 1 .. Len(s)
  PROVE  /\ RemoveAt(s, k) \in Seq(S)
         /\ Len(RemoveAt(s, k)) = Len(s) - 1
         /\ \A i \in 1 .. Len(s) - 1 :
              RemoveAt(s, k)[i] = IF i < k THEN s[i] ELSE s[i + 1]
<1> DEFINE a == SubSeq(s, 1, k - 1)
           b == SubSeq(s, k + 1, Len(s))
<1>1. /\ Len(s) \in Nat /\ \A i \in 1 .. Len(s) : s[i] \in S
  BY LenProperties, ElementOfSeq
<1>2. /\ a \in Seq(S) /\ Len(a) = k - 1
      /\ \A i \in 1 .. k - 1 : a[i] = s[i]
  <2>1. \A i \in 1 .. k - 1 : s[i] \in S
    BY <1>1
  <2>2. /\ SubSeq(s, 1, k - 1) \in Seq(S)
        /\ Len(SubSeq(s, 1, k - 1)) = IF 1 <= k - 1 THEN (k - 1) - 1 + 1 ELSE 0
        /\ \A i \in 1 .. (k - 1) - 1 + 1 : SubSeq(s, 1, k - 1)[i] = s[1 + i - 1]
    BY <1>1, <2>1, SubSeqProperties
  <2> QED BY <1>1, <2>2
<1>3. /\ b \in Seq(S) /\ Len(b) = Len(s) - k
      /\ \A i \in 1 .. Len(s) - k : b[i] = s[k + i]
  <2>1. \A i \in k + 1 .. Len(s) : s[i] \in S
    BY <1>1
  <2> QED BY <1>1, <2>1, SubSeqProperties
<1>4. RemoveAt(s, k) = a \o b
  BY DEF RemoveAt
<1> HIDE DEF a, b
<1>5. /\ a \o b \in Seq(S) /\ Len(a \o b) = Len(a) + Len(b)
      /\ \A i \in 1 .. Len(a) + Len(b) :
           (a \o b)[i] = IF i <= Len(a) THEN a[i] ELSE b[i - Len(a)]
  BY <1>2, <1>3, ConcatProperties
<1>6. ASSUME NEW i \in 1 .. Len(s) - 1
      PROVE  (a \o b)[i] = IF i < k THEN s[i] ELSE s[i + 1]
  <2>1. CASE i < k
    BY <1>1, <1>2, <1>3, <1>5, <2>1
  <2>2. CASE ~ (i < k)
    <3>1. (a \o b)[i] = b[i - Len(a)]
      BY <1>1, <1>2, <1>3, <1>5, <2>2
    <3>2. i - (k - 1) \in 1 .. Len(s) - k
      BY <1>1, <2>2
    <3>3. b[i - (k - 1)] = s[k + (i - (k - 1))]
      BY <1>3, <3>2
    <3> QED BY <1>1, <1>2, <2>2, <3>1, <3>3
  <2> QED BY <2>1, <2>2
<1>7. Len(a) + Len(b) = Len(s) - 1
  BY <1>1, <1>2, <1>3
<1>8. Len(a \o b) = Len(s) - 1
  BY <1>5, <1>7
<1> QED BY <1>4, <1>5, <1>6, <1>8

(* A sequence is the function it is, in the terms of the recency lemmas. *)
LEMMA SeqFacts ==
  ASSUME NEW S, NEW s \in Seq(S)
  PROVE  /\ Len(s) \in Nat /\ DOMAIN s = 1 .. Len(s)
         /\ \A i \in 1 .. Len(s) : s[i] \in S
         /\ Range(s) = {s[i] : i \in 1 .. Len(s)} /\ Range(s) \subseteq S
BY LenProperties, ElementOfSeq, RangeEquality

(* What forgetting one entry of a recency list makes of it. *)
LEMMA WithoutFacts ==
  ASSUME NEW S, NEW s \in Seq(S), IsInjective(s), NEW p \in S
  PROVE  /\ Without(s, p) \in Seq(S) /\ IsInjective(Without(s, p))
         /\ Range(Without(s, p)) = Range(s) \ {p}
         /\ Len(Without(s, p)) = IF p \in Range(s) THEN Len(s) - 1 ELSE Len(s)
         /\ \A q, r \in S \ {p} :
              TouchedAfter(Without(s, p), q, r) <=> TouchedAfter(s, q, r)
<1> DEFINE w == Without(s, p)
           k == PlaceOf(s, p)
<1>1. CASE p \notin Range(s)
  BY <1>1 DEF Without
<1>2. CASE p \in Range(s)
  <2>1. k \in 1 .. Len(s) /\ s[k] = p
    <3>1. \E i \in DOMAIN s : s[i] = p
      BY <1>2, SeqFacts
    <3>2. k \in DOMAIN s /\ s[k] = p
      BY <3>1 DEF PlaceOf
    <3> QED BY <3>2, SeqFacts
  <2>2. w = RemoveAt(s, k)
    BY <1>2 DEF Without
  <2> HIDE DEF k, w
  <2>3. /\ w \in Seq(S) /\ Len(w) = Len(s) - 1
        /\ \A i \in 1 .. Len(s) - 1 : w[i] = IF i < k THEN s[i] ELSE s[i + 1]
    BY <2>1, <2>2, RemoveAtFacts
  <2>4. /\ Len(s) \in Nat /\ DOMAIN s = 1 .. Len(s) /\ DOMAIN w = 1 .. Len(s) - 1
        /\ Range(w) = {w[i] : i \in 1 .. Len(s) - 1}
        /\ Range(s) = {s[i] : i \in 1 .. Len(s)}
    BY <2>3, SeqFacts
  <2>5. \A i, j \in 1 .. Len(s) : s[i] = s[j] => i = j
    BY <2>4 DEF IsInjective
  <2> DEFINE old(i) == IF i < k THEN i ELSE i + 1
             new(i) == IF i < k THEN i ELSE i - 1
  <2>6. \A i \in 1 .. Len(s) - 1 :
          /\ old(i) \in 1 .. Len(s) /\ old(i) # k /\ w[i] = s[old(i)]
          /\ \A j \in 1 .. Len(s) - 1 : /\ i < j <=> old(i) < old(j)
                                        /\ old(i) = old(j) => i = j
    BY <2>1, <2>3, <2>4
  <2>7. \A i \in 1 .. Len(s) : i # k =>
          /\ new(i) \in 1 .. Len(s) - 1 /\ w[new(i)] = s[i]
          /\ \A j \in 1 .. Len(s) : j # k => (i < j <=> new(i) < new(j))
    BY <2>1, <2>3, <2>4
  <2>8. IsInjective(w)
    <3> SUFFICES ASSUME NEW i \in 1 .. Len(s) - 1, NEW j \in 1 .. Len(s) - 1,
                        w[i] = w[j]
                 PROVE  i = j
      BY <2>4 DEF IsInjective
    <3> HIDE DEF old
    <3> QED BY <2>5, <2>6
  <2>9. Range(w) = Range(s) \ {p}
    <3> HIDE DEF old, new
    <3>1. ASSUME NEW i \in 1 .. Len(s) - 1 PROVE w[i] \in Range(s) \ {p}
      BY <2>1, <2>4, <2>5, <2>6
    <3>2. ASSUME NEW i \in 1 .. Len(s), s[i] # p PROVE s[i] \in Range(w)
      BY <2>1, <2>4, <2>7, <3>2
    <3> QED BY <2>4, <3>1, <3>2
  <2>10. ASSUME NEW q \in S \ {p}, NEW r \in S \ {p}
         PROVE  TouchedAfter(w, q, r) <=> TouchedAfter(s, q, r)
    <3> HIDE DEF old, new
    <3>1. ASSUME NEW i \in 1 .. Len(s) - 1, NEW j \in 1 .. Len(s) - 1,
                 i < j, w[i] = q, w[j] = r
          PROVE  TouchedAfter(s, q, r)
      BY <2>4, <2>6, <3>1 DEF TouchedAfter
    <3>2. ASSUME NEW i \in 1 .. Len(s), NEW j \in 1 .. Len(s),
                 i < j, s[i] = q, s[j] = r
          PROVE  TouchedAfter(w, q, r)
      <4>1. i # k /\ j # k
        BY <2>1, <3>2
      <4>2. /\ new(i) \in DOMAIN w /\ new(j) \in DOMAIN w
            /\ new(i) < new(j) /\ w[new(i)] = q /\ w[new(j)] = r
        BY <2>4, <2>7, <3>2, <4>1
      <4> QED BY <4>2 DEF TouchedAfter
    <3> QED BY <2>4, <3>1, <3>2 DEF TouchedAfter
  <2> QED BY <1>2, <2>3, <2>8, <2>9, <2>10 DEF w
<1> QED BY <1>1, <1>2

(* What a new entry at the end makes of a recency list. *)
LEMMA AppendFacts ==
  ASSUME NEW S, NEW s \in Seq(S), IsInjective(s), NEW p \in S,
         p \notin Range(s)
  PROVE  /\ Append(s, p) \in Seq(S) /\ IsInjective(Append(s, p))
         /\ Range(Append(s, p)) = Range(s) \cup {p}
         /\ Len(Append(s, p)) = Len(s) + 1
         /\ \A q \in S : ~ TouchedAfter(Append(s, p), p, q)
         /\ \A q \in Range(s) : TouchedAfter(Append(s, p), q, p)
         /\ \A q, r \in S : TouchedAfter(s, q, r)
              => TouchedAfter(Append(s, p), q, r)
         /\ \A q, r \in S : r # p /\ TouchedAfter(Append(s, p), q, r)
              => TouchedAfter(s, q, r)
<1> DEFINE w == Append(s, p)
<1>1. /\ w \in Seq(S) /\ Len(w) = Len(s) + 1
      /\ \A i \in 1 .. Len(s) : w[i] = s[i]
      /\ w[Len(s) + 1] = p
  BY AppendProperties
<1> HIDE DEF w
<1>2. /\ Len(s) \in Nat /\ DOMAIN s = 1 .. Len(s) /\ DOMAIN w = 1 .. Len(s) + 1
      /\ Range(w) = {w[i] : i \in 1 .. Len(s) + 1}
      /\ Range(s) = {s[i] : i \in 1 .. Len(s)}
  BY <1>1, SeqFacts
<1>3. \A i \in 1 .. Len(s) : s[i] # p
  BY <1>2
<1>4. Range(w) = Range(s) \cup {p}
  <2>1. \A i \in 1 .. Len(s) + 1 : w[i] \in Range(s) \cup {p}
    BY <1>1, <1>2
  <2>2. p \in Range(w) /\ \A i \in 1 .. Len(s) : s[i] \in Range(w)
    BY <1>1, <1>2
  <2> QED BY <1>2, <2>1, <2>2
<1>5. IsInjective(w)
  BY <1>1, <1>2, <1>3 DEF IsInjective
<1>6. \A q \in S : ~ TouchedAfter(w, p, q)
  BY <1>1, <1>2, <1>3 DEF TouchedAfter
<1>7. ASSUME NEW q \in Range(s) PROVE TouchedAfter(w, q, p)
  <2>1. PICK i \in 1 .. Len(s) : s[i] = q
    BY <1>2
  <2>2. /\ i \in DOMAIN w /\ Len(s) + 1 \in DOMAIN w /\ i < Len(s) + 1
        /\ w[i] = q /\ w[Len(s) + 1] = p
    BY <1>1, <1>2, <2>1
  <2> QED BY <2>2 DEF TouchedAfter
<1>8. ASSUME NEW q \in S, NEW r \in S, TouchedAfter(s, q, r)
      PROVE  TouchedAfter(w, q, r)
  BY <1>1, <1>2, <1>8 DEF TouchedAfter
<1>9. ASSUME NEW q \in S, NEW r \in S, r # p, TouchedAfter(w, q, r)
      PROVE  TouchedAfter(s, q, r)
  BY <1>1, <1>2, <1>9 DEF TouchedAfter
<1> QED BY <1>1, <1>4, <1>5, <1>6, <1>7, <1>8, <1>9 DEF w

(* What touching an entry, new or not, makes of a recency list. *)
LEMMA TouchedFacts ==
  ASSUME NEW S, NEW s \in Seq(S), IsInjective(s), NEW p \in S
  PROVE  /\ Touched(s, p) \in Seq(S) /\ IsInjective(Touched(s, p))
         /\ Range(Touched(s, p)) = Range(s) \cup {p}
         /\ Len(Touched(s, p)) = IF p \in Range(s) THEN Len(s) ELSE Len(s) + 1
         /\ \A q \in S : ~ TouchedAfter(Touched(s, p), p, q)
         /\ \A q \in Range(s) \ {p} : TouchedAfter(Touched(s, p), q, p)
         /\ \A q, r \in S \ {p} :
              TouchedAfter(Touched(s, p), q, r) <=> TouchedAfter(s, q, r)
<1> DEFINE w == Without(s, p)
<1>1. /\ w \in Seq(S) /\ IsInjective(w) /\ Range(w) = Range(s) \ {p}
      /\ Len(w) = IF p \in Range(s) THEN Len(s) - 1 ELSE Len(s)
      /\ \A q, r \in S \ {p} : TouchedAfter(w, q, r) <=> TouchedAfter(s, q, r)
  BY WithoutFacts
<1>2. Len(s) \in Nat
  BY SeqFacts
<1>3. Touched(s, p) = Append(w, p)
  BY DEF Touched
<1> HIDE DEF w
<1>4. p \notin Range(w)
  BY <1>1
<1>5. /\ Append(w, p) \in Seq(S) /\ IsInjective(Append(w, p))
      /\ Range(Append(w, p)) = Range(w) \cup {p}
      /\ Len(Append(w, p)) = Len(w) + 1
      /\ \A q \in S : ~ TouchedAfter(Append(w, p), p, q)
      /\ \A q \in Range(w) : TouchedAfter(Append(w, p), q, p)
      /\ \A q, r \in S : TouchedAfter(w, q, r) => TouchedAfter(Append(w, p), q, r)
      /\ \A q, r \in S : r # p /\ TouchedAfter(Append(w, p), q, r)
              => TouchedAfter(w, q, r)
  BY <1>1, <1>4, AppendFacts
<1> QED BY <1>1, <1>2, <1>3, <1>5

(* What forgetting the k least recent entries makes of a recency list. *)
LEMMA DropFacts ==
  ASSUME NEW S, NEW s \in Seq(S), IsInjective(s), NEW k \in 0 .. Len(s)
  PROVE  LET w == SubSeq(s, k + 1, Len(s)) IN
         /\ w \in Seq(S) /\ IsInjective(w) /\ Len(w) = Len(s) - k
         /\ \A p : p \in Range(w) <=> p \in Range(s) /\ ~ \E i \in 1 .. k : s[i] = p
         /\ \A q, r \in S :
              TouchedAfter(w, q, r) <=> TouchedAfter(s, q, r) /\ q \in Range(w)
<1> DEFINE w == SubSeq(s, k + 1, Len(s))
<1>1. /\ Len(s) \in Nat /\ DOMAIN s = 1 .. Len(s)
      /\ \A i \in 1 .. Len(s) : s[i] \in S
      /\ Range(s) = {s[i] : i \in 1 .. Len(s)}
  BY SeqFacts
<1>2. /\ w \in Seq(S) /\ Len(w) = Len(s) - k
      /\ \A i \in 1 .. Len(s) - k : w[i] = s[k + i]
  <2>1. \A i \in k + 1 .. Len(s) : s[i] \in S
    BY <1>1
  <2>2. k + 1 \in Int /\ Len(s) \in Int
    BY <1>1
  <2>3. /\ w \in Seq(S)
        /\ Len(w) = IF k + 1 <= Len(s) THEN Len(s) - (k + 1) + 1 ELSE 0
        /\ \A i \in 1 .. Len(s) - (k + 1) + 1 : w[i] = s[(k + 1) + i - 1]
    BY <2>1, <2>2, SubSeqProperties
  <2> HIDE DEF w
  <2>4. ASSUME NEW i \in 1 .. Len(s) - k PROVE w[i] = s[k + i]
    <3>1. i \in 1 .. Len(s) - (k + 1) + 1 /\ (k + 1) + i - 1 = k + i
      BY <1>1
    <3>2. w[i] = s[(k + 1) + i - 1]
      BY <2>3, <3>1, Zenon
    <3> QED BY <3>1, <3>2
  <2>5. Len(w) = Len(s) - k
    <3>1. Len(w) = IF k + 1 <= Len(s) THEN Len(s) - (k + 1) + 1 ELSE 0
      BY <2>3, Zenon
    <3>2. Len(s) \in Nat
      BY <1>1, Zenon
    <3> QED BY <3>1, <3>2
  <2> QED BY <2>3, <2>4, <2>5
<1> HIDE DEF w
<1>3. /\ DOMAIN w = 1 .. Len(s) - k
      /\ Range(w) = {w[i] : i \in 1 .. Len(s) - k}
  BY <1>2, SeqFacts
<1>4. \A i, j \in 1 .. Len(s) : s[i] = s[j] => i = j
  BY <1>1 DEF IsInjective
<1>5. IsInjective(w)
  BY <1>1, <1>2, <1>3, <1>4 DEF IsInjective
<1>6. \A i \in k + 1 .. Len(s) : i - k \in 1 .. Len(s) - k /\ w[i - k] = s[i]
  <2> SUFFICES ASSUME NEW i \in k + 1 .. Len(s)
               PROVE  i - k \in 1 .. Len(s) - k /\ w[i - k] = s[i]
    OBVIOUS
  <2>1. i - k \in 1 .. Len(s) - k /\ k + (i - k) = i
    BY <1>1
  <2>2. w[i - k] = s[k + (i - k)]
    BY <1>2, <2>1
  <2> QED BY <2>1, <2>2
<1>7. ASSUME NEW p
      PROVE  p \in Range(w) <=> p \in Range(s) /\ ~ \E i \in 1 .. k : s[i] = p
  <2>1. ASSUME NEW i \in 1 .. Len(s) - k, w[i] = p
        PROVE  p \in Range(s) /\ ~ \E j \in 1 .. k : s[j] = p
    <3>1. k + i \in 1 .. Len(s) /\ s[k + i] = p
      BY <1>1, <1>2, <2>1
    <3>2. \A j \in 1 .. k : j \in 1 .. Len(s) /\ j # k + i
      BY <1>1
    <3> QED BY <1>1, <1>4, <3>1, <3>2
  <2>2. ASSUME NEW i \in 1 .. Len(s), s[i] = p, ~ \E j \in 1 .. k : s[j] = p
        PROVE  p \in Range(w)
    <3>1. i \in k + 1 .. Len(s)
      BY <1>1, <2>2
    <3> QED BY <1>3, <1>6, <2>2, <3>1
  <2> QED BY <1>1, <1>3, <2>1, <2>2
<1>8. ASSUME NEW q \in S, NEW r \in S
      PROVE  TouchedAfter(w, q, r) <=> TouchedAfter(s, q, r) /\ q \in Range(w)
  <2>1. ASSUME NEW i \in 1 .. Len(s) - k, NEW j \in 1 .. Len(s) - k,
               i < j, w[i] = q, w[j] = r
        PROVE  TouchedAfter(s, q, r) /\ q \in Range(w)
    <3>1. /\ k + i \in DOMAIN s /\ k + j \in DOMAIN s /\ k + i < k + j
          /\ s[k + i] = q /\ s[k + j] = r
      BY <1>1, <1>2, <2>1
    <3> QED BY <1>3, <2>1, <3>1 DEF TouchedAfter
  <2>2. ASSUME NEW i \in 1 .. Len(s), NEW j \in 1 .. Len(s),
               i < j, s[i] = q, s[j] = r, q \in Range(w)
        PROVE  TouchedAfter(w, q, r)
    <3>1. i \in k + 1 .. Len(s) /\ j \in k + 1 .. Len(s)
      BY <1>1, <1>7, <2>2
    <3>2. /\ i - k \in DOMAIN w /\ j - k \in DOMAIN w /\ i - k < j - k
          /\ w[i - k] = q /\ w[j - k] = r
      BY <1>1, <1>3, <1>6, <2>2, <3>1
    <3> QED BY <3>2 DEF TouchedAfter
  <2> QED BY <1>1, <1>3, <2>1, <2>2 DEF TouchedAfter
<1>9. \A p : p \in Range(w) <=> p \in Range(s) /\ ~ \E i \in 1 .. k : s[i] = p
  BY <1>7, Zenon
<1>10. \A q, r \in S :
         TouchedAfter(w, q, r) <=> TouchedAfter(s, q, r) /\ q \in Range(w)
  BY <1>8, Zenon
<1> QED BY <1>2, <1>5, <1>9, <1>10, Zenon DEF w

(* A recency list has as many entries as it has places. *)
LEMMA RangeCardinality ==
  ASSUME NEW S, NEW s \in Seq(S), IsInjective(s)
  PROVE  IsFiniteSet(Range(s)) /\ Cardinality(Range(s)) = Len(s)
<1>1. Len(s) \in Nat /\ s \in [1 .. Len(s) -> Range(s)]
  <2>1. /\ Len(s) \in Nat /\ s \in [1 .. Len(s) -> S]
        /\ DOMAIN s = 1 .. Len(s)
    BY LenProperties
  <2>2. \A i \in DOMAIN s : s[i] \in Range(s)
    BY DEF Range
  <2> QED BY <2>1, <2>2
<1>2. s \in Bijection(1 .. Len(s), Range(s))
  <2>1. DOMAIN s = 1 .. Len(s)
    BY LenProperties
  <2>2. \A p \in Range(s) : \E i \in 1 .. Len(s) : s[i] = p
    BY <2>1 DEF Range
  <2> QED
    BY <1>1, <2>1, <2>2 DEF Bijection, Injection, Surjection, IsInjective
<1>3. ExistsBijection(1 .. Len(s), Range(s))
  BY <1>2 DEF ExistsBijection
<1> QED BY <1>1, <1>3, FS_NatBijection, FS_CountingElements

-----------------------------------------------------------------------------
(* The tables as one record, as far as their types matter here: the        *)
(* tracker and the loss window of a session may be anything.               *)
SessionShape(s) ==
  s = [tracker |-> s.tracker, heard |-> s.heard, base |-> s.base,
       highest |-> s.highest, count |-> s.count]

Addresses == {AddressOf[p] : p \in Peers}

Typed(t) ==
  /\ t = [sessions |-> t.sessions, sessionLru |-> t.sessionLru,
          guards |-> t.guards, guardLru |-> t.guardLru,
          addresses |-> t.addresses, handed |-> t.handed]
  /\ t.sessions = [p \in Peers |-> t.sessions[p]]
  /\ \A p \in Peers : SessionShape(t.sessions[p])
  /\ t.sessionLru \in Seq(Peers) /\ t.guardLru \in Seq(Peers)
  /\ t.guards \in [Peers -> Guard]
  /\ t.addresses \in Seq(Addresses)
  /\ t.handed = [p \in Peers |-> t.handed[p]]
  /\ \A p \in Peers : t.handed[p] \in [Payloads(p) -> 0 .. 2]

(* TablesInv of the record; for the peers of P, whose guards are about to  *)
(* be touched, the lists may disagree.                                     *)
Agree(t, P) ==
  /\ Len(t.sessionLru) <= MaxSessions /\ Len(t.guardLru) <= MaxGuards
  /\ Len(t.addresses) <= MaxGuards
  /\ \A p \in Peers : Cardinality(SessionsAt(t, AddressOf[p])) <= MaxPerAddress
  /\ IsInjective(t.sessionLru) /\ IsInjective(t.guardLru)
  /\ \A p \in Peers : ~ HasSession(t, p) => t.sessions[p] = NewSession
  /\ \A p \in Peers : p \notin Range(t.guardLru) => t.guards[p] = NewGuard
  /\ \A p \in Peers : t.sessions[p].heard => p \in Range(t.guardLru)
  /\ \A p \in Peers \ P : \A q \in Peers :
       t.sessions[p].heard /\ TouchedAfter(t.guardLru, p, q)
         => TouchedAfter(t.sessionLru, p, q)

(* p was touched last. *)
IsLast(lru, p) ==
  /\ p \in Range(lru)
  /\ \A q \in Range(lru) \ {p} : TouchedAfter(lru, q, p)

(* The limits are numbers. *)
LEMMA Limits ==
  /\ MaxSessions \in Nat \ {0} /\ MaxPerAddress \in Nat \ {0}
  /\ MaxGuards \in Nat \ {0} /\ MaxParked \in Nat \ {0}
  /\ MaxSessions <= MaxGuards
BY ServerAssumption

(* A new session has heard nothing. *)
LEMMA NewSessionFacts == SessionShape(NewSession) /\ NewSession.heard = FALSE
BY DEF SessionShape, NewSession

(* The sessions of an address are finitely many. *)
LEMMA SessionsAtFinite ==
  ASSUME NEW t, Typed(t), IsInjective(t.sessionLru), NEW a
  PROVE  /\ IsFiniteSet(SessionsAt(t, a))
         /\ Cardinality(SessionsAt(t, a)) \in Nat
<1>1. IsFiniteSet(Range(t.sessionLru))
  BY RangeCardinality DEF Typed
<1>2. SessionsAt(t, a) \in SUBSET Range(t.sessionLru)
  BY DEF SessionsAt
<1> QED BY <1>1, <1>2, FS_Subset, FS_CardinalityType

(* Expiry and eviction keep the tables in agreement. *)
LEMMA DropKeeps ==
  ASSUME NEW t, Typed(t), Agree(t, {}), NEW k \in 0 .. Len(t.sessionLru)
  PROVE  LET u == WithoutOldest(t, k) IN
         /\ Typed(u) /\ Agree(u, {})
         /\ u.guards = t.guards /\ u.guardLru = t.guardLru
         /\ u.handed = t.handed /\ u.addresses = t.addresses
         /\ Len(u.sessionLru) = Len(t.sessionLru) - k
         /\ Range(u.sessionLru) \subseteq Range(t.sessionLru)
<1> DEFINE u == WithoutOldest(t, k)
           lru == SubSeq(t.sessionLru, k + 1, Len(t.sessionLru))
           Gone(p) == \E i \in 1 .. k : t.sessionLru[i] = p
<1>1. /\ u = [t EXCEPT !.sessions = [p \in Peers |-> IF Gone(p) THEN NewSession
                                                   ELSE t.sessions[p]],
                       !.sessionLru = lru]
  BY DEF WithoutOldest, Typed
<1>2. /\ u.guards = t.guards /\ u.guardLru = t.guardLru
      /\ u.handed = t.handed /\ u.addresses = t.addresses
      /\ u.sessionLru = lru
      /\ u.sessions = [p \in Peers |-> IF Gone(p) THEN NewSession
                                       ELSE t.sessions[p]]
      /\ u = [sessions |-> u.sessions, sessionLru |-> u.sessionLru,
              guards |-> u.guards, guardLru |-> u.guardLru,
              addresses |-> u.addresses, handed |-> u.handed]
  BY <1>1 DEF Typed
<1>3. /\ lru \in Seq(Peers) /\ IsInjective(lru)
      /\ Len(lru) = Len(t.sessionLru) - k
      /\ \A p : p \in Range(lru) <=> p \in Range(t.sessionLru) /\ ~ Gone(p)
      /\ \A q, r \in Peers : TouchedAfter(lru, q, r)
           <=> TouchedAfter(t.sessionLru, q, r) /\ q \in Range(lru)
  BY DropFacts DEF Typed, Agree
<1>4. Len(t.sessionLru) \in Nat
  BY SeqFacts DEF Typed
<1> HIDE DEF u, lru, Gone
<1>5. Typed(u)
  BY <1>2, <1>3, NewSessionFacts DEF Typed
<1>6. \A p \in Peers : Cardinality(SessionsAt(u, AddressOf[p])) <= MaxPerAddress
  <2> TAKE p \in Peers
  <2>1. SessionsAt(u, AddressOf[p]) \in SUBSET SessionsAt(t, AddressOf[p])
    BY <1>2, <1>3 DEF SessionsAt
  <2>2. /\ IsFiniteSet(SessionsAt(t, AddressOf[p]))
        /\ Cardinality(SessionsAt(t, AddressOf[p])) \in Nat
    BY SessionsAtFinite DEF Agree
  <2>3. /\ Cardinality(SessionsAt(u, AddressOf[p]))
             <= Cardinality(SessionsAt(t, AddressOf[p]))
        /\ IsFiniteSet(SessionsAt(u, AddressOf[p]))
    BY <2>1, <2>2, FS_Subset
  <2>4. Cardinality(SessionsAt(u, AddressOf[p])) \in Nat
    BY <2>3, FS_CardinalityType
  <2>5. Cardinality(SessionsAt(t, AddressOf[p])) <= MaxPerAddress
    BY DEF Agree
  <2> QED BY <2>2, <2>3, <2>4, <2>5, Limits
<1>7. \A p \in Peers : ~ HasSession(u, p) => u.sessions[p] = NewSession
  BY <1>2, <1>3 DEF HasSession, Agree
<1>8. \A p \in Peers : u.sessions[p].heard =>
        t.sessions[p].heard /\ p \in Range(lru)
  BY <1>2, <1>3, NewSessionFacts DEF Agree, HasSession
<1>9. \A p, q \in Peers :
        u.sessions[p].heard /\ TouchedAfter(u.guardLru, p, q)
          => TouchedAfter(u.sessionLru, p, q)
  BY <1>2, <1>3, <1>8 DEF Agree
<1>10. Len(lru) <= MaxSessions
  BY <1>3, <1>4, Limits DEF Agree
<1>11. Agree(u, {})
  BY <1>2, <1>3, <1>6, <1>7, <1>8, <1>9, <1>10 DEF Agree
<1>12. Range(lru) \subseteq Range(t.sessionLru)
  BY <1>3
<1> QED BY <1>2, <1>3, <1>5, <1>11, <1>12 DEF u

(* getOrCreateSession keeps the limits, and a session it returns is the    *)
(* most recent one.                                                        *)
LEMMA SessionKeeps ==
  ASSUME NEW t, Typed(t), Agree(t, {}), NEW p \in Peers
  PROVE  LET u == GetOrCreateSession(t, p) IN
         /\ Typed(u) /\ Agree(u, {p})
         /\ ~ HasSession(t, p) => Agree(u, {})
         /\ u.guards = t.guards /\ u.guardLru = t.guardLru
         /\ u.handed = t.handed /\ u.addresses = t.addresses
         /\ HasSession(u, p) => IsLast(u.sessionLru, p)
         /\ HasSession(t, p) => HasSession(u, p)
<1> DEFINE u == GetOrCreateSession(t, p)
<1>1. CASE HasSession(t, p)
  <2> DEFINE lru == Touched(t.sessionLru, p)
  <2>1. u = [t EXCEPT !.sessionLru = lru]
    BY <1>1 DEF GetOrCreateSession, Typed
  <2>2. /\ u.guards = t.guards /\ u.guardLru = t.guardLru
        /\ u.handed = t.handed /\ u.addresses = t.addresses
        /\ u.sessions = t.sessions /\ u.sessionLru = lru
        /\ u = [sessions |-> u.sessions, sessionLru |-> u.sessionLru,
                guards |-> u.guards, guardLru |-> u.guardLru,
                addresses |-> u.addresses, handed |-> u.handed]
    BY <2>1 DEF Typed
  <2>3. /\ lru \in Seq(Peers) /\ IsInjective(lru)
        /\ Range(lru) = Range(t.sessionLru)
        /\ Len(lru) = Len(t.sessionLru)
        /\ \A q \in Range(t.sessionLru) \ {p} : TouchedAfter(lru, q, p)
        /\ \A q, r \in Peers \ {p} :
             TouchedAfter(lru, q, r) <=> TouchedAfter(t.sessionLru, q, r)
    <3>1. /\ t.sessionLru \in Seq(Peers) /\ IsInjective(t.sessionLru)
          /\ p \in Range(t.sessionLru)
      BY <1>1 DEF Typed, Agree, HasSession
    <3>2. /\ lru \in Seq(Peers) /\ IsInjective(lru)
          /\ Range(lru) = Range(t.sessionLru) \cup {p}
          /\ Len(lru) = Len(t.sessionLru)
          /\ \A q \in Range(t.sessionLru) \ {p} : TouchedAfter(lru, q, p)
          /\ \A q, r \in Peers \ {p} :
               TouchedAfter(lru, q, r) <=> TouchedAfter(t.sessionLru, q, r)
      BY <3>1, TouchedFacts
    <3> HIDE DEF lru
    <3> QED BY <3>1, <3>2
  <2> HIDE DEF u, lru
  <2>4. Typed(u)
    BY <2>2, <2>3 DEF Typed
  <2>5. IsLast(u.sessionLru, p)
    BY <1>1, <2>2, <2>3 DEF IsLast, HasSession
  <2>6. \A q \in Peers \ {p} : \A r \in Peers :
          u.sessions[q].heard /\ TouchedAfter(u.guardLru, q, r)
            => TouchedAfter(u.sessionLru, q, r)
    <3> SUFFICES ASSUME NEW q \in Peers \ {p}, NEW r \in Peers,
                        t.sessions[q].heard, TouchedAfter(t.guardLru, q, r)
                 PROVE  TouchedAfter(lru, q, r)
      BY <2>2
    <3>1. TouchedAfter(t.sessionLru, q, r)
      BY DEF Agree
    <3>2. q \in Range(t.sessionLru)
      BY NewSessionFacts DEF Agree, HasSession
    <3> QED BY <2>3, <3>1, <3>2
  <2>7. \A a : SessionsAt(u, a) = SessionsAt(t, a)
    BY <2>2, <2>3 DEF SessionsAt
  <2>8. Agree(u, {p})
    BY <2>2, <2>3, <2>6, <2>7 DEF Agree, HasSession
  <2>9. HasSession(u, p)
    BY <2>5 DEF IsLast, HasSession
  <2> QED BY <1>1, <2>2, <2>4, <2>5, <2>8, <2>9 DEF u
<1>2. CASE ~ HasSession(t, p)
  <2> DEFINE room == EvictOldestSessionIfFull(t)
  <2>1. /\ Typed(room) /\ Agree(room, {})
        /\ room.guards = t.guards /\ room.guardLru = t.guardLru
        /\ room.handed = t.handed /\ room.addresses = t.addresses
        /\ Len(room.sessionLru) < MaxSessions
        /\ p \notin Range(room.sessionLru)
    <3>1. Len(t.sessionLru) \in Nat
      BY SeqFacts DEF Typed
    <3>2. CASE Len(t.sessionLru) < MaxSessions
      BY <1>2, <3>2 DEF EvictOldestSessionIfFull, HasSession
    <3>3. CASE ~ (Len(t.sessionLru) < MaxSessions)
      <4>1. 1 \in 0 .. Len(t.sessionLru) /\ Len(t.sessionLru) - 1 < MaxSessions
        BY <3>1, <3>3, Limits DEF Agree
      <4>2. room = WithoutOldest(t, 1)
        BY <3>3 DEF EvictOldestSessionIfFull
      <4> HIDE DEF room
      <4> QED BY <1>2, <4>1, <4>2, DropKeeps DEF HasSession
    <3> QED BY <3>2, <3>3
  <2>2. u = IF AddressIsFull(room, AddressOf[p]) THEN room
            ELSE [room EXCEPT !.sessionLru = Append(@, p)]
    BY <1>2 DEF GetOrCreateSession
  <2> HIDE DEF room
  <2>3. CASE AddressIsFull(room, AddressOf[p])
    <3>1. u = room
      BY <2>2, <2>3
    <3> HIDE DEF u
    <3>2. Agree(room, {p})
      BY <2>1 DEF Agree
    <3> QED BY <1>2, <2>1, <3>1, <3>2 DEF u, HasSession
  <2>4. CASE ~ AddressIsFull(room, AddressOf[p])
    <3> DEFINE lru == Append(room.sessionLru, p)
    <3>1. u = [room EXCEPT !.sessionLru = lru]
      BY <2>1, <2>2, <2>4 DEF Typed
    <3>2. /\ u.guards = t.guards /\ u.guardLru = t.guardLru
          /\ u.handed = t.handed /\ u.addresses = t.addresses
          /\ u.sessions = room.sessions /\ u.sessionLru = lru
          /\ u = [sessions |-> u.sessions, sessionLru |-> u.sessionLru,
                  guards |-> u.guards, guardLru |-> u.guardLru,
                  addresses |-> u.addresses, handed |-> u.handed]
      BY <2>1, <3>1 DEF Typed
    <3>3. /\ lru \in Seq(Peers) /\ IsInjective(lru)
          /\ Range(lru) = Range(room.sessionLru) \cup {p}
          /\ Len(lru) = Len(room.sessionLru) + 1
          /\ \A q \in Range(room.sessionLru) : TouchedAfter(lru, q, p)
          /\ \A q, r \in Peers :
               TouchedAfter(room.sessionLru, q, r) => TouchedAfter(lru, q, r)
      BY <2>1, AppendFacts DEF Typed, Agree
    <3>4. Len(room.sessionLru) \in Nat
      BY <2>1, SeqFacts DEF Typed
    <3> HIDE DEF u, lru
    <3>5. Typed(u)
      BY <2>1, <3>2, <3>3 DEF Typed
    <3>6. IsLast(u.sessionLru, p)
      BY <2>1, <3>2, <3>3 DEF IsLast
    <3>7. \A q \in Peers :
            Cardinality(SessionsAt(u, AddressOf[q])) <= MaxPerAddress
      <4> TAKE q \in Peers
      <4> DEFINE old == SessionsAt(room, AddressOf[q])
      <4>1. /\ IsFiniteSet(old) /\ Cardinality(old) \in Nat
            /\ Cardinality(old) <= MaxPerAddress
        BY <2>1, SessionsAtFinite DEF Agree
      <4>2. CASE AddressOf[q] = AddressOf[p]
        <5>1. SessionsAt(u, AddressOf[q]) = old \cup {p}
          BY <3>2, <3>3, <4>2 DEF SessionsAt
        <5>2. Cardinality(old) < MaxPerAddress
          BY <2>4, <4>1, <4>2, Limits DEF AddressIsFull
        <5>3. Cardinality(old \cup {p}) \in {Cardinality(old), Cardinality(old) + 1}
          BY <4>1, FS_AddElement
        <5> HIDE DEF old
        <5> QED BY <4>1, <5>1, <5>2, <5>3, Limits
      <4>3. CASE AddressOf[q] # AddressOf[p]
        <5>1. SessionsAt(u, AddressOf[q]) = old
          BY <3>2, <3>3, <4>3 DEF SessionsAt
        <5> QED BY <4>1, <5>1
      <4> QED BY <4>2, <4>3
    <3>8. \A q \in Peers : ~ HasSession(u, q) => u.sessions[q] = NewSession
      BY <2>1, <3>2, <3>3 DEF HasSession, Agree
    <3>9. Len(lru) <= MaxSessions
      BY <2>1, <3>3, <3>4, Limits
    <3>10. Agree(u, {})
      BY <2>1, <3>2, <3>3, <3>7, <3>8, <3>9 DEF Agree
    <3>11. Agree(u, {p})
      BY <3>10 DEF Agree
    <3> QED BY <1>2, <3>2, <3>5, <3>6, <3>10, <3>11 DEF u
  <2> QED BY <2>3, <2>4
<1> QED BY <1>1, <1>2

(* The least recently seen guard, when the table is full and another peer  *)
(* with a session needs one, belongs to no session that has heard data.    *)
LEMMA EvictedHeardNothing ==
  ASSUME NEW t, NEW p \in Peers, Typed(t), Agree(t, {p}),
         IsLast(t.sessionLru, p), p \notin Range(t.guardLru),
         Len(t.guardLru) >= MaxGuards
  PROVE  ~ t.sessions[t.guardLru[1]].heard
<1> DEFINE h == t.guardLru[1]
<1>1. /\ Len(t.guardLru) \in Nat /\ DOMAIN t.guardLru = 1 .. Len(t.guardLru)
      /\ Range(t.guardLru) = {t.guardLru[i] : i \in 1 .. Len(t.guardLru)}
      /\ Range(t.guardLru) \subseteq Peers
      /\ \A i \in 1 .. Len(t.guardLru) : t.guardLru[i] \in Peers
  BY SeqFacts DEF Typed
<1>2. 1 \in 1 .. Len(t.guardLru)
  BY <1>1, Limits
<1>3. h \in Peers /\ h # p /\ h \in Range(t.guardLru)
  BY <1>1, <1>2
<1> SUFFICES ASSUME t.sessions[h].heard PROVE FALSE
  OBVIOUS
<1>4. h \in Range(t.sessionLru)
  BY <1>3, NewSessionFacts DEF Agree, HasSession
<1>5. ASSUME NEW i \in 1 .. Len(t.guardLru)
      PROVE  t.guardLru[i] \in Range(t.sessionLru)
  <2>1. CASE i = 1
    BY <1>4, <2>1
  <2>2. CASE i # 1
    <3>1. /\ 1 \in DOMAIN t.guardLru /\ i \in DOMAIN t.guardLru /\ 1 < i
      BY <1>1, <1>2, <2>2
    <3>2. TouchedAfter(t.guardLru, h, t.guardLru[i])
      BY <3>1 DEF TouchedAfter
    <3>3. h \in Peers \ {p} /\ t.guardLru[i] \in Peers
      BY <1>1, <1>3
    <3> HIDE DEF h
    <3>4. TouchedAfter(t.sessionLru, h, t.guardLru[i])
      BY <3>2, <3>3 DEF Agree
    <3>5. t.guardLru[i] \in {t.sessionLru[j] : j \in DOMAIN t.sessionLru}
      BY <3>4 DEF TouchedAfter
    <3> QED BY <3>5 DEF Range
  <2> QED BY <2>1, <2>2
<1>6. Range(t.guardLru) \cup {p} \subseteq Range(t.sessionLru)
  BY <1>1, <1>5 DEF IsLast
<1>7. /\ IsFiniteSet(Range(t.guardLru))
      /\ Cardinality(Range(t.guardLru)) = Len(t.guardLru)
      /\ IsFiniteSet(Range(t.sessionLru))
      /\ Cardinality(Range(t.sessionLru)) = Len(t.sessionLru)
  BY RangeCardinality DEF Typed, Agree
<1>8. Cardinality(Range(t.guardLru) \cup {p}) = Len(t.guardLru) + 1
  BY <1>7, FS_AddElement
<1>9. Cardinality(Range(t.guardLru) \cup {p}) <= Cardinality(Range(t.sessionLru))
  BY <1>6, <1>7, FS_Subset
<1>10. Len(t.sessionLru) \in Nat
  BY SeqFacts DEF Typed
<1>11. Len(t.sessionLru) <= MaxSessions
  BY DEF Agree
<1> QED BY <1>1, <1>7, <1>8, <1>9, <1>10, <1>11, Limits

(* getReplayGuard keeps the limits, makes the guard of p the most recent   *)
(* one, like its session, and leaves the other guards alone or new.        *)
LEMMA GuardKeeps ==
  ASSUME NEW t, NEW p \in Peers, Typed(t), Agree(t, {p}),
         IsLast(t.sessionLru, p)
  PROVE  LET u == GetReplayGuard(t, p) IN
         /\ Typed(u) /\ Agree(u, {})
         /\ u.sessions = t.sessions /\ u.sessionLru = t.sessionLru
         /\ u.addresses = t.addresses
         /\ u.guards[p] = t.guards[p]
         /\ \A q \in Peers : u.guards[q] \in {t.guards[q], NewGuard}
         /\ p \in Range(u.guardLru)
         /\ \A q \in Peers : ~ TouchedAfter(u.guardLru, p, q)
         /\ \A q \in Peers : \A d \in Payloads(q) :
              u.handed[q][d] \in {t.handed[q][d], 0}
<1> DEFINE u == GetReplayGuard(t, p)
<1>1. p \in Range(t.sessionLru)
  BY DEF IsLast
<1>2. \A q \in Peers : t.sessions[q].heard => q \in Range(t.sessionLru)
  BY NewSessionFacts DEF Agree, HasSession
<1>3. t.guardLru \in Seq(Peers) /\ IsInjective(t.guardLru)
  BY DEF Typed, Agree
<1>4. CASE p \in Range(t.guardLru)
  <2> DEFINE lru == Touched(t.guardLru, p)
  <2>1. u = [t EXCEPT !.guardLru = lru]
    BY <1>4 DEF GetReplayGuard, Typed
  <2>2. /\ u.guards = t.guards /\ u.guardLru = lru
        /\ u.handed = t.handed /\ u.addresses = t.addresses
        /\ u.sessions = t.sessions /\ u.sessionLru = t.sessionLru
        /\ u = [sessions |-> u.sessions, sessionLru |-> u.sessionLru,
                guards |-> u.guards, guardLru |-> u.guardLru,
                addresses |-> u.addresses, handed |-> u.handed]
    BY <2>1 DEF Typed
  <2>3. /\ lru \in Seq(Peers) /\ IsInjective(lru)
        /\ Range(lru) = Range(t.guardLru) \cup {p}
        /\ Len(lru) = Len(t.guardLru)
        /\ \A q \in Peers : ~ TouchedAfter(lru, p, q)
        /\ \A q, r \in Peers \ {p} :
             TouchedAfter(lru, q, r) <=> TouchedAfter(t.guardLru, q, r)
    BY <1>3, <1>4, TouchedFacts
  <2> HIDE DEF u, lru
  <2>4. Range(lru) = Range(t.guardLru)
    BY <1>4, <2>3
  <2>5. Typed(u)
    BY <2>2, <2>3 DEF Typed
  <2>6. ASSUME NEW q \in Peers, NEW r \in Peers,
               t.sessions[q].heard, TouchedAfter(lru, q, r)
        PROVE  TouchedAfter(t.sessionLru, q, r)
    <3>1. q # p
      BY <2>3, <2>6
    <3>2. CASE r = p
      BY <1>2, <2>6, <3>1, <3>2 DEF IsLast
    <3>3. CASE r # p
      BY <2>3, <2>6, <3>1, <3>3 DEF Agree
    <3> QED BY <3>2, <3>3
  <2>7. \A a : SessionsAt(u, a) = SessionsAt(t, a)
    BY <2>2 DEF SessionsAt
  <2>8. Agree(u, {})
    BY <2>2, <2>3, <2>4, <2>6, <2>7 DEF Agree, HasSession
  <2> QED BY <1>4, <2>2, <2>3, <2>4, <2>5, <2>8 DEF u
<1>5. CASE p \notin Range(t.guardLru)
  <2> DEFINE full == Len(t.guardLru) >= MaxGuards
             rest == IF full THEN Tail(t.guardLru) ELSE t.guardLru
             lru  == Append(rest, p)
             Out(q) == full /\ q = Head(t.guardLru)
             gs   == [q \in Peers |-> IF q = p \/ Out(q) THEN NewGuard
                                                    ELSE t.guards[q]]
             hd   == [t.handed EXCEPT ![p] = [d \in Payloads(p) |-> 0]]
  <2>1. u = [t EXCEPT !.guardLru = lru, !.guards = gs, !.handed = hd]
    BY <1>5 DEF GetReplayGuard, Typed
  <2>2. /\ u.guards = gs /\ u.guardLru = lru
        /\ u.handed = hd /\ u.addresses = t.addresses
        /\ u.sessions = t.sessions /\ u.sessionLru = t.sessionLru
        /\ u = [sessions |-> u.sessions, sessionLru |-> u.sessionLru,
                guards |-> u.guards, guardLru |-> u.guardLru,
                addresses |-> u.addresses, handed |-> u.handed]
    BY <2>1 DEF Typed
  <2>3. Len(t.guardLru) \in Nat
    BY <1>3, SeqFacts
  <2>4. /\ rest \in Seq(Peers) /\ IsInjective(rest)
        /\ Len(rest) < MaxGuards
        /\ \A q \in Peers : q \in Range(rest)
                              <=> q \in Range(t.guardLru) /\ ~ Out(q)
        /\ \A q, r \in Peers : TouchedAfter(rest, q, r)
                                 => TouchedAfter(t.guardLru, q, r)
        /\ full => Head(t.guardLru) = t.guardLru[1]
    <3>1. CASE ~ full
      BY <1>3, <2>3, <3>1, Limits
    <3>2. CASE full
      <4>1. t.guardLru # << >> /\ 1 \in 0 .. Len(t.guardLru)
        BY <2>3, <3>2, Limits
      <4>2. rest = SubSeq(t.guardLru, 2, Len(t.guardLru))
        BY <1>3, <3>2, <4>1, TailIsSubSeq
      <4>3. LET w == SubSeq(t.guardLru, 1 + 1, Len(t.guardLru)) IN
            /\ w \in Seq(Peers) /\ IsInjective(w) /\ Len(w) = Len(t.guardLru) - 1
            /\ \A q : q \in Range(w) <=> /\ q \in Range(t.guardLru)
                                         /\ ~ \E i \in 1 .. 1 : t.guardLru[i] = q
            /\ \A q, r \in Peers :
                 TouchedAfter(w, q, r)
                   <=> TouchedAfter(t.guardLru, q, r) /\ q \in Range(w)
        BY <1>3, <4>1, DropFacts
      <4>4. rest = SubSeq(t.guardLru, 1 + 1, Len(t.guardLru))
        BY <4>2
      <4>5. Head(t.guardLru) = t.guardLru[1]
        BY <1>3, <4>1
      <4>6. Len(t.guardLru) <= MaxGuards
        BY DEF Agree
      <4> HIDE DEF rest
      <4>7. /\ rest \in Seq(Peers) /\ IsInjective(rest)
            /\ Len(rest) = Len(t.guardLru) - 1
            /\ \A q : q \in Range(rest) <=> /\ q \in Range(t.guardLru)
                                            /\ ~ \E i \in 1 .. 1 : t.guardLru[i] = q
            /\ \A q, r \in Peers :
                 TouchedAfter(rest, q, r)
                   <=> TouchedAfter(t.guardLru, q, r) /\ q \in Range(rest)
        BY <4>3, <4>4
      <4>8. Len(rest) < MaxGuards
        BY <2>3, <4>6, <4>7, Limits
      <4> QED BY <3>2, <4>5, <4>7, <4>8
    <3> QED BY <3>1, <3>2
  <2>5. \A q \in Peers : Out(q) => ~ t.sessions[q].heard
    BY <1>5, <2>4, EvictedHeardNothing
  <2> HIDE DEF u, rest, full, Out
  <2>6. p \notin Range(rest)
    BY <1>5, <2>4
  <2>7. /\ lru \in Seq(Peers) /\ IsInjective(lru)
        /\ Range(lru) = Range(rest) \cup {p}
        /\ Len(lru) = Len(rest) + 1
        /\ \A q \in Peers : ~ TouchedAfter(lru, p, q)
        /\ \A q, r \in Peers : r # p /\ TouchedAfter(lru, q, r)
             => TouchedAfter(rest, q, r)
    BY <2>4, <2>6, AppendFacts
  <2>8. Len(rest) \in Nat
    BY <2>4, SeqFacts
  <2>9. NewGuard \in Guard /\ t.guards[p] = NewGuard
    BY <1>5 DEF NewGuard, Guard, ReplayWindow, NewWindow, Agree
  <2> HIDE DEF lru
  <2>10. /\ gs \in [Peers -> Guard] /\ gs[p] = t.guards[p]
         /\ \A q \in Peers : gs[q] \in {t.guards[q], NewGuard}
    BY <2>9 DEF Typed
  <2>11. /\ hd = [q \in Peers |-> hd[q]]
         /\ \A q \in Peers : hd[q] \in [Payloads(q) -> 0 .. 2]
         /\ \A q \in Peers : \A d \in Payloads(q) :
              hd[q][d] \in {t.handed[q][d], 0}
    <3>1. /\ t.handed = [q \in Peers |-> t.handed[q]]
          /\ \A q \in Peers : t.handed[q] \in [Payloads(q) -> 0 .. 2]
      BY DEF Typed
    <3>2. \A q \in Peers : hd[q] = IF q = p THEN [d \in Payloads(p) |-> 0]
                                            ELSE t.handed[q]
      BY <3>1
    <3>3. hd = [q \in Peers |-> hd[q]]
      BY <3>1
    <3>4. [d \in Payloads(p) |-> 0] \in [Payloads(p) -> 0 .. 2]
      OBVIOUS
    <3> HIDE DEF hd
    <3> QED BY <3>1, <3>2, <3>3, <3>4
  <2>12. \A q \in Peers : q \notin Range(lru) => gs[q] = NewGuard
    BY <2>4, <2>7 DEF Agree
  <2> HIDE DEF gs, hd
  <2>13. Typed(u)
    BY <2>2, <2>7, <2>10, <2>11 DEF Typed
  <2>14. ASSUME NEW q \in Peers, NEW r \in Peers,
                t.sessions[q].heard, TouchedAfter(lru, q, r)
         PROVE  TouchedAfter(t.sessionLru, q, r)
    <3>1. q # p
      BY <2>7, <2>14
    <3>2. CASE r = p
      BY <1>2, <2>14, <3>1, <3>2 DEF IsLast
    <3>3. CASE r # p
      BY <2>4, <2>7, <2>14, <3>1, <3>3 DEF Agree
    <3> QED BY <3>2, <3>3
  <2>15. \A a : SessionsAt(u, a) = SessionsAt(t, a)
    BY <2>2 DEF SessionsAt
  <2>16. \A q \in Peers : t.sessions[q].heard => q \in Range(lru)
    BY <2>4, <2>5, <2>7 DEF Agree
  <2>17. Len(lru) <= MaxGuards
    BY <2>4, <2>7, <2>8, Limits
  <2>18. Agree(u, {})
    BY <2>2, <2>7, <2>12, <2>14, <2>15, <2>16, <2>17 DEF Agree, HasSession
  <2> QED BY <2>2, <2>7, <2>10, <2>11, <2>13, <2>18 DEF u
<1> QED BY <1>4, <1>5

-----------------------------------------------------------------------------
(* A new session, guard and count for p. *)
Updated(t, p, s, g, h) ==
  [t EXCEPT !.sessions = [@ EXCEPT ![p] = s],
            !.guards = [@ EXCEPT ![p] = g],
            !.handed = [@ EXCEPT ![p] = h]]

(* The most recent guard and its session may change in every respect that  *)
(* is not recency.                                                         *)
LEMMA UpdateKeeps ==
  ASSUME NEW t, NEW p \in Peers, Typed(t), Agree(t, {}),
         p \in Range(t.guardLru), HasSession(t, p),
         \A q \in Peers : ~ TouchedAfter(t.guardLru, p, q),
         NEW s, SessionShape(s), NEW g \in Guard,
         NEW h \in [Payloads(p) -> 0 .. 2]
  PROVE  LET u == Updated(t, p, s, g, h) IN
         /\ Typed(u) /\ Agree(u, {})
         /\ u.guards[p] = g
         /\ \A q \in Peers : q # p => u.guards[q] = t.guards[q]
         /\ u.handed[p] = h
         /\ \A q \in Peers : q # p => u.handed[q] = t.handed[q]
         /\ u.addresses = t.addresses
<1> DEFINE ss == [t.sessions EXCEPT ![p] = s]
           gs == [t.guards EXCEPT ![p] = g]
           hd == [t.handed EXCEPT ![p] = h]
           u  == Updated(t, p, s, g, h)
<1>1. t = [sessions |-> t.sessions, sessionLru |-> t.sessionLru,
           guards |-> t.guards, guardLru |-> t.guardLru,
           addresses |-> t.addresses, handed |-> t.handed]
  BY DEF Typed
<1>2. u = [t EXCEPT !.sessions = ss, !.guards = gs, !.handed = hd]
  BY DEF Updated
<1> HIDE DEF ss, gs, hd, u
<1>3. /\ u.guards = gs /\ u.guardLru = t.guardLru
      /\ u.handed = hd /\ u.addresses = t.addresses
      /\ u.sessions = ss /\ u.sessionLru = t.sessionLru
      /\ u = [sessions |-> u.sessions, sessionLru |-> u.sessionLru,
              guards |-> u.guards, guardLru |-> u.guardLru,
              addresses |-> u.addresses, handed |-> u.handed]
  BY <1>1, <1>2
<1> USE DEF ss, gs, hd
<1>4. /\ ss = [q \in Peers |-> ss[q]]
      /\ ss[p] = s /\ \A q \in Peers : q # p => ss[q] = t.sessions[q]
  BY DEF Typed
<1>5. /\ gs \in [Peers -> Guard]
      /\ gs[p] = g /\ \A q \in Peers : q # p => gs[q] = t.guards[q]
  BY DEF Typed
<1>6. /\ hd = [q \in Peers |-> hd[q]]
      /\ hd[p] = h /\ \A q \in Peers : q # p => hd[q] = t.handed[q]
  BY DEF Typed
<1> HIDE DEF ss, gs, hd
<1>7. \A q \in Peers : hd[q] \in [Payloads(q) -> 0 .. 2]
  BY <1>6 DEF Typed
<1>8. \A q \in Peers : SessionShape(ss[q])
  BY <1>4 DEF Typed
<1>9. Typed(u)
  BY <1>3, <1>4, <1>5, <1>6, <1>7, <1>8 DEF Typed
<1>10. \A a : SessionsAt(u, a) = SessionsAt(t, a)
  BY <1>3 DEF SessionsAt
<1>11. \A q, r \in Peers :
        u.sessions[q].heard /\ TouchedAfter(u.guardLru, q, r)
          => TouchedAfter(u.sessionLru, q, r)
  BY <1>3, <1>4 DEF Agree
<1>12. \A q \in Peers : u.sessions[q].heard => q \in Range(u.guardLru)
  BY <1>3, <1>4 DEF Agree
<1>13. \A q \in Peers : ~ HasSession(u, q) => u.sessions[q] = NewSession
  BY <1>3, <1>4 DEF Agree, HasSession
<1>14. \A q \in Peers : q \notin Range(u.guardLru) => u.guards[q] = NewGuard
  BY <1>3, <1>5 DEF Agree
<1>15. Agree(u, {})
  BY <1>3, <1>10, <1>11, <1>12, <1>13, <1>14 DEF Agree
<1> QED BY <1>3, <1>5, <1>6, <1>9, <1>15 DEF u

(* Only their number counts of the addresses. *)
LEMMA AddressesKeep ==
  ASSUME NEW t, Typed(t), Agree(t, {}), NEW as \in Seq(Addresses),
         Len(as) <= MaxGuards
  PROVE  LET u == [t EXCEPT !.addresses = as] IN
         /\ Typed(u) /\ Agree(u, {})
         /\ u.sessions = t.sessions /\ u.sessionLru = t.sessionLru
         /\ u.guards = t.guards /\ u.guardLru = t.guardLru
         /\ u.handed = t.handed
<1> DEFINE u == [t EXCEPT !.addresses = as]
<1>1. t = [sessions |-> t.sessions, sessionLru |-> t.sessionLru,
           guards |-> t.guards, guardLru |-> t.guardLru,
           addresses |-> t.addresses, handed |-> t.handed]
  BY DEF Typed
<1>2. u = [t EXCEPT !.addresses = as]
  OBVIOUS
<1> HIDE DEF u
<1>3. /\ u.guards = t.guards /\ u.guardLru = t.guardLru
      /\ u.handed = t.handed /\ u.addresses = as
      /\ u.sessions = t.sessions /\ u.sessionLru = t.sessionLru
      /\ u = [sessions |-> u.sessions, sessionLru |-> u.sessionLru,
              guards |-> u.guards, guardLru |-> u.guardLru,
              addresses |-> u.addresses, handed |-> u.handed]
  BY <1>1, <1>2
<1> HIDE DEF u
<1>4. Typed(u)
  BY <1>3 DEF Typed
<1>5. \A a : SessionsAt(u, a) = SessionsAt(t, a)
  BY <1>3 DEF SessionsAt
<1>6. Agree(u, {})
  BY <1>3, <1>5 DEF Agree, HasSession
<1> QED BY <1>3, <1>4, <1>6 DEF u

(* Touching an entry lengthens a list only if the entry is new. *)
LEMMA TouchedLength ==
  ASSUME NEW S, NEW s \in Seq(S), NEW p \in S
  PROVE  /\ Touched(s, p) \in Seq(S)
         /\ Len(Touched(s, p)) = IF p \in Range(s) THEN Len(s) ELSE Len(s) + 1
<1> DEFINE w == Without(s, p)
<1>1. /\ w \in Seq(S)
      /\ Len(w) = IF p \in Range(s) THEN Len(s) - 1 ELSE Len(s)
  <2>1. CASE p \in Range(s)
    <3>1. \E i \in DOMAIN s : s[i] = p
      BY <2>1, SeqFacts
    <3>2. PlaceOf(s, p) \in 1 .. Len(s)
      BY <3>1, SeqFacts DEF PlaceOf
    <3> QED BY <2>1, <3>2, RemoveAtFacts DEF Without
  <2>2. CASE p \notin Range(s)
    BY <2>2 DEF Without
  <2> QED BY <2>1, <2>2
<1>2. Touched(s, p) = Append(w, p)
  BY DEF Touched
<1> HIDE DEF w
<1>3. Append(w, p) \in Seq(S) /\ Len(Append(w, p)) = Len(w) + 1
  BY <1>1, AppendProperties
<1>4. Len(s) \in Nat
  BY SeqFacts
<1> QED BY <1>1, <1>2, <1>3, <1>4

(* markHandshakedAddress keeps the limit of the addresses. *)
LEMMA MarkAddressKeeps ==
  ASSUME NEW t, Typed(t), Agree(t, {}), NEW a \in Addresses
  PROVE  LET u == MarkHandshakedAddress(t, a) IN
         /\ Typed(u) /\ Agree(u, {})
         /\ u.sessions = t.sessions /\ u.sessionLru = t.sessionLru
         /\ u.guards = t.guards /\ u.guardLru = t.guardLru
         /\ u.handed = t.handed
<1> DEFINE as == IF a \notin Range(t.addresses) /\ Len(t.addresses) >= MaxGuards
                 THEN Append(Tail(t.addresses), a) ELSE Touched(t.addresses, a)
<1>1. MarkHandshakedAddress(t, a) = [t EXCEPT !.addresses = as]
  BY DEF MarkHandshakedAddress, Typed
<1>2. /\ t.addresses \in Seq(Addresses) /\ Len(t.addresses) \in Nat
      /\ Len(t.addresses) <= MaxGuards
  BY SeqFacts DEF Typed, Agree
<1>3. as \in Seq(Addresses) /\ Len(as) <= MaxGuards
  <2>1. CASE a \notin Range(t.addresses) /\ Len(t.addresses) >= MaxGuards
    <3>1. t.addresses # << >>
      BY <1>2, <2>1, Limits
    <3>2. /\ Tail(t.addresses) \in Seq(Addresses)
          /\ Len(Tail(t.addresses)) = Len(t.addresses) - 1
      BY <1>2, <3>1, HeadTailProperties
    <3>3. /\ Append(Tail(t.addresses), a) \in Seq(Addresses)
          /\ Len(Append(Tail(t.addresses), a)) = Len(t.addresses) - 1 + 1
      BY <3>2, AppendProperties
    <3> QED BY <1>2, <2>1, <3>3
  <2>2. CASE ~ (a \notin Range(t.addresses) /\ Len(t.addresses) >= MaxGuards)
    <3>1. as = Touched(t.addresses, a)
      BY <2>2
    <3>2. /\ as \in Seq(Addresses)
          /\ Len(as) = IF a \in Range(t.addresses) THEN Len(t.addresses)
                       ELSE Len(t.addresses) + 1
      BY <1>2, <3>1, TouchedLength
    <3> QED BY <1>2, <2>2, <3>2, Limits
  <2> QED BY <2>1, <2>2
<1> HIDE DEF as
<1> DEFINE v == [t EXCEPT !.addresses = as]
<1>4. /\ Typed(v) /\ Agree(v, {})
      /\ v.sessions = t.sessions /\ v.sessionLru = t.sessionLru
      /\ v.guards = t.guards /\ v.guardLru = t.guardLru
      /\ v.handed = t.handed
  BY <1>3, AddressesKeep
<1>5. MarkHandshakedAddress(t, a) = v
  BY <1>1
<1> HIDE DEF v
<1> QED BY <1>4, <1>5

(* A restarted session is a session. *)
LEMMA RestartShape ==
  ASSUME NEW s, SessionShape(s)
  PROVE  SessionShape(RestartSession(s))
<1>1. PICK r : r = RestartSession(s)
  OBVIOUS
<1>2. r = [s EXCEPT !.tracker = ResetTracker(@),
                    !.base = NoSeq, !.highest = NoSeq, !.count = 0]
  BY <1>1 DEF RestartSession
<1>3. r = [tracker |-> r.tracker, heard |-> r.heard, base |-> r.base,
           highest |-> r.highest, count |-> r.count]
  BY <1>2 DEF SessionShape
<1> QED BY <1>1, <1>3 DEF SessionShape

(* What a HELLO makes of the tables: only its own guard gets an epoch, and *)
(* only a greater one.                                                     *)
LEMMA HelloKeeps ==
  ASSUME NEW t, NEW p \in Peers, Typed(t), Agree(t, {p}),
         IsLast(t.sessionLru, p), NEW epoch \in Nat
  PROVE  LET u == HandleHello(t, p, epoch) IN
         /\ Typed(u) /\ Agree(u, {})
         /\ \A q \in Peers : q # p =>
              u.guards[q].epoch \in {t.guards[q].epoch, 0}
         /\ u.guards[p].epoch = IF epoch > t.guards[p].epoch THEN epoch
                                ELSE t.guards[p].epoch
         /\ \A q \in Peers : \A d \in Payloads(q) :
              u.handed[q][d] \in {t.handed[q][d], 0}
         /\ \A q \in Peers : q # p => u.guards[q] \in {t.guards[q], NewGuard}
         /\ \/ /\ u.guards[p].window = t.guards[p].window
               /\ u.guards[p].epoch = t.guards[p].epoch
            \/ /\ u.guards[p].window = NewWindow
               /\ \A d \in Payloads(p) : u.handed[p][d] = 0
<1> DEFINE v == GetReplayGuard(t, p)
           g == [v.guards[p] EXCEPT !.handshaked = TRUE]
           w == [v EXCEPT !.guards = [@ EXCEPT ![p] = g]]
           x == MarkHandshakedAddress(w, AddressOf[p])
<1>1. /\ Typed(v) /\ Agree(v, {})
      /\ v.sessions = t.sessions /\ v.sessionLru = t.sessionLru
      /\ v.guards[p] = t.guards[p]
      /\ \A q \in Peers : v.guards[q] \in {t.guards[q], NewGuard}
      /\ p \in Range(v.guardLru)
      /\ \A q \in Peers : ~ TouchedAfter(v.guardLru, p, q)
      /\ \A q \in Peers : \A d \in Payloads(q) :
           v.handed[q][d] \in {t.handed[q][d], 0}
  BY GuardKeeps
<1>2. MarkPeerHandshaked(t, p) = x
  BY DEF MarkPeerHandshaked
<1> HIDE DEF v
<1>3. HasSession(v, p)
  BY <1>1 DEF HasSession, IsLast
<1>4. /\ g \in Guard /\ g.epoch = v.guards[p].epoch
      /\ g.window = v.guards[p].window
      /\ \A q \in Peers : v.guards[q] \in Guard
  <2>1. \A q \in Peers : v.guards[q] \in Guard
    BY <1>1 DEF Typed
  <2>2. PICK k : k = v.guards[p]
    OBVIOUS
  <2>3. k \in Guard /\ g = [k EXCEPT !.handshaked = TRUE]
    BY <2>1, <2>2
  <2> HIDE DEF g
  <2>4. g \in Guard /\ g.epoch = k.epoch /\ g.window = k.window
    BY <2>3 DEF Guard
  <2> QED BY <2>1, <2>2, <2>4
<1> HIDE DEF g
<1>5. /\ Typed(w) /\ Agree(w, {})
      /\ w.guards[p] = g
      /\ \A q \in Peers : q # p => w.guards[q] = v.guards[q]
      /\ w.handed = v.handed
      /\ w.sessionLru = v.sessionLru /\ w.guardLru = v.guardLru
  <2>1. SessionShape(v.sessions[p]) /\ v.handed[p] \in [Payloads(p) -> 0 .. 2]
    BY <1>1 DEF Typed
  <2> DEFINE y == Updated(v, p, v.sessions[p], g, v.handed[p])
  <2>2. /\ Typed(y) /\ Agree(y, {})
        /\ y.guards[p] = g
        /\ \A q \in Peers : q # p => y.guards[q] = v.guards[q]
    BY <1>1, <1>3, <1>4, <2>1, UpdateKeeps
  <2>3. y = w
    <3>1. /\ [v.sessions EXCEPT ![p] = v.sessions[p]] = v.sessions
          /\ [v.handed EXCEPT ![p] = v.handed[p]] = v.handed
      BY <1>1 DEF Typed
    <3>2. y = [v EXCEPT !.sessions = v.sessions,
                        !.guards = [@ EXCEPT ![p] = g],
                        !.handed = v.handed]
      BY <3>1 DEF Updated
    <3>3. v = [sessions |-> v.sessions, sessionLru |-> v.sessionLru,
               guards |-> v.guards, guardLru |-> v.guardLru,
               addresses |-> v.addresses, handed |-> v.handed]
      BY <1>1 DEF Typed
    <3>4. w = [v EXCEPT !.guards = [@ EXCEPT ![p] = g]]
      OBVIOUS
    <3> HIDE DEF y, w
    <3> QED BY <3>2, <3>3, <3>4
  <2>4. v = [sessions |-> v.sessions, sessionLru |-> v.sessionLru,
             guards |-> v.guards, guardLru |-> v.guardLru,
             addresses |-> v.addresses, handed |-> v.handed]
    BY <1>1 DEF Typed
  <2>5. /\ w.handed = v.handed
        /\ w.sessionLru = v.sessionLru /\ w.guardLru = v.guardLru
    BY <2>4
  <2> HIDE DEF y, w
  <2> QED BY <2>2, <2>3, <2>5
<1> HIDE DEF w
<1>6. /\ Typed(x) /\ Agree(x, {})
      /\ x.sessions = w.sessions /\ x.sessionLru = w.sessionLru
      /\ x.guards = w.guards /\ x.guardLru = w.guardLru
      /\ x.handed = w.handed
  BY <1>5, MarkAddressKeeps DEF Addresses
<1> HIDE DEF x
<1>7. /\ \A q \in Peers : q # p => x.guards[q].epoch \in {t.guards[q].epoch, 0}
      /\ \A q \in Peers : q # p => x.guards[q] \in {t.guards[q], NewGuard}
      /\ x.guards[p].epoch = t.guards[p].epoch
      /\ x.guards[p].window = t.guards[p].window
      /\ \A q \in Peers : \A d \in Payloads(q) :
           x.handed[q][d] \in {t.handed[q][d], 0}
  <2>1. \A q \in Peers : q # p => x.guards[q] \in {t.guards[q], NewGuard}
    BY <1>1, <1>5, <1>6
  <2>2. \A q \in Peers : q # p => x.guards[q].epoch \in {t.guards[q].epoch, 0}
    BY <2>1 DEF NewGuard
  <2>3. /\ x.guards[p].epoch = t.guards[p].epoch
        /\ x.guards[p].window = t.guards[p].window
    BY <1>1, <1>4, <1>5, <1>6
  <2>4. \A q \in Peers : \A d \in Payloads(q) :
          x.handed[q][d] \in {t.handed[q][d], 0}
    BY <1>1, <1>5, <1>6
  <2> QED BY <2>1, <2>2, <2>3, <2>4
<1>8. /\ x.guards[p] \in Guard /\ t.guards[p].epoch \in Nat
      /\ HasSession(x, p) /\ p \in Range(x.guardLru)
      /\ \A q \in Peers : ~ TouchedAfter(x.guardLru, p, q)
  BY <1>1, <1>3, <1>5, <1>6 DEF Typed, Guard, HasSession
<1>9. CASE epoch <= t.guards[p].epoch
  <2>1. HandleHello(t, p, epoch) = x
    BY <1>2, <1>7, <1>9 DEF HandleHello
  <2>2. x.guards[p].epoch = IF epoch > t.guards[p].epoch THEN epoch
                            ELSE t.guards[p].epoch
    <3>1. ~ (epoch > t.guards[p].epoch)
      BY <1>8, <1>9
    <3> QED BY <1>7, <3>1
  <2> QED BY <1>6, <1>7, <2>1, <2>2
<1>10. CASE epoch > t.guards[p].epoch
  <2> DEFINE s == RestartSession(x.sessions[p])
             h == [x.guards[p] EXCEPT !.epoch = epoch, !.window = NewWindow]
             zeros == [d \in Payloads(p) |-> 0]
             y == Updated(x, p, s, h, zeros)
  <2>1. ~ (epoch <= x.guards[p].epoch)
    BY <1>7, <1>8, <1>10
  <2>2. HandleHello(t, p, epoch)
          = [RaiseEpoch(x, p, epoch) EXCEPT !.sessions[p] = RestartSession(@)]
    BY <1>2, <2>1 DEF HandleHello
  <2>3. SessionShape(x.sessions[p])
    BY <1>6 DEF Typed
  <2>4. SessionShape(s)
    BY <2>3, RestartShape
  <2>5. h \in Guard /\ h.epoch = epoch /\ h.window = NewWindow
    BY <1>8 DEF Guard, NewWindow, ReplayWindow
  <2>6. zeros \in [Payloads(p) -> 0 .. 2]
    OBVIOUS
  <2>7. HandleHello(t, p, epoch) = y
    <3>1. x = [sessions |-> x.sessions, sessionLru |-> x.sessionLru,
               guards |-> x.guards, guardLru |-> x.guardLru,
               addresses |-> x.addresses, handed |-> x.handed]
      BY <1>6 DEF Typed
    <3>2. PICK z : z = RaiseEpoch(x, p, epoch)
      OBVIOUS
    <3>3. z = [x EXCEPT !.guards = [@ EXCEPT ![p] = h],
                        !.handed = [@ EXCEPT ![p] = zeros]]
      BY <3>2 DEF RaiseEpoch
    <3>4. z.sessions = x.sessions
      BY <3>1, <3>3
    <3>5. HandleHello(t, p, epoch)
            = [z EXCEPT !.sessions = [@ EXCEPT ![p] = s]]
      BY <2>2, <3>2, <3>4
    <3>6. y = [x EXCEPT !.sessions = [@ EXCEPT ![p] = s],
                        !.guards = [@ EXCEPT ![p] = h],
                        !.handed = [@ EXCEPT ![p] = zeros]]
      BY DEF Updated
    <3> HIDE DEF s, h, zeros, y
    <3> QED BY <3>1, <3>3, <3>5, <3>6
  <2> HIDE DEF s, h
  <2>8. /\ Typed(y) /\ Agree(y, {})
        /\ y.guards[p] = h
        /\ \A q \in Peers : q # p => y.guards[q] = x.guards[q]
        /\ y.handed[p] = zeros
        /\ \A q \in Peers : q # p => y.handed[q] = x.handed[q]
    <3> HIDE DEF zeros
    <3> QED BY <1>6, <1>8, <2>4, <2>5, <2>6, UpdateKeeps
  <2> HIDE DEF y
  <2>9. \A q \in Peers : \A d \in Payloads(q) :
          y.handed[q][d] \in {t.handed[q][d], 0}
    BY <1>7, <2>8
  <2>10. /\ y.guards[p].epoch = IF epoch > t.guards[p].epoch THEN epoch
                                ELSE t.guards[p].epoch
         /\ y.guards[p].window = NewWindow
    BY <1>10, <2>5, <2>8
  <2>11. \A q \in Peers : q # p =>
           /\ y.guards[q].epoch \in {t.guards[q].epoch, 0}
           /\ y.guards[q] \in {t.guards[q], NewGuard}
    BY <1>7, <2>8
  <2>12. \A d \in Payloads(p) : y.handed[p][d] = 0
    BY <2>8
  <2> QED BY <2>7, <2>8, <2>9, <2>10, <2>11, <2>12
<1>11. epoch <= t.guards[p].epoch \/ epoch > t.guards[p].epoch
  BY <1>8
<1> QED BY <1>9, <1>10, <1>11, Zenon

(* A window that accepts or refuses a number stays a window. *)
LEMMA AcceptType ==
  ASSUME NEW w \in ReplayWindow, NEW n \in SeqNum
  PROVE  Accept(w, n) \in ReplayWindow
<1>1. \A h \in SeqNum : \A S \in SUBSET SeqNum :
        PruneIfNeeded([highest |-> h, seen |-> S]) \in ReplayWindow
  BY DEF PruneIfNeeded, ReplayWindow
<1>2. /\ [highest |-> n, seen |-> {n}] \in ReplayWindow
      /\ w.seen \cup {n} \in SUBSET SeqNum
      /\ [w EXCEPT !.seen = w.seen \cup {n}] \in ReplayWindow
  BY DEF ReplayWindow
<1> QED BY <1>1, <1>2 DEF Accept

(* Payloads have sequence numbers. *)
LEMMA NumberType ==
  ASSUME NEW p \in Peers, NEW d \in Payloads(p)
  PROVE  NumberOf(p, d) \in SeqNum /\ d[1] \in Nat \ {0}
<1>1. /\ Starts[p] \in Nat /\ Numbers[p] \in SeqNum
      /\ d[1] \in 1 .. Starts[p] /\ d[2] \in 0 .. Numbers[p] - 1
  BY ServerAssumption DEF Payloads
<1>2. FirstSeq[p][d[1]] \in SeqNum
  BY <1>1, ServerAssumption
<1>3. HalfSpace \in Nat
  BY HalfSpaceAssumption
<1> DEFINE f == FirstSeq[p][d[1]]
           k == d[2]
<1> HIDE DEF f, k
<1>4. Plus(f, k) \in SeqNum
  BY <1>1, <1>2, <1>3 DEF Plus, SeqNum, SeqSpace, f, k
<1> QED BY <1>1, <1>4 DEF NumberOf, f, k

(* A session with another tracker, or another loss window, is a session. *)
LEMMA TrackedShape ==
  ASSUME NEW s, SessionShape(s), NEW tracker
  PROVE  /\ SessionShape([s EXCEPT !.tracker = tracker])
         /\ [s EXCEPT !.tracker = tracker].heard = s.heard
<1>1. PICK r : r = [s EXCEPT !.tracker = tracker]
  OBVIOUS
<1>2. /\ r = [tracker |-> r.tracker, heard |-> r.heard, base |-> r.base,
              highest |-> r.highest, count |-> r.count]
      /\ r.heard = s.heard
  BY <1>1 DEF SessionShape
<1> QED BY <1>1, <1>2 DEF SessionShape

LEMMA HeardShape ==
  ASSUME NEW s, SessionShape(s)
  PROVE  SessionShape([s EXCEPT !.heard = TRUE])
<1>1. PICK r : r = [s EXCEPT !.heard = TRUE]
  OBVIOUS
<1>2. r = [tracker |-> r.tracker, heard |-> r.heard, base |-> r.base,
           highest |-> r.highest, count |-> r.count]
  BY <1>1 DEF SessionShape
<1> QED BY <1>1, <1>2 DEF SessionShape

LEMMA LossWindowShape ==
  ASSUME NEW s, SessionShape(s), NEW n, NEW resynced
  PROVE  SessionShape(UpdateLossWindow(s, n, resynced))
<1>1. PICK r : r = UpdateLossWindow(s, n, resynced)
  OBVIOUS
<1>2. \/ r = [s EXCEPT !.base = n, !.highest = n, !.count = 1]
      \/ r = [s EXCEPT !.count = @ + 1, !.highest = Highest(@, n)]
  BY <1>1 DEF UpdateLossWindow
<1>3. r = [tracker |-> r.tracker, heard |-> r.heard, base |-> r.base,
           highest |-> r.highest, count |-> r.count]
  BY <1>2 DEF SessionShape
<1> QED BY <1>1, <1>3 DEF SessionShape

(* Between two tables the guards of the other peers are what they were, or *)
(* gone, and what was dispatched for them is, or forgotten.                *)
OthersUntouched(t, u, p) ==
  \A q \in Peers \ {p} :
    /\ u.guards[q] \in {t.guards[q], NewGuard}
    /\ \A e \in Payloads(q) : u.handed[q][e] \in {t.handed[q][e], 0}

(* Payload d was shown to the window of p, or to none, and dispatched      *)
(* under an epoch only if the window took it.                              *)
OwnWindowAsked(t, u, p, d) ==
  LET w == t.guards[p].window IN
  /\ u.guards[p].epoch = t.guards[p].epoch
  /\ u.guards[p].window \in {w, Accept(w, NumberOf(p, d))}
  /\ \A e \in Payloads(p) :
       \/ u.handed[p][e] \in {t.handed[p][e], 0}
       \/ /\ e = d /\ Accepts(w, NumberOf(p, d))
          /\ u.guards[p].window = Accept(w, NumberOf(p, d))
          /\ u.handed[p][e] \in {1, t.handed[p][e] + 1}

(* What a decompressed DATA packet makes of the tables: no epoch is        *)
(* raised, and nothing but its own payload is handed on, under an epoch    *)
(* that its guard already had.                                             *)
LEMMA DataKeeps ==
  ASSUME NEW t, NEW p \in Peers, Typed(t), Agree(t, {p}),
         IsLast(t.sessionLru, p), NEW d \in Payloads(p)
  PROVE  LET u == HandleData(t, p, d) IN
         /\ Typed(u) /\ Agree(u, {})
         /\ \A q \in Peers : u.guards[q].epoch \in {t.guards[q].epoch, 0}
         /\ \A q \in Peers : \A e \in Payloads(q) :
              u.handed[q][e] > t.handed[q][e]
                => q = p /\ e = d /\ t.guards[p].epoch > 0
         /\ OthersUntouched(t, u, p)
         /\ OwnWindowAsked(t, u, p, d)
<1> DEFINE v == GetReplayGuard(t, p)
           n == NumberOf(p, d)
           g == [v.guards[p] EXCEPT !.window = Accept(@, n)]
           w == [v EXCEPT !.guards = [@ EXCEPT ![p] = g]]
<1>1. /\ Typed(v) /\ Agree(v, {})
      /\ v.sessions = t.sessions /\ v.sessionLru = t.sessionLru
      /\ v.guards[p] = t.guards[p]
      /\ \A q \in Peers : v.guards[q] \in {t.guards[q], NewGuard}
      /\ p \in Range(v.guardLru)
      /\ \A q \in Peers : ~ TouchedAfter(v.guardLru, p, q)
      /\ \A q \in Peers : \A e \in Payloads(q) :
           v.handed[q][e] \in {t.handed[q][e], 0}
  BY GuardKeeps
<1>2. HandleData(t, p, d)
        = IF UnknownPort(v, p) THEN LookUpAddress(v, p)
          ELSE IF Replayed(v.guards[p], n) THEN w
          ELSE TrackData(w, p, d)
  BY DEF HandleData
<1> HIDE DEF v
<1>3. HasSession(v, p)
  BY <1>1 DEF HasSession, IsLast
<1>4. /\ n \in SeqNum
      /\ \A q \in Peers : v.guards[q] \in Guard /\ v.guards[q].epoch \in Nat
      /\ \A q \in Peers : t.guards[q] \in Guard /\ t.guards[q].epoch \in Nat
  BY <1>1, NumberType DEF Typed, Guard
<1> HIDE DEF n
<1>5. /\ g \in Guard /\ g.epoch = v.guards[p].epoch
      /\ g.window = Accept(t.guards[p].window, n)
  <2>1. v.guards[p].window \in ReplayWindow
    BY <1>4 DEF Guard
  <2>2. Accept(v.guards[p].window, n) \in ReplayWindow
    BY <1>4, <2>1, AcceptType
  <2> QED BY <1>1, <1>4, <2>2 DEF Guard
<1> HIDE DEF g
<1>6. /\ \A q \in Peers : \A e \in Payloads(q) :
           /\ t.handed[q][e] \in 0 .. 2
           /\ v.handed[q][e] \in 0 .. 2
           /\ v.handed[q][e] <= t.handed[q][e]
  BY <1>1 DEF Typed
<1>7. \A q \in Peers : v.guards[q].epoch \in {t.guards[q].epoch, 0}
  BY <1>1 DEF NewGuard
<1>8. v = [sessions |-> v.sessions, sessionLru |-> v.sessionLru,
           guards |-> v.guards, guardLru |-> v.guardLru,
           addresses |-> v.addresses, handed |-> v.handed]
  BY <1>1 DEF Typed
<1>9. ASSUME NEW s, SessionShape(s), NEW h \in [Payloads(p) -> 0 .. 2],
             \A e \in Payloads(p) :
               h[e] > v.handed[p][e] => e = d /\ t.guards[p].epoch > 0,
             \A e \in Payloads(p) :
               \/ h[e] = v.handed[p][e]
               \/ /\ e = d /\ h[e] = v.handed[p][e] + 1
                  /\ Accepts(t.guards[p].window, n)
      PROVE  LET u == Updated(v, p, s, g, h) IN
             /\ Typed(u) /\ Agree(u, {})
             /\ \A q \in Peers : u.guards[q].epoch \in {t.guards[q].epoch, 0}
             /\ \A q \in Peers : \A e \in Payloads(q) :
                  u.handed[q][e] > t.handed[q][e]
                    => q = p /\ e = d /\ t.guards[p].epoch > 0
             /\ OthersUntouched(t, u, p)
             /\ OwnWindowAsked(t, u, p, d)
  <2> DEFINE u == Updated(v, p, s, g, h)
  <2>1. /\ Typed(u) /\ Agree(u, {})
        /\ u.guards[p] = g
        /\ \A q \in Peers : q # p => u.guards[q] = v.guards[q]
        /\ u.handed[p] = h
        /\ \A q \in Peers : q # p => u.handed[q] = v.handed[q]
    BY <1>1, <1>3, <1>5, <1>9, UpdateKeeps
  <2> HIDE DEF u
  <2>2. \A q \in Peers : u.guards[q].epoch \in {t.guards[q].epoch, 0}
    BY <1>5, <1>7, <2>1
  <2>3. ASSUME NEW q \in Peers, NEW e \in Payloads(q),
               u.handed[q][e] > t.handed[q][e]
        PROVE  q = p /\ e = d /\ t.guards[p].epoch > 0
    <3>1. q = p
      BY <1>6, <2>1, <2>3
    <3>2. h[e] > t.handed[p][e] /\ h[e] \in 0 .. 2
      BY <2>1, <2>3, <3>1
    <3>3. h[e] > v.handed[p][e]
      BY <1>6, <3>1, <3>2
    <3> QED BY <1>9, <3>1, <3>3
  <2>4. OthersUntouched(t, u, p)
    BY <1>1, <2>1 DEF OthersUntouched
  <2>5. OwnWindowAsked(t, u, p, d)
    <3>1. /\ u.guards[p].epoch = t.guards[p].epoch
          /\ u.guards[p].window = Accept(t.guards[p].window, n)
      BY <1>1, <1>5, <2>1
    <3>2. ASSUME NEW e \in Payloads(p)
          PROVE  \/ u.handed[p][e] \in {t.handed[p][e], 0}
                 \/ /\ e = d /\ Accepts(t.guards[p].window, n)
                    /\ u.handed[p][e] \in {1, t.handed[p][e] + 1}
      <4>1. v.handed[p][e] \in {t.handed[p][e], 0} /\ u.handed[p][e] = h[e]
        BY <1>1, <2>1
      <4>2. CASE h[e] = v.handed[p][e]
        BY <4>1, <4>2
      <4>3. CASE h[e] # v.handed[p][e]
        BY <1>9, <4>1, <4>3
      <4> QED BY <4>2, <4>3
    <3> QED BY <3>1, <3>2 DEF OwnWindowAsked, n
  <2> QED BY <2>1, <2>2, <2>3, <2>4, <2>5 DEF u
<1>10. SessionShape(v.sessions[p]) /\ v.handed[p] \in [Payloads(p) -> 0 .. 2]
  BY <1>1 DEF Typed
<1>11. w = Updated(v, p, v.sessions[p], g, v.handed[p])
  <2>1. /\ [v.sessions EXCEPT ![p] = v.sessions[p]] = v.sessions
        /\ [v.handed EXCEPT ![p] = v.handed[p]] = v.handed
    BY <1>1 DEF Typed
  <2>2. PICK y : y = Updated(v, p, v.sessions[p], g, v.handed[p])
    OBVIOUS
  <2>3. y = [v EXCEPT !.sessions = v.sessions,
                      !.guards = [@ EXCEPT ![p] = g],
                      !.handed = v.handed]
    BY <2>1, <2>2 DEF Updated
  <2>4. w = [v EXCEPT !.guards = [@ EXCEPT ![p] = g]]
    OBVIOUS
  <2> HIDE DEF w
  <2>5. y = w
    BY <1>8, <2>3, <2>4
  <2> QED BY <2>2, <2>5
<1>12. /\ w.sessions = v.sessions /\ w.handed = v.handed
       /\ w.sessionLru = v.sessionLru /\ w.guardLru = v.guardLru
       /\ w.addresses = v.addresses
       /\ w.guards[p] = g /\ w.guards = [v.guards EXCEPT ![p] = g]
       /\ w = [sessions |-> w.sessions, sessionLru |-> w.sessionLru,
               guards |-> w.guards, guardLru |-> w.guardLru,
               addresses |-> w.addresses, handed |-> w.handed]
  <2>1. w = [v EXCEPT !.guards = [@ EXCEPT ![p] = g]]
    OBVIOUS
  <2>2. p \in DOMAIN v.guards
    BY <1>1 DEF Typed
  <2> HIDE DEF w
  <2>3. /\ w.sessions = v.sessions /\ w.handed = v.handed
        /\ w.sessionLru = v.sessionLru /\ w.guardLru = v.guardLru
        /\ w.addresses = v.addresses
        /\ w.guards = [v.guards EXCEPT ![p] = g]
        /\ w = [sessions |-> w.sessions, sessionLru |-> w.sessionLru,
                guards |-> w.guards, guardLru |-> w.guardLru,
                addresses |-> w.addresses, handed |-> w.handed]
    BY <1>8, <2>1
  <2> QED BY <2>2, <2>3
<1> HIDE DEF w
<1>13. CASE UnknownPort(v, p)
  <2> DEFINE as == Touched(v.addresses, AddressOf[p])
             u == LookUpAddress(v, p)
  <2>1. u = [v EXCEPT !.addresses = as]
    BY DEF LookUpAddress
  <2>2. as \in Seq(Addresses) /\ Len(as) <= MaxGuards
    <3>1. /\ v.addresses \in Seq(Addresses) /\ Len(v.addresses) <= MaxGuards
          /\ AddressOf[p] \in Addresses /\ AddressOf[p] \in Range(v.addresses)
      BY <1>1, <1>13 DEF Typed, Agree, Addresses, UnknownPort
    <3> QED BY <3>1, TouchedLength
  <2> HIDE DEF as, u
  <2>3. /\ Typed(u) /\ Agree(u, {})
        /\ u.guards = v.guards /\ u.handed = v.handed
    BY <1>1, <2>1, <2>2, AddressesKeep
  <2>4. \A q \in Peers : \A e \in Payloads(q) :
          ~ (u.handed[q][e] > t.handed[q][e])
    BY <1>6, <2>3
  <2>5. HandleData(t, p, d) = u
    BY <1>2, <1>13 DEF u
  <2>6. OthersUntouched(t, u, p) /\ OwnWindowAsked(t, u, p, d)
    BY <1>1, <2>3 DEF OthersUntouched, OwnWindowAsked
  <2> QED BY <1>7, <2>3, <2>4, <2>5, <2>6
<1>14. CASE ~ UnknownPort(v, p) /\ Replayed(v.guards[p], n)
  <2>1. HandleData(t, p, d) = w
    BY <1>2, <1>14
  <2>2. \A e \in Payloads(p) : ~ (v.handed[p][e] > v.handed[p][e])
    BY <1>6
  <2>3. PICK h \in [Payloads(p) -> 0 .. 2] : h = v.handed[p]
    BY <1>10
  <2>4. PICK r : r = v.sessions[p]
    OBVIOUS
  <2>5. /\ \A e \in Payloads(p) : ~ (h[e] > v.handed[p][e])
        /\ \A e \in Payloads(p) : h[e] = v.handed[p][e]
    BY <2>2, <2>3
  <2>6. PICK u : u = Updated(v, p, r, g, h)
    OBVIOUS
  <2>7. /\ Typed(u) /\ Agree(u, {})
        /\ \A q \in Peers : u.guards[q].epoch \in {t.guards[q].epoch, 0}
        /\ \A q \in Peers : \A e \in Payloads(q) :
             u.handed[q][e] > t.handed[q][e]
               => q = p /\ e = d /\ t.guards[p].epoch > 0
        /\ OthersUntouched(t, u, p)
        /\ OwnWindowAsked(t, u, p, d)
    <3>1. SessionShape(r)
      BY <1>10, <2>4
    <3> QED BY <1>9, <2>5, <2>6, <3>1
  <2>8. HandleData(t, p, d) = u
    BY <1>11, <2>1, <2>3, <2>4, <2>6
  <2> QED BY <2>7, <2>8
<1>15. CASE ~ UnknownPort(v, p) /\ ~ Replayed(v.guards[p], n)
  <2> DEFINE s == v.sessions[p]
             after == [s EXCEPT !.tracker = ProcessSequence(s.tracker, n)]
             fresh == UpdateLossWindow([after EXCEPT !.heard = TRUE], n,
                                       Resyncs(s.tracker, n))
             c == v.handed[p][d]
             h == [v.handed[p] EXCEPT ![d] = IF g.epoch > 0 /\ c < 2 THEN c + 1
                                             ELSE c]
             u == TrackData(w, p, d)
  <2>1. HandleData(t, p, d) = u
    BY <1>2, <1>15
  <2>2. /\ SessionShape(after) /\ SessionShape(fresh)
    BY <1>10, TrackedShape, HeardShape, LossWindowShape
  <2>3. /\ h \in [Payloads(p) -> 0 .. 2]
        /\ \A e \in Payloads(p) :
             h[e] > v.handed[p][e] => e = d /\ t.guards[p].epoch > 0
        /\ \A e \in Payloads(p) :
             \/ h[e] = v.handed[p][e]
             \/ /\ e = d /\ h[e] = v.handed[p][e] + 1
                /\ Accepts(t.guards[p].window, n)
    <3>1. c \in 0 .. 2 /\ g.epoch = t.guards[p].epoch
      BY <1>1, <1>5, <1>6
    <3>2. (IF g.epoch > 0 /\ c < 2 THEN c + 1 ELSE c) \in 0 .. 2
      BY <3>1
    <3>3. /\ h[d] = IF g.epoch > 0 /\ c < 2 THEN c + 1 ELSE c
          /\ \A e \in Payloads(p) : e # d => h[e] = v.handed[p][e]
      BY <1>10
    <3>4. h \in [Payloads(p) -> 0 .. 2]
      BY <1>10, <3>2
    <3>5. t.guards[p].epoch > 0 => Accepts(t.guards[p].window, n)
      BY <1>1, <1>15 DEF Replayed
    <3> HIDE DEF h
    <3> QED BY <1>6, <3>1, <3>3, <3>4, <3>5
  <2>4. CASE ~ IsFreshData(s.tracker, n)
    <3> HIDE DEF u, after
    <3>1. u = [w EXCEPT !.sessions = [v.sessions EXCEPT ![p] = after]]
      <4>1. u = [w EXCEPT !.sessions[p] = after]
        BY <1>12, <2>4 DEF TrackData, n, u, after
      <4> QED BY <1>12, <4>1
    <3>2. PICK y : y = Updated(v, p, after, g, v.handed[p])
      OBVIOUS
    <3>3. y = [v EXCEPT !.sessions = [v.sessions EXCEPT ![p] = after],
                        !.guards = [v.guards EXCEPT ![p] = g],
                        !.handed = v.handed]
      <4>1. [v.handed EXCEPT ![p] = v.handed[p]] = v.handed
        BY <1>1 DEF Typed
      <4> QED BY <3>2, <4>1 DEF Updated
    <3>4. u = y
      BY <1>8, <1>12, <3>1, <3>3
    <3>5. u = Updated(v, p, after, g, v.handed[p])
      BY <3>2, <3>4
    <3>6. \A e \in Payloads(p) : ~ (v.handed[p][e] > v.handed[p][e])
      BY <1>6
    <3> QED BY <1>9, <1>10, <2>1, <2>2, <3>5, <3>6
  <2>5. CASE IsFreshData(s.tracker, n)
    <3>1. u = [w EXCEPT !.sessions = [v.sessions EXCEPT ![p] = fresh],
                        !.handed = [v.handed EXCEPT ![p] = h]]
      <4>1. u = [w EXCEPT !.sessions[p] = fresh,
                          !.handed[p][d] = IF w.guards[p].epoch > 0 /\ @ < 2
                                           THEN @ + 1 ELSE @]
        BY <1>12, <2>5 DEF TrackData, n
      <4> QED BY <1>12, <4>1
    <3>2. PICK y : y = Updated(v, p, fresh, g, h)
      OBVIOUS
    <3> HIDE DEF u, fresh, h
    <3>3. y = [v EXCEPT !.sessions = [v.sessions EXCEPT ![p] = fresh],
                        !.guards = [v.guards EXCEPT ![p] = g],
                        !.handed = [v.handed EXCEPT ![p] = h]]
      BY <3>2 DEF Updated
    <3>4. u = y
      BY <1>8, <1>12, <3>1, <3>3
    <3>5. u = Updated(v, p, fresh, g, h)
      BY <3>2, <3>4
    <3> QED BY <1>9, <2>1, <2>2, <2>3, <3>5
  <2> QED BY <2>4, <2>5
<1> QED BY <1>13, <1>14, <1>15

-----------------------------------------------------------------------------
(* The inductive invariant. *)
ServerIInv ==
  /\ Typed(Tables) /\ Agree(Tables, {})
  /\ opts \in AuthOptions /\ running \in BOOLEAN
  /\ \A w \in parked : /\ w = [peer |-> w.peer, data |-> w.data]
                        /\ w.peer \in Peers /\ w.data \in Payloads(w.peer)
  /\ ParkedAreCurrent

(* SetTables makes the tables the record it is given. *)
LEMMA TablesAfter ==
  ASSUME NEW u, Typed(u),
         sessions' = u.sessions, sessionLru' = u.sessionLru,
         guards' = u.guards, guardLru' = u.guardLru,
         addresses' = u.addresses, handed' = u.handed
  PROVE  Tables' = u
BY DEF Tables, Typed

(* Initially. *)
LEMMA InitServer == Init => ServerIInv
<1> SUFFICES ASSUME Init PROVE ServerIInv
  OBVIOUS
<1>1. /\ sessions = [p \in Peers |-> NewSession] /\ sessionLru = << >>
      /\ guards = [p \in Peers |-> NewGuard] /\ guardLru = << >>
      /\ addresses = << >>
      /\ handed = [p \in Peers |-> [d \in Payloads(p) |-> 0]]
      /\ parked = {} /\ running = TRUE /\ opts \in Options
  BY DEF Init
<1>2. /\ Tables.sessions = sessions /\ Tables.sessionLru = sessionLru
      /\ Tables.guards = guards /\ Tables.guardLru = guardLru
      /\ Tables.addresses = addresses /\ Tables.handed = handed
      /\ Tables = [sessions |-> Tables.sessions, sessionLru |-> Tables.sessionLru,
                   guards |-> Tables.guards, guardLru |-> Tables.guardLru,
                   addresses |-> Tables.addresses, handed |-> Tables.handed]
  BY DEF Tables
<1>3. NewGuard \in Guard
  BY DEF NewGuard, Guard, ReplayWindow, NewWindow
<1>4. /\ Len(<< >>) = 0 /\ DOMAIN << >> = {} /\ Range(<< >>) = {}
      /\ << >> \in Seq(Peers) /\ << >> \in Seq(Addresses)
  BY DEF Range
<1>5. Typed(Tables)
  BY <1>1, <1>2, <1>3, <1>4, NewSessionFacts DEF Typed
<1>6. \A a : SessionsAt(Tables, a) = {}
  BY <1>1, <1>2, <1>4 DEF SessionsAt
<1>7. IsInjective(<< >>) /\ \A p, q : ~ TouchedAfter(<< >>, p, q)
  BY <1>4 DEF IsInjective, TouchedAfter
<1>8. Agree(Tables, {})
  <2>1. /\ Tables.sessionLru = << >> /\ Tables.guardLru = << >>
        /\ Tables.addresses = << >>
        /\ \A p \in Peers : /\ Tables.sessions[p] = NewSession
                            /\ Tables.guards[p] = NewGuard
    BY <1>1, <1>2
  <2>2. 0 <= MaxSessions /\ 0 <= MaxGuards /\ 0 <= MaxPerAddress
    BY Limits
  <2>3. \A p \in Peers :
          Cardinality(SessionsAt(Tables, AddressOf[p])) <= MaxPerAddress
    BY <1>6, <2>2, FS_EmptySet
  <2> QED BY <1>4, <1>7, <2>1, <2>2, <2>3, NewSessionFacts, Zenon DEF Agree
<1> QED BY <1>1, <1>5, <1>8, ServerAssumption DEF ServerIInv, ParkedAreCurrent

(* What is parked stays current when epochs only go away, and HELLOs add   *)
(* what they overtake to late.                                             *)
LEMMA StaysCurrent ==
  ASSUME ServerIInv, opts' = opts, running' = running,
         \A w \in parked' : w \in parked,
         \A w \in parked' :
           \/ w \in late'
           \/ w \notin late /\ guards'[w.peer].epoch \in {guards[w.peer].epoch, 0}
  PROVE  ParkedAreCurrent'
BY DEF ServerIInv, ParkedAreCurrent

(* A DATA packet of a start passes, with both options, only under the      *)
(* epoch of that start.                                                    *)
LEMMA PassesUnderItsEpoch ==
  ASSUME opts \in AuthOptions, opts.authenticatedHeaders, opts.epochBoundAuth,
         NEW p \in Peers, NEW d \in Payloads(p),
         Passes(p, "DATA", NumberOf(p, d), d[1])
  PROVE  guards[p].epoch = d[1]
<1> DEFINE pkt == BuildPacket("DATA", NumberOf(p, d), opts, EpochOf(p, d[1]))
<1>1. /\ pkt.type = "DATA" /\ pkt.intact = TRUE
      /\ pkt.boundEpoch = EpochOf(p, d[1])
  BY DEF BuildPacket, BoundEpoch
<1>2. PassesDispatcher(pkt, opts, guards[p].epoch)
  BY DEF Passes, PeerAuthEpoch
<1> HIDE DEF pkt
<1>3. AuthEpoch(pkt, opts, guards[p].epoch) = "ok"
  BY <1>1, <1>2 DEF PassesDispatcher, ParseHeader, TagIsChecked
<1>4. EpochOf(p, d[1]) \in {0, d[1]}
  BY DEF EpochOf
<1> QED BY <1>1, <1>3, <1>4 DEF AuthEpoch, RequiresEpoch

(* A step that only restarts a client or parks a payload. *)
LEMMA StartStep ==
  ASSUME ServerIInv, NEW p \in Peers, ClientStarts(p)
  PROVE  ServerIInv'
<1>1. /\ UNCHANGED <<opts, parked, late, running, guards>>
      /\ Tables' = Tables
  BY DEF ClientStarts, tables, Tables
<1>2. ParkedAreCurrent'
  BY <1>1 DEF ServerIInv, ParkedAreCurrent
<1> QED BY <1>1, <1>2 DEF ServerIInv

LEMMA ParkStep ==
  ASSUME ServerIInv, NEW p \in Peers, NEW d \in Payloads(p), ReceiveData(p, d)
  PROVE  ServerIInv'
<1>1. /\ UNCHANGED <<opts, late, running, guards>> /\ Tables' = Tables
      /\ parked' = parked \cup {[peer |-> p, data |-> d]}
      /\ Passes(p, "DATA", NumberOf(p, d), d[1])
  BY DEF ReceiveData, tables, Tables
<1>2. ParkedAreCurrent'
  <2> SUFFICES ASSUME opts.authenticatedHeaders, opts.epochBoundAuth, running,
                      NEW w \in parked'
               PROVE  w \in late \/ guards[w.peer].epoch \in {0, w.data[1]}
    BY <1>1 DEF ParkedAreCurrent
  <2>1. CASE w \in parked
    BY <2>1 DEF ServerIInv, ParkedAreCurrent
  <2>2. CASE w = [peer |-> p, data |-> d]
    BY <1>1, <2>2, PassesUnderItsEpoch DEF ServerIInv
  <2> QED BY <1>1, <2>1, <2>2
<1> QED BY <1>1, <1>2 DEF ServerIInv

(* A HELLO. *)
LEMMA HelloStep ==
  ASSUME ServerIInv, NEW p \in Peers, NEW e \in 1 .. Starts[p],
         ReceiveHello(p, e)
  PROVE  /\ ServerIInv'
         /\ \A q \in Peers : \A d \in Payloads(q) :
              ~ (handed'[q][d] > handed[q][d])
<1> DEFINE t == GetOrCreateSession(Tables, p)
           epoch == EpochOf(p, e)
           u == IF HasSession(t, p) THEN HandleHello(t, p, epoch) ELSE t
<1>1. /\ SetTables(u)
      /\ late' = IF HasSession(t, p) /\ epoch > guards[p].epoch
                 THEN late \cup {w \in parked : w.peer = p} ELSE late
      /\ opts' = opts /\ parked' = parked /\ running' = running
  BY DEF ReceiveHello
<1>2. epoch \in Nat
  BY ServerAssumption DEF EpochOf
<1>3. /\ Typed(Tables) /\ Agree(Tables, {})
      /\ Tables.guards = guards /\ Tables.handed = handed
  BY DEF ServerIInv, Tables
<1>4. /\ Typed(t) /\ Agree(t, {p})
      /\ ~ HasSession(Tables, p) => Agree(t, {})
      /\ t.guards = guards /\ t.handed = handed
      /\ HasSession(t, p) => IsLast(t.sessionLru, p)
      /\ HasSession(Tables, p) => HasSession(t, p)
  BY <1>3, SessionKeeps
<1>5. \A q \in Peers : \A d \in Payloads(q) : handed[q][d] \in 0 .. 2
  BY <1>3 DEF Typed
<1> HIDE DEF t, epoch
<1>6. /\ Typed(u) /\ Agree(u, {})
      /\ \A q \in Peers : q # p => u.guards[q].epoch \in {guards[q].epoch, 0}
      /\ \/ u.guards[p].epoch = guards[p].epoch
         \/ late' = late \cup {w \in parked : w.peer = p}
      /\ \A q \in Peers : \A d \in Payloads(q) :
           u.handed[q][d] \in {handed[q][d], 0}
  <2>1. CASE HasSession(t, p)
    <3>1. u = HandleHello(t, p, epoch)
      BY <2>1
    <3> HIDE DEF u
    <3>2. /\ Typed(u) /\ Agree(u, {})
          /\ \A q \in Peers : q # p =>
               u.guards[q].epoch \in {t.guards[q].epoch, 0}
          /\ u.guards[p].epoch = IF epoch > t.guards[p].epoch THEN epoch
                                 ELSE t.guards[p].epoch
          /\ \A q \in Peers : \A d \in Payloads(q) :
               u.handed[q][d] \in {t.handed[q][d], 0}
      BY <1>2, <1>4, <2>1, <3>1, HelloKeeps
    <3> QED BY <1>1, <1>4, <2>1, <3>2
  <2>2. CASE ~ HasSession(t, p)
    BY <1>4, <2>2
  <2> QED BY <2>1, <2>2
<1> HIDE DEF u
<1>7. /\ Tables' = u /\ guards' = u.guards /\ handed' = u.handed
  BY <1>1, <1>6, TablesAfter DEF SetTables
<1>8. \A w \in parked' :
        \/ w \in late'
        \/ w \notin late /\ guards'[w.peer].epoch \in {guards[w.peer].epoch, 0}
  <2> SUFFICES ASSUME NEW w \in parked, w \notin late'
               PROVE  /\ w \notin late
                      /\ guards'[w.peer].epoch \in {guards[w.peer].epoch, 0}
    BY <1>1
  <2>1. w \notin late /\ w.peer \in Peers
    BY <1>1 DEF ServerIInv
  <2>2. CASE w.peer # p
    BY <1>6, <1>7, <2>1, <2>2
  <2>3. CASE w.peer = p
    BY <1>6, <1>7, <2>1, <2>3
  <2> QED BY <2>1, <2>2, <2>3
<1>9. ParkedAreCurrent'
  BY <1>1, <1>8, StaysCurrent
<1>10. ServerIInv'
  BY <1>1, <1>6, <1>7, <1>9 DEF ServerIInv
<1> QED BY <1>5, <1>6, <1>7, <1>10

(* A payload comes back from decompression. *)
LEMMA DecompressedStep ==
  ASSUME ServerIInv, NEW w \in parked, Decompressed(w)
  PROVE  /\ ServerIInv'
         /\ \A q \in Peers : \A d \in Payloads(q) :
              handed'[q][d] > handed[q][d]
                => q = w.peer /\ d = w.data /\ guards[q].epoch > 0
<1> DEFINE p == w.peer
           t == GetOrCreateSession(Tables, p)
           u == IF HasSession(t, p) THEN HandleData(t, p, w.data) ELSE t
<1>1. /\ SetTables(u)
      /\ opts' = opts /\ running' = running
      /\ \/ parked' = parked \ {w} /\ late' = late \ {w}
         \/ parked' = parked /\ late' = late
  BY DEF Decompressed
<1>2. p \in Peers /\ w.data \in Payloads(p)
  BY DEF ServerIInv
<1>3. /\ Typed(Tables) /\ Agree(Tables, {})
      /\ Tables.guards = guards /\ Tables.handed = handed
  BY DEF ServerIInv, Tables
<1> HIDE DEF p
<1>4. /\ Typed(t) /\ Agree(t, {p})
      /\ ~ HasSession(Tables, p) => Agree(t, {})
      /\ t.guards = guards /\ t.handed = handed
      /\ HasSession(t, p) => IsLast(t.sessionLru, p)
      /\ HasSession(Tables, p) => HasSession(t, p)
  BY <1>2, <1>3, SessionKeeps
<1>5. \A q \in Peers : \A d \in Payloads(q) : handed[q][d] \in 0 .. 2
  BY <1>3 DEF Typed
<1> HIDE DEF t
<1>6. /\ Typed(u) /\ Agree(u, {})
      /\ \A q \in Peers : u.guards[q].epoch \in {guards[q].epoch, 0}
      /\ \A q \in Peers : \A d \in Payloads(q) :
           u.handed[q][d] > handed[q][d]
             => q = p /\ d = w.data /\ guards[p].epoch > 0
  <2>1. CASE HasSession(t, p)
    <3>1. u = HandleData(t, p, w.data)
      BY <2>1
    <3> HIDE DEF u
    <3>2. /\ Typed(u) /\ Agree(u, {})
          /\ \A q \in Peers : u.guards[q].epoch \in {t.guards[q].epoch, 0}
          /\ \A q \in Peers : \A d \in Payloads(q) :
               u.handed[q][d] > t.handed[q][d]
                 => q = p /\ d = w.data /\ t.guards[p].epoch > 0
      BY <1>2, <1>4, <2>1, <3>1, DataKeeps
    <3> QED BY <1>4, <3>2
  <2>2. CASE ~ HasSession(t, p)
    BY <1>4, <1>5, <2>2
  <2> QED BY <2>1, <2>2
<1> HIDE DEF u
<1>7. /\ Tables' = u /\ guards' = u.guards /\ handed' = u.handed
  BY <1>1, <1>6, TablesAfter DEF SetTables
<1>8. \A v \in parked' :
        \/ v \in late'
        \/ v \notin late /\ guards'[v.peer].epoch \in {guards[v.peer].epoch, 0}
  BY <1>1, <1>6, <1>7 DEF ServerIInv
<1>9. ParkedAreCurrent'
  BY <1>1, <1>8, StaysCurrent
<1>10. ServerIInv'
  BY <1>1, <1>6, <1>7, <1>9 DEF ServerIInv
<1> QED BY <1>6, <1>7, <1>10 DEF p

(* A METADATA packet of a peer without a session. *)
LEMMA MetadataStep ==
  ASSUME ServerIInv, NEW p \in Peers, ReceiveMetadata(p)
  PROVE  ServerIInv' /\ handed' = handed
<1> DEFINE u == GetOrCreateSession(Tables, p)
<1>1. /\ ~ HasSession(Tables, p) /\ SetTables(u)
      /\ opts' = opts /\ parked' = parked /\ late' = late /\ running' = running
  BY DEF ReceiveMetadata
<1>2. /\ Typed(Tables) /\ Agree(Tables, {})
      /\ Tables.guards = guards /\ Tables.handed = handed
  BY DEF ServerIInv, Tables
<1>3. /\ Typed(u) /\ Agree(u, {}) /\ u.guards = guards /\ u.handed = handed
  BY <1>1, <1>2, SessionKeeps
<1> HIDE DEF u
<1>4. Tables' = u /\ guards' = guards /\ handed' = handed
  BY <1>1, <1>3, TablesAfter DEF SetTables
<1>5. ParkedAreCurrent'
  BY <1>1, <1>4 DEF ServerIInv, ParkedAreCurrent
<1> QED BY <1>1, <1>3, <1>4, <1>5 DEF ServerIInv

(* expireIdleSessions. *)
LEMMA ExpireStep ==
  ASSUME ServerIInv, NEW k \in 1 .. MaxSessions, ExpireIdleSessions(k)
  PROVE  ServerIInv' /\ handed' = handed
<1> DEFINE u == WithoutOldest(Tables, k)
<1>1. /\ k <= Len(sessionLru) /\ SetTables(u)
      /\ opts' = opts /\ parked' = parked /\ late' = late /\ running' = running
  BY DEF ExpireIdleSessions
<1>2. /\ Typed(Tables) /\ Agree(Tables, {})
      /\ Tables.guards = guards /\ Tables.handed = handed
      /\ Tables.sessionLru = sessionLru
  BY DEF ServerIInv, Tables
<1>3. k \in 0 .. Len(Tables.sessionLru)
  <2>1. Len(sessionLru) \in Nat
    BY <1>2, SeqFacts DEF Typed
  <2> QED BY <1>1, <1>2, <2>1
<1>4. /\ Typed(u) /\ Agree(u, {}) /\ u.guards = guards /\ u.handed = handed
  BY <1>2, <1>3, DropKeeps
<1> HIDE DEF u
<1>5. Tables' = u /\ guards' = guards /\ handed' = handed
  BY <1>1, <1>4, TablesAfter DEF SetTables
<1>6. ParkedAreCurrent'
  BY <1>1, <1>5 DEF ServerIInv, ParkedAreCurrent
<1> QED BY <1>1, <1>4, <1>5, <1>6 DEF ServerIInv

(* A NAK timer, which only a session with data can have. *)
LEMMA TimerStep ==
  ASSUME ServerIInv, NEW p \in Peers, NEW s \in SeqNum, NAKTimer(p, s)
  PROVE  ServerIInv' /\ handed' = handed
<1> DEFINE r == [sessions[p] EXCEPT !.tracker = FlushNAKs(FireNAKTimer(@, s))]
<1>1. /\ s \in sessions[p].tracker.nakTimers
      /\ sessions' = [sessions EXCEPT ![p] = r]
      /\ UNCHANGED <<opts, sessionLru, guards, guardLru, addresses, parked,
                     handed, late, running>>
  BY DEF NAKTimer
<1>2. /\ Typed(Tables) /\ Agree(Tables, {})
      /\ Tables.sessions = sessions
  BY DEF ServerIInv, Tables
<1>3. /\ SessionShape(sessions[p])
      /\ sessions = [q \in Peers |-> sessions[q]]
  BY <1>2 DEF Typed
<1>4. SessionShape(r) /\ r.heard = sessions[p].heard
  BY <1>3 DEF SessionShape
<1>5. NewSession.tracker.nakTimers = {}
  BY DEF NewSession, NewTracker
<1> HIDE DEF r
<1>6. /\ \A q \in Peers : sessions'[q] = IF q = p THEN r ELSE sessions[q]
      /\ sessions' = [q \in Peers |-> sessions'[q]]
  BY <1>1, <1>3
<1>7. sessions[p] # NewSession
  BY <1>1, <1>5
<1>8. HasSession(Tables, p)
  BY <1>2, <1>7 DEF Agree
<1>9. PICK u : u = Tables'
  OBVIOUS
<1>10. /\ u = [sessions |-> u.sessions, sessionLru |-> u.sessionLru,
               guards |-> u.guards, guardLru |-> u.guardLru,
               addresses |-> u.addresses, handed |-> u.handed]
       /\ u.sessions = sessions' /\ u.sessionLru = Tables.sessionLru
       /\ u.guards = Tables.guards /\ u.guardLru = Tables.guardLru
       /\ u.addresses = Tables.addresses /\ u.handed = Tables.handed
  BY <1>1, <1>9 DEF Tables
<1>11. Typed(u)
  BY <1>2, <1>3, <1>4, <1>6, <1>10 DEF Typed
<1>12. \A q \in Peers : u.sessions[q].heard = Tables.sessions[q].heard
  BY <1>2, <1>4, <1>6, <1>10
<1>13. \A q \in Peers : ~ HasSession(u, q) => u.sessions[q] = NewSession
  BY <1>2, <1>6, <1>8, <1>10 DEF Agree, HasSession
<1>14. \A a : SessionsAt(u, a) = SessionsAt(Tables, a)
  BY <1>10 DEF SessionsAt
<1>15. Agree(u, {})
  BY <1>2, <1>10, <1>12, <1>13, <1>14 DEF Agree
<1>16. ParkedAreCurrent'
  BY <1>1 DEF ServerIInv, ParkedAreCurrent
<1> QED BY <1>1, <1>9, <1>11, <1>15, <1>16 DEF ServerIInv

(* stopServer. *)
LEMMA StopStep ==
  ASSUME ServerIInv, Stop
  PROVE  ServerIInv' /\ \A q \in Peers : \A d \in Payloads(q) :
                          ~ (handed'[q][d] > handed[q][d])
<1> DEFINE v == WithoutOldest(Tables, Len(sessionLru))
           none == [p \in Peers |-> [d \in Payloads(p) |-> 0]]
           fresh == [p \in Peers |-> NewGuard]
           u == [v EXCEPT !.guards = fresh, !.guardLru = << >>, !.handed = none]
<1>1. /\ SetTables(u)
      /\ opts' = opts /\ parked' = parked /\ late' = late /\ running' = FALSE
  BY DEF Stop
<1>2. /\ Typed(Tables) /\ Agree(Tables, {})
      /\ Tables.sessionLru = sessionLru /\ Tables.handed = handed
  BY DEF ServerIInv, Tables
<1>3. Len(sessionLru) \in Nat
  BY <1>2, SeqFacts DEF Typed
<1>4. Len(sessionLru) \in 0 .. Len(Tables.sessionLru)
  BY <1>2, <1>3
<1>5. /\ Typed(v) /\ Agree(v, {}) /\ Len(v.sessionLru) = 0
  <2>1. /\ Typed(v) /\ Agree(v, {})
        /\ Len(v.sessionLru) = Len(Tables.sessionLru) - Len(sessionLru)
    BY <1>2, <1>4, DropKeeps
  <2> HIDE DEF v
  <2> QED BY <1>2, <1>3, <2>1
<1> HIDE DEF v, none, fresh
<1>6. /\ u = [sessions |-> u.sessions, sessionLru |-> u.sessionLru,
              guards |-> u.guards, guardLru |-> u.guardLru,
              addresses |-> u.addresses, handed |-> u.handed]
      /\ u.sessions = v.sessions /\ u.sessionLru = v.sessionLru
      /\ u.guards = fresh /\ u.guardLru = << >>
      /\ u.addresses = v.addresses /\ u.handed = none
  <2>1. v = [sessions |-> v.sessions, sessionLru |-> v.sessionLru,
             guards |-> v.guards, guardLru |-> v.guardLru,
             addresses |-> v.addresses, handed |-> v.handed]
    BY <1>5, Zenon DEF Typed
  <2>2. PICK y : y = u
    OBVIOUS
  <2>3. y = [v EXCEPT !.guards = fresh, !.guardLru = << >>, !.handed = none]
    BY <2>2
  <2> HIDE DEF u
  <2>4. y = [sessions |-> v.sessions, sessionLru |-> v.sessionLru,
             guards |-> fresh, guardLru |-> << >>,
             addresses |-> v.addresses, handed |-> none]
    BY <2>1, <2>3
  <2> QED BY <2>2, <2>4
<1>7. /\ Range(v.sessionLru) = {} /\ \A p \in Peers : ~ v.sessions[p].heard
  <2>1. Range(v.sessionLru) = {}
    BY <1>5, SeqFacts DEF Typed
  <2> QED BY <1>5, <2>1, NewSessionFacts DEF Agree, HasSession
<1>8. /\ Len(<< >>) = 0 /\ DOMAIN << >> = {} /\ Range(<< >>) = {}
      /\ << >> \in Seq(Peers) /\ IsInjective(<< >>)
  BY DEF Range, IsInjective
<1>9. /\ NewGuard \in Guard
      /\ \A p \in Peers : [d \in Payloads(p) |-> 0] \in [Payloads(p) -> 0 .. 2]
  BY DEF NewGuard, Guard, ReplayWindow, NewWindow
<1>10. /\ none = [p \in Peers |-> none[p]]
       /\ \A p \in Peers : none[p] \in [Payloads(p) -> 0 .. 2]
       /\ fresh \in [Peers -> Guard] /\ \A p \in Peers : fresh[p] = NewGuard
       /\ \A p \in Peers : \A d \in Payloads(p) : none[p][d] = 0
  BY <1>9 DEF none, fresh
<1> HIDE DEF u
<1>11. Typed(u)
  BY <1>5, <1>6, <1>8, <1>10 DEF Typed
<1>12. \A a : SessionsAt(u, a) = SessionsAt(v, a)
  BY <1>6 DEF SessionsAt
<1>13. 0 <= MaxGuards
  BY Limits
<1>14. Agree(u, {})
  BY <1>5, <1>6, <1>7, <1>8, <1>10, <1>12, <1>13 DEF Agree, HasSession
<1>15. Tables' = u /\ handed' = none
  BY <1>1, <1>6, <1>11, TablesAfter DEF SetTables
<1>16. ParkedAreCurrent'
  BY <1>1 DEF ParkedAreCurrent
<1>17. \A q \in Peers : \A d \in Payloads(q) : handed[q][d] \in 0 .. 2
  BY <1>2 DEF Typed
<1>18. \A q \in Peers : \A d \in Payloads(q) : ~ (handed'[q][d] > handed[q][d])
  BY <1>10, <1>15, <1>17
<1>19. ServerIInv'
  BY <1>1, <1>11, <1>14, <1>15, <1>16 DEF ServerIInv
<1> QED BY <1>18, <1>19

-----------------------------------------------------------------------------
(* The dispatches of a step. *)
Dispatched(p, d) == handed'[p][d] > handed[p][d]

(* Every step keeps the inductive invariant, and dispatches under an epoch *)
(* only a payload that was being decompressed.                             *)
LEMMA ServerStep ==
  ASSUME ServerIInv, [Next]_vars
  PROVE  /\ ServerIInv'
         /\ \A p \in Peers : \A d \in Payloads(p) : Dispatched(p, d)
              => [peer |-> p, data |-> d] \in parked /\ guards[p].epoch > 0
<1>1. ASSUME handed' = handed
      PROVE  \A p \in Peers : \A d \in Payloads(p) : ~ Dispatched(p, d)
  <2>1. \A p \in Peers : \A d \in Payloads(p) : handed[p][d] \in 0 .. 2
    BY DEF ServerIInv, Tables, Typed
  <2> QED BY <1>1, <2>1 DEF Dispatched
<1>2. CASE \E p \in Peers : ClientStarts(p)
  BY <1>1, <1>2, StartStep DEF ClientStarts
<1>3. CASE \E p \in Peers : \E e \in 1 .. Starts[p] : ReceiveHello(p, e)
  BY <1>3, HelloStep DEF Dispatched
<1>4. CASE \E p \in Peers : \E d \in Payloads(p) : ReceiveData(p, d)
  BY <1>1, <1>4, ParkStep DEF ReceiveData
<1>5. CASE \E w \in parked : Decompressed(w)
  BY <1>5, DecompressedStep DEF Dispatched, ServerIInv
<1>6. CASE \E p \in Peers : ReceiveMetadata(p)
  BY <1>1, <1>6, MetadataStep
<1>7. CASE \E p \in Peers : \E s \in SeqNum : NAKTimer(p, s)
  BY <1>1, <1>7, TimerStep
<1>8. CASE \E k \in 1 .. MaxSessions : ExpireIdleSessions(k)
  BY <1>1, <1>8, ExpireStep
<1>9. CASE Stop
  BY <1>9, StopStep DEF Dispatched
<1>10. CASE UNCHANGED vars
  <2>1. /\ UNCHANGED <<opts, parked, late, running, guards, handed>>
        /\ Tables' = Tables
    BY <1>10 DEF vars, tables, Tables
  <2>2. ParkedAreCurrent'
    BY <2>1 DEF ServerIInv, ParkedAreCurrent
  <2> QED BY <1>1, <2>1, <2>2 DEF ServerIInv
<1> QED BY <1>2, <1>3, <1>4, <1>5, <1>6, <1>7, <1>8, <1>9, <1>10 DEF Next

(* What the tables index agrees, in the terms of the specification. *)
LEMMA AgreeIsTablesInv == ServerIInv => TablesInv
<1> SUFFICES ASSUME ServerIInv PROVE TablesInv
  OBVIOUS
<1>1. /\ Agree(Tables, {})
      /\ Tables.sessions = sessions /\ Tables.sessionLru = sessionLru
      /\ Tables.guards = guards /\ Tables.guardLru = guardLru
      /\ Tables.addresses = addresses
  BY DEF ServerIInv, Tables
<1>2. WithinLimits
  BY <1>1 DEF Agree, WithinLimits
<1>3. GuardOutlivesSession
  BY <1>1 DEF Agree, GuardOutlivesSession
<1>4. RecencyAgrees
  BY <1>1 DEF Agree, RecencyAgrees
<1> QED BY <1>1, <1>2, <1>3, <1>4 DEF Agree, TablesInv

(* The inductive invariant holds. *)
THEOREM ServerSafe == Spec => []ServerIInv
<1>1. ServerIInv /\ [Next]_vars => ServerIInv'
  BY ServerStep
<1> QED BY <1>1, InitServer, PTL DEF Spec

(* The session table, the guards and the addresses stay within their       *)
(* limits and agree with what they index, whatever is evicted, expired or  *)
(* made when a decompression ends.                                         *)
THEOREM TablesAgree == Spec => []TablesInv
BY ServerSafe, AgreeIsTablesInv, PTL

(* A session that has received data has its replay guard.                  *)
THEOREM GuardsOutliveSessions == Spec => []GuardOutlivesSession
<1>1. TablesInv => GuardOutlivesSession
  BY DEF TablesInv
<1> QED BY <1>1, TablesAgree, PTL

(* What is being decompressed passed under the epoch its guard still has.  *)
THEOREM ParkedStayCurrent == Spec => []ParkedAreCurrent
<1>1. ServerIInv => ParkedAreCurrent
  BY DEF ServerIInv
<1> QED BY <1>1, ServerSafe, PTL

(* With both options, data of an earlier start is dispatched under a later *)
(* epoch only if it was being decompressed when that epoch was announced.  *)
THEOREM OldStartsEnd == Spec => OldStartOnlyIfParked
<1> DEFINE A == \A p \in Peers : \A d \in Payloads(p) :
                  (/\ opts.authenticatedHeaders /\ opts.epochBoundAuth /\ running
                   /\ handed'[p][d] > handed[p][d])
                  => \/ d[1] = guards[p].epoch
                     \/ [peer |-> p, data |-> d] \in late
<1>1. ServerIInv /\ [Next]_vars => A
  <2> SUFFICES ASSUME ServerIInv, [Next]_vars, NEW p \in Peers, NEW d \in Payloads(p),
                      opts.authenticatedHeaders, opts.epochBoundAuth, running,
                      Dispatched(p, d), [peer |-> p, data |-> d] \notin late
               PROVE  d[1] = guards[p].epoch
    BY DEF Dispatched
  <2> DEFINE w == [peer |-> p, data |-> d]
  <2>1. w \in parked /\ guards[p].epoch > 0
    BY ServerStep
  <2>2. guards[w.peer].epoch \in {0, w.data[1]}
    BY <2>1 DEF ServerIInv, ParkedAreCurrent
  <2> QED BY <2>1, <2>2
<1> QED BY <1>1, ServerSafe, PTL DEF Spec, OldStartOnlyIfParked

-----------------------------------------------------------------------------
(* Among numbers within half the space from b, serial arithmetic is the    *)
(* order of the distances from b.                                          *)
LEMMA ArcOrder ==
  ASSUME NEW b \in SeqNum, NEW x \in SeqNum, NEW y \in SeqNum,
         Dist(b, x) < HalfSpace, Dist(b, y) < HalfSpace
  PROVE  /\ Dist(b, x) \in Nat /\ Dist(b, y) \in Nat
         /\ IsAhead(x, y) <=> Dist(b, x) > Dist(b, y)
         /\ Dist(b, x) <= Dist(b, y) => Dist(x, y) = Dist(b, y) - Dist(b, x)
BY HalfSpaceAssumption, SMT DEF Dist, IsAhead, SeqNum, SeqSpace

(* Pruning keeps the highest number and what lies inside the window.       *)
LEMMA PruneFacts ==
  ASSUME NEW h, NEW S
  PROVE  LET w == PruneIfNeeded([highest |-> h, seen |-> S]) IN
         /\ w.highest = h
         /\ \A n \in S : Inside(n, h) => n \in w.seen
BY DEF PruneIfNeeded

(* What was accepted is refused from then on, and what was refused stays   *)
(* so, as long as all numbers lie within half the space from one of them.  *)
LEMMA StillRefused ==
  ASSUME NEW w \in ReplayWindow, NEW b \in SeqNum, NEW s \in SeqNum,
         Dist(b, s) < HalfSpace,
         w.highest # NoSeq => Dist(b, w.highest) < HalfSpace
  PROVE  /\ Accept(w, s).highest \in {w.highest, s}
         /\ ~ Accepts(Accept(w, s), s)
         /\ \A n \in SeqNum :
              Dist(b, n) < HalfSpace /\ ~ Accepts(w, n)
                => ~ Accepts(Accept(w, s), n)
<1> DEFINE h == w.highest
           S == w.seen
           v == Accept(w, s)
<1>1. w = [highest |-> h, seen |-> S] /\ (h # NoSeq => h \in SeqNum)
  BY DEF ReplayWindow
<1>2. s # NoSeq /\ ~ IsAhead(s, s) /\ Inside(s, s)
  <2>1. Dist(s, s) = 0
    BY DistType
  <2>2. s # NoSeq
    BY DEF SeqNum, NoSeq
  <2> QED BY <2>1, <2>2, WindowAssumption DEF IsAhead, Inside
<1>3. CASE h = NoSeq
  <2>1. v = [highest |-> s, seen |-> {s}]
    BY <1>3 DEF Accept
  <2>2. v.highest = s /\ v.seen = {s}
    BY <2>1
  <2>3. ~ Accepts(v, s)
    BY <1>2, <2>2 DEF Accepts
  <2>4. \A n : Accepts(w, n)
    BY <1>3 DEF Accepts
  <2> QED BY <2>2, <2>3, <2>4
<1>4. CASE h # NoSeq /\ IsAhead(s, h)
  <2>1. v = PruneIfNeeded([highest |-> s, seen |-> S \cup {s}])
    BY <1>4 DEF Accept
  <2>2. v.highest = s /\ \A n \in S \cup {s} : Inside(n, s) => n \in v.seen
    BY <2>1, PruneFacts
  <2> HIDE DEF v
  <2>3. ~ Accepts(v, s)
    BY <1>2, <2>2 DEF Accepts
  <2>4. ASSUME NEW n \in SeqNum, Dist(b, n) < HalfSpace, ~ Accepts(w, n)
        PROVE  ~ Accepts(v, n)
    <3>1. ~ IsAhead(n, h) /\ (Inside(n, h) => n \in S)
      BY <2>4 DEF Accepts
    <3>2. h \in SeqNum /\ Dist(b, h) < HalfSpace
      BY <1>1, <1>4
    <3>3. /\ Dist(b, h) \in Nat /\ Dist(b, s) \in Nat
          /\ Dist(b, s) > Dist(b, h)
      BY <1>4, <3>2, ArcOrder
    <3>4. /\ Dist(b, n) \in Nat /\ ~ (Dist(b, n) > Dist(b, h))
          /\ Dist(b, n) <= Dist(b, h) => Dist(n, h) = Dist(b, h) - Dist(b, n)
      BY <2>4, <3>1, <3>2, ArcOrder
    <3>5. /\ IsAhead(n, s) => Dist(b, n) > Dist(b, s)
          /\ Dist(b, n) <= Dist(b, s) => Dist(n, s) = Dist(b, s) - Dist(b, n)
      BY <2>4, ArcOrder
    <3>6. ~ IsAhead(n, s)
      BY <3>3, <3>4, <3>5
    <3>7. Dist(n, h) < Dist(n, s) /\ Dist(n, h) \in Nat /\ Dist(n, s) \in Nat
      BY <3>3, <3>4, <3>5
    <3>8. Inside(n, s) => Inside(n, h)
      BY <3>7, WindowAssumption DEF Inside
    <3> QED BY <1>2, <2>2, <3>1, <3>6, <3>8 DEF Accepts
  <2> QED BY <2>2, <2>3, <2>4 DEF v
<1>5. CASE h # NoSeq /\ ~ IsAhead(s, h) /\ Accepts(w, s)
  <2>1. v = [highest |-> h, seen |-> S \cup {s}]
    BY <1>1, <1>5 DEF Accept
  <2>2. v.highest = h /\ v.seen = S \cup {s}
    BY <2>1
  <2> HIDE DEF v
  <2>3. ~ Accepts(v, s)
    BY <1>5, <2>2 DEF Accepts
  <2>4. \A n : ~ Accepts(w, n) => ~ Accepts(v, n)
    BY <2>2 DEF Accepts
  <2> QED BY <2>2, <2>3, <2>4 DEF v
<1>6. CASE ~ Accepts(w, s)
  <2>1. v = w
    BY <1>6 DEF Accept, Accepts
  <2> QED BY <1>6, <2>1
<1> QED BY <1>3, <1>4, <1>5, <1>6

(* The window of a peer is at one of its numbers, and under an epoch it    *)
(* refuses the payloads dispatched, each of which was dispatched once.     *)
PeerRefuses(t, p) ==
  LET w == t.guards[p].window IN
  /\ w.highest # NoSeq => \E d \in Payloads(p) : w.highest = NumberOf(p, d)
  /\ t.guards[p].epoch > 0 =>
       \A d \in Payloads(p) : t.handed[p][d] > 0
         => t.handed[p][d] = 1 /\ ~ Accepts(w, NumberOf(p, d))

(* A new guard refuses nothing and has nothing to refuse. *)
LEMMA NewGuardRefuses ==
  ASSUME NEW u, NEW p \in Peers,
         u.guards[p].window = NewWindow,
         \/ u.guards[p].epoch = 0
         \/ \A d \in Payloads(p) : u.handed[p][d] = 0
  PROVE  PeerRefuses(u, p)
BY DEF PeerRefuses, NewWindow

(* Between two tables a peer is left alone, or only forgotten.             *)
LEMMA UntouchedRefuses ==
  ASSUME NEW t, NEW u, NEW p \in Peers, PeerRefuses(t, p),
         u.guards[p].window = t.guards[p].window,
         u.guards[p].epoch = t.guards[p].epoch,
         \A d \in Payloads(p) : u.handed[p][d] \in {t.handed[p][d], 0}
  PROVE  PeerRefuses(u, p)
<1>1. \A d \in Payloads(p) :
        u.handed[p][d] > 0 => u.handed[p][d] = t.handed[p][d]
  <2> SUFFICES ASSUME NEW d \in Payloads(p), u.handed[p][d] > 0
               PROVE  u.handed[p][d] = t.handed[p][d]
    OBVIOUS
  <2>1. u.handed[p][d] \in {t.handed[p][d], 0}
    OBVIOUS
  <2>2. ~ (0 > 0)
    OBVIOUS
  <2> QED BY <2>1, <2>2
<1> QED BY <1>1 DEF PeerRefuses

(* A payload dispatched under the epoch of its guard was one its window    *)
(* took, and is refused by it from then on.                                *)
LEMMA AskedRefuses ==
  ASSUME NumbersFit, NEW t, NEW u, NEW p \in Peers, NEW d \in Payloads(p),
         t.guards[p] \in Guard, t.handed[p] \in [Payloads(p) -> 0 .. 2],
         PeerRefuses(t, p), OwnWindowAsked(t, u, p, d)
  PROVE  PeerRefuses(u, p)
<1> DEFINE w == t.guards[p].window
           v == u.guards[p].window
           n == NumberOf(p, d)
<1>1. PICK b \in SeqNum : \A e \in Payloads(p) : Dist(b, NumberOf(p, e)) < HalfSpace
  BY DEF NumbersFit, NumbersWithin
<1>2. /\ w \in ReplayWindow /\ n \in SeqNum /\ Dist(b, n) < HalfSpace
      /\ w.highest # NoSeq => Dist(b, w.highest) < HalfSpace
  BY <1>1, NumberType DEF Guard, PeerRefuses
<1>3. /\ Accept(w, n).highest \in {w.highest, n}
      /\ ~ Accepts(Accept(w, n), n)
      /\ \A m \in SeqNum : Dist(b, m) < HalfSpace /\ ~ Accepts(w, m)
                             => ~ Accepts(Accept(w, n), m)
  BY <1>2, StillRefused
<1>4. /\ u.guards[p].epoch = t.guards[p].epoch
      /\ v \in {w, Accept(w, n)}
      /\ \A e \in Payloads(p) :
           \/ u.handed[p][e] \in {t.handed[p][e], 0}
           \/ /\ e = d /\ Accepts(w, n) /\ v = Accept(w, n)
              /\ u.handed[p][e] \in {1, t.handed[p][e] + 1}
  BY DEF OwnWindowAsked
<1>5. v.highest # NoSeq => \E e \in Payloads(p) : v.highest = NumberOf(p, e)
  <2>1. v.highest \in {w.highest, n}
    BY <1>3, <1>4
  <2> QED BY <2>1 DEF PeerRefuses
<1>6. ASSUME t.guards[p].epoch > 0, NEW e \in Payloads(p), u.handed[p][e] > 0
      PROVE  u.handed[p][e] = 1 /\ ~ Accepts(v, NumberOf(p, e))
  <2>1. /\ t.handed[p][e] \in 0 .. 2
        /\ t.handed[p][e] > 0
             => t.handed[p][e] = 1 /\ ~ Accepts(w, NumberOf(p, e))
    BY <1>6 DEF PeerRefuses
  <2>2. NumberOf(p, e) \in SeqNum /\ Dist(b, NumberOf(p, e)) < HalfSpace
    BY <1>1, NumberType
  <2>3. CASE u.handed[p][e] \in {t.handed[p][e], 0}
    <3>1. t.handed[p][e] > 0 /\ u.handed[p][e] = t.handed[p][e]
      BY <1>6, <2>1, <2>3
    <3>2. u.handed[p][e] = 1 /\ ~ Accepts(w, NumberOf(p, e))
      BY <2>1, <3>1
    <3> QED BY <1>3, <1>4, <2>2, <3>2
  <2>4. CASE /\ e = d /\ Accepts(w, n) /\ v = Accept(w, n)
             /\ u.handed[p][e] \in {1, t.handed[p][e] + 1}
    <3>1. ~ (t.handed[p][e] > 0)
      BY <2>1, <2>4
    <3>2. u.handed[p][e] = 1
      BY <2>1, <2>4, <3>1
    <3> QED BY <1>3, <2>4, <3>2
  <2> QED BY <1>4, <2>3, <2>4
<1> QED BY <1>4, <1>5, <1>6 DEF PeerRefuses

GuardsRefuse == \A p \in Peers : PeerRefuses(Tables, p)

(* Every step keeps what the windows refuse. *)
LEMMA RefusalStep ==
  ASSUME NumbersFit, ServerIInv, GuardsRefuse, [Next]_vars
  PROVE  GuardsRefuse'
<1>1. /\ Typed(Tables) /\ Agree(Tables, {})
      /\ Tables.guards = guards /\ Tables.handed = handed
      /\ Tables.guards \in [Peers -> Guard]
      /\ \A q \in Peers : Tables.handed[q] \in [Payloads(q) -> 0 .. 2]
  BY DEF ServerIInv, Tables, Typed
<1>2. Tables'.guards = guards' /\ Tables'.handed = handed'
  BY DEF Tables
<1>3. ASSUME NEW u, u.guards = Tables.guards, u.handed = Tables.handed,
             guards' = u.guards, handed' = u.handed
      PROVE  GuardsRefuse'
  <2>1. guards' = guards /\ handed' = handed
    BY <1>1, <1>3
  <2> QED BY <1>1, <1>2, <2>1 DEF GuardsRefuse, PeerRefuses
<1>4. ASSUME NEW u, guards' = u.guards, handed' = u.handed,
             \A q \in Peers : PeerRefuses(u, q)
      PROVE  GuardsRefuse'
  BY <1>2, <1>4 DEF GuardsRefuse, PeerRefuses
<1>5. ASSUME NEW p \in Peers
      PROVE  LET t == GetOrCreateSession(Tables, p) IN
             /\ Typed(t) /\ Agree(t, {p})
             /\ t.guards = Tables.guards /\ t.handed = Tables.handed
             /\ HasSession(t, p) => IsLast(t.sessionLru, p)
             /\ \A q \in Peers : PeerRefuses(t, q)
  <2> DEFINE t == GetOrCreateSession(Tables, p)
  <2>1. /\ Typed(t) /\ Agree(t, {p})
        /\ t.guards = Tables.guards /\ t.handed = Tables.handed
        /\ HasSession(t, p) => IsLast(t.sessionLru, p)
    BY <1>1, SessionKeeps
  <2> HIDE DEF t
  <2>2. \A q \in Peers : PeerRefuses(t, q)
    BY <2>1 DEF GuardsRefuse, PeerRefuses
  <2> QED BY <2>1, <2>2 DEF t
<1>6. ASSUME NEW p \in Peers, NEW e \in 1 .. Starts[p], ReceiveHello(p, e)
      PROVE  GuardsRefuse'
  <2> DEFINE t == GetOrCreateSession(Tables, p)
             epoch == EpochOf(p, e)
             u == HandleHello(t, p, epoch)
  <2>1. SetTables(IF HasSession(t, p) THEN u ELSE t)
    BY <1>6 DEF ReceiveHello
  <2>2. epoch \in Nat
    BY ServerAssumption DEF EpochOf
  <2>3. /\ Typed(t) /\ Agree(t, {p})
        /\ t.guards = Tables.guards /\ t.handed = Tables.handed
        /\ HasSession(t, p) => IsLast(t.sessionLru, p)
        /\ \A q \in Peers : PeerRefuses(t, q)
    BY <1>5
  <2> HIDE DEF t, epoch
  <2>4. CASE ~ HasSession(t, p)
    <3>1. SetTables(t)
      BY <2>1, <2>4
    <3> QED BY <1>3, <2>3, <3>1 DEF SetTables
  <2>5. CASE HasSession(t, p)
    <3>1. /\ \A q \in Peers : \A d \in Payloads(q) :
               u.handed[q][d] \in {t.handed[q][d], 0}
          /\ \A q \in Peers : q # p => u.guards[q] \in {t.guards[q], NewGuard}
          /\ \/ /\ u.guards[p].window = t.guards[p].window
                /\ u.guards[p].epoch = t.guards[p].epoch
             \/ /\ u.guards[p].window = NewWindow
                /\ \A d \in Payloads(p) : u.handed[p][d] = 0
      BY <2>2, <2>3, <2>5, HelloKeeps
    <3>2. SetTables(u)
      BY <2>1, <2>5
    <3> HIDE DEF u
    <3>3. ASSUME NEW q \in Peers PROVE PeerRefuses(u, q)
      <4>1. CASE /\ u.guards[q].window = t.guards[q].window
                 /\ u.guards[q].epoch = t.guards[q].epoch
        BY <2>3, <3>1, <4>1, UntouchedRefuses
      <4>2. CASE /\ u.guards[q].window = NewWindow
                 /\ \A d \in Payloads(q) : u.handed[q][d] = 0
        BY <4>2, NewGuardRefuses
      <4>3. CASE u.guards[q] = NewGuard
        BY <4>3, NewGuardRefuses DEF NewGuard
      <4> QED BY <3>1, <4>1, <4>2, <4>3
    <3> QED BY <1>4, <3>2, <3>3 DEF SetTables
  <2> QED BY <2>4, <2>5
<1>7. ASSUME NEW w \in parked, Decompressed(w)
      PROVE  GuardsRefuse'
  <2> DEFINE p == w.peer
             d == w.data
             t == GetOrCreateSession(Tables, p)
             u == HandleData(t, p, d)
  <2>1. SetTables(IF HasSession(t, p) THEN u ELSE t)
    BY <1>7 DEF Decompressed
  <2>2. p \in Peers /\ d \in Payloads(p)
    BY DEF ServerIInv
  <2> HIDE DEF p, d
  <2>3. /\ Typed(t) /\ Agree(t, {p})
        /\ t.guards = Tables.guards /\ t.handed = Tables.handed
        /\ HasSession(t, p) => IsLast(t.sessionLru, p)
        /\ \A q \in Peers : PeerRefuses(t, q)
    BY <1>5, <2>2
  <2> HIDE DEF t
  <2>4. CASE ~ HasSession(t, p)
    <3>1. SetTables(t)
      BY <2>1, <2>4
    <3> QED BY <1>3, <2>3, <3>1 DEF SetTables
  <2>5. CASE HasSession(t, p)
    <3>1. OthersUntouched(t, u, p) /\ OwnWindowAsked(t, u, p, d)
      BY <2>2, <2>3, <2>5, DataKeeps
    <3>2. SetTables(u)
      BY <2>1, <2>5
    <3> HIDE DEF u
    <3>3. PeerRefuses(u, p)
      <4>1. /\ t.guards[p] \in Guard
            /\ t.handed[p] \in [Payloads(p) -> 0 .. 2]
        BY <2>2, <2>3 DEF Typed
      <4> QED BY <2>2, <2>3, <3>1, <4>1, AskedRefuses
    <3>4. ASSUME NEW q \in Peers \ {p} PROVE PeerRefuses(u, q)
      <4>1. /\ u.guards[q] \in {t.guards[q], NewGuard}
            /\ \A e \in Payloads(q) : u.handed[q][e] \in {t.handed[q][e], 0}
        BY <3>1 DEF OthersUntouched
      <4>2. CASE u.guards[q] = t.guards[q]
        BY <2>3, <4>1, <4>2, UntouchedRefuses
      <4>3. CASE u.guards[q] = NewGuard
        BY <4>3, NewGuardRefuses DEF NewGuard
      <4> QED BY <4>1, <4>2, <4>3
    <3> QED BY <1>4, <3>2, <3>3, <3>4 DEF SetTables
  <2> QED BY <2>4, <2>5
<1>8. ASSUME NEW p \in Peers, ReceiveMetadata(p)
      PROVE  GuardsRefuse'
  BY <1>3, <1>5, <1>8 DEF ReceiveMetadata, SetTables
<1>9. ASSUME guards' = guards, handed' = handed
      PROVE  GuardsRefuse'
  BY <1>1, <1>3, <1>9
<1>10. ASSUME NEW k \in 1 .. MaxSessions, ExpireIdleSessions(k)
       PROVE  GuardsRefuse'
  <2>1. /\ WithoutOldest(Tables, k).guards = Tables.guards
        /\ WithoutOldest(Tables, k).handed = Tables.handed
    BY DEF WithoutOldest, Tables
  <2> QED BY <1>3, <1>10, <2>1 DEF ExpireIdleSessions, SetTables
<1>11. CASE Stop
  <2>1. guards' = [p \in Peers |-> NewGuard]
    BY <1>11 DEF Stop, SetTables, WithoutOldest, Tables
  <2>2. \A p \in Peers : PeerRefuses(Tables', p)
    BY <1>2, <2>1, NewGuardRefuses DEF NewGuard
  <2> QED BY <2>2 DEF GuardsRefuse
<1>12. CASE UNCHANGED vars
  BY <1>9, <1>12 DEF vars, tables
<1>13. CASE \E p \in Peers : ClientStarts(p)
  BY <1>9, <1>13 DEF ClientStarts, tables
<1>14. CASE \E p \in Peers : \E d \in Payloads(p) : ReceiveData(p, d)
  BY <1>9, <1>14 DEF ReceiveData, tables
<1>15. CASE \E p \in Peers : \E s \in SeqNum : NAKTimer(p, s)
  BY <1>9, <1>15 DEF NAKTimer
<1>16. CASE Next
  <2> HIDE DEF GuardsRefuse
  <2>1. \A p \in Peers : \A e \in 1 .. Starts[p] : ~ ReceiveHello(p, e) \/ GuardsRefuse'
    BY <1>6
  <2>2. \A c \in parked : ~ Decompressed(c) \/ GuardsRefuse'
    BY <1>7
  <2>3. \A p \in Peers : ~ ReceiveMetadata(p) \/ GuardsRefuse'
    BY <1>8
  <2>4. \A k \in 1 .. MaxSessions : ~ ExpireIdleSessions(k) \/ GuardsRefuse'
    BY <1>10
  <2> QED BY <1>11, <1>13, <1>14, <1>15, <1>16, <2>1, <2>2, <2>3, <2>4 DEF Next
<1> QED BY <1>12, <1>16

(* When the numbers of a client lie within half the space, its window      *)
(* refuses what it let through, for as long as the epoch of its guard      *)
(* lasts: whatever happens to the session meanwhile, and although copies   *)
(* of a packet may be decompressed at the same time, no payload is         *)
(* dispatched twice under an epoch.                                        *)
THEOREM NothingReplayed ==
  ASSUME NumbersFit
  PROVE  Spec => [](NeverReplayed /\ WindowsRefuse)
<1>1. Init => GuardsRefuse
  <2> SUFFICES ASSUME Init, NEW p \in Peers PROVE PeerRefuses(Tables, p)
    BY DEF GuardsRefuse
  <2>1. Tables.guards[p] = NewGuard
    BY DEF Init, Tables
  <2>2. NewGuard.window = NewWindow /\ NewGuard.epoch = 0
    BY DEF NewGuard
  <2> QED BY <2>1, <2>2, NewGuardRefuses
<1>2. ServerIInv /\ GuardsRefuse /\ [Next]_vars => GuardsRefuse'
  BY RefusalStep
<1>3. ServerIInv /\ GuardsRefuse => NeverReplayed /\ WindowsRefuse
  <2> SUFFICES ASSUME ServerIInv, GuardsRefuse
               PROVE  NeverReplayed /\ WindowsRefuse
    OBVIOUS
  <2>1. /\ Tables.guards = guards /\ Tables.handed = handed
        /\ \A p \in Peers : \A d \in Payloads(p) : handed[p][d] \in 0 .. 2
    BY DEF ServerIInv, Tables, Typed
  <2>2. WindowsRefuse
    BY <2>1 DEF GuardsRefuse, PeerRefuses, WindowsRefuse
  <2>3. NeverReplayed
    <3> SUFFICES ASSUME NEW p \in Peers, guards[p].epoch > 0, NEW d \in Payloads(p)
                 PROVE  handed[p][d] <= 1
      BY DEF NeverReplayed
    <3>1. handed[p][d] \in 0 .. 2 /\ (handed[p][d] > 0 => handed[p][d] = 1)
      BY <2>1, <2>2 DEF WindowsRefuse
    <3> QED BY <3>1
  <2> QED BY <2>2, <2>3
<1> QED BY <1>1, <1>2, <1>3, ServerSafe, PTL DEF Spec

-----------------------------------------------------------------------------
(* The loss window of a session, among numbers that lie within less than   *)
(* half the space from f: there the order is that of the distances from f. *)
Arc(f) == {x \in SeqNum : Dist(f, x) < HalfSpace - 1}

(* The distances of the numbers from b to h that are not fresh any more.   *)
Counted(t, b, h, f) ==
  {k \in Dist(f, b) .. Dist(f, h) :
     k < Dist(f, t.expectedSeq) \/ Plus(f, k) \in t.receivedSeqs}

(* n numbers were counted between b and h by a session with tracker t, and *)
(* none of them is fresh.                                                  *)
LossOf(t, b, h, n, f) ==
  /\ TInv(t)
  /\ t.receivedSeqs \subseteq Arc(f)
  /\ n \in Nat
  /\ b = NoSeq <=> t.expectedSeq = NoSeq
  /\ b = NoSeq => h = NoSeq /\ n = 0
  /\ b # NoSeq =>
       /\ b \in Arc(f) /\ h \in Arc(f)
       /\ Dist(f, b) <= Dist(f, h)
       /\ Dist(f, b) < Dist(f, t.expectedSeq)
       /\ Dist(f, t.expectedSeq) < HalfSpace
       /\ n <= Cardinality(Counted(t, b, h, f))

LEMMA DistNat ==
  /\ SeqNum \subseteq Nat
  /\ \A x, y \in SeqNum : Dist(x, y) \in Nat
<1>1. SeqNum \subseteq Nat
  BY HalfSpaceAssumption DEF SeqNum, SeqSpace
<1> QED BY <1>1, DistType

(* The order of the distances on the arc and one beyond it. *)
LEMMA ArcFacts ==
  ASSUME NEW f \in SeqNum, NEW x \in SeqNum, NEW y \in SeqNum,
         Dist(f, x) < HalfSpace, Dist(f, y) < HalfSpace
  PROVE  /\ Dist(f, x) \in Nat /\ Dist(f, y) \in Nat
         /\ IsAhead(x, y) <=> Dist(f, x) > Dist(f, y)
         /\ IsBehind(x, y) <=> Dist(f, x) < Dist(f, y)
         /\ Dist(f, x) <= Dist(f, y) => Dist(x, y) = Dist(f, y) - Dist(f, x)
         /\ x = y <=> Dist(f, x) = Dist(f, y)
         /\ Plus(f, Dist(f, x)) = x
BY HalfSpaceAssumption, SMT DEF Dist, Plus, IsAhead, IsBehind, SeqNum, SeqSpace

LEMMA ArcType ==
  ASSUME NEW f \in SeqNum, NEW x \in Arc(f)
  PROVE  /\ x \in SeqNum /\ Dist(f, x) \in SeqNum /\ Dist(f, x) \in Nat
         /\ Dist(f, x) < HalfSpace - 1 /\ Dist(f, x) < HalfSpace
         /\ Plus(f, Dist(f, x)) = x
<1>1. x \in SeqNum /\ Dist(f, x) < HalfSpace - 1
  BY DEF Arc
<1>2. Dist(f, x) \in SeqNum /\ Plus(f, Dist(f, x)) = x
  BY <1>1, DistType, PlusDist
<1>3. HalfSpace \in Nat /\ Dist(f, x) \in Nat
  BY <1>2, HalfSpaceAssumption DEF SeqNum
<1> QED BY <1>1, <1>2, <1>3

LEMMA CountedIsFinite ==
  ASSUME NEW t, NEW f \in SeqNum, NEW b \in Arc(f), NEW h \in Arc(f),
         Dist(f, b) <= Dist(f, h)
  PROVE  /\ IsFiniteSet(Counted(t, b, h, f))
         /\ Cardinality(Counted(t, b, h, f)) \in Nat
         /\ Cardinality(Counted(t, b, h, f)) <= Dist(b, h) + 1
<1> DEFINE I == Dist(f, b) .. Dist(f, h)
<1>1. /\ Dist(f, b) \in Nat /\ Dist(f, h) \in Nat
      /\ Dist(b, h) = Dist(f, h) - Dist(f, b)
  BY ArcType, ArcFacts
<1>2. /\ IsFiniteSet(I)
      /\ Cardinality(I) = Dist(f, h) - Dist(f, b) + 1
  BY <1>1, FS_Interval
<1>3. Counted(t, b, h, f) \subseteq I
  BY DEF Counted
<1> HIDE DEF I
<1>4. /\ IsFiniteSet(Counted(t, b, h, f))
      /\ Cardinality(Counted(t, b, h, f)) <= Cardinality(I)
  BY <1>2, <1>3, FS_Subset
<1> QED BY <1>1, <1>2, <1>4, FS_CardinalityType

(* A tracker that settles a number of the arc stays on it, and does not    *)
(* take for fresh what it has passed or received.                          *)
LEMMA WindowMoves ==
  ASSUME NEW f \in SeqNum, NEW t, TInv(t), t.receivedSeqs \subseteq Arc(f),
         t.expectedSeq \in SeqNum, Dist(f, t.expectedSeq) < HalfSpace,
         NEW x \in Arc(f), NEW a, Settles(t, a, x)
  PROVE  /\ TInv(a)
         /\ a.receivedSeqs \subseteq Arc(f)
         /\ a.expectedSeq \in SeqNum
         /\ Dist(f, t.expectedSeq) <= Dist(f, a.expectedSeq)
         /\ Dist(f, a.expectedSeq) < HalfSpace
         /\ \A y \in t.receivedSeqs \cup {x} :
              y \in a.receivedSeqs \/ Dist(f, y) < Dist(f, a.expectedSeq)
<1> DEFINE e == t.expectedSeq
           g == a.expectedSeq
           R == t.receivedSeqs \cup {x}
<1>1. /\ TInv(a) /\ a.receivedSeqs \subseteq R
      /\ \A y \in R \ a.receivedSeqs : IsBehind(y, g)
  BY DEF Settles, ForgetsBehind
<1>2. PICK k \in SeqNum :
        /\ k <= MaxGapTracking + 1
        /\ g = Plus(e, k)
        /\ \A y \in SeqNum : Dist(e, y) < k => y \in R
  BY DEF Settles
<1>3. R \subseteq Arc(f)
  OBVIOUS
<1> HIDE DEF e, g, R
<1>4. e \in SeqNum /\ Dist(f, e) \in Nat /\ Dist(f, e) < HalfSpace
  BY DistNat DEF e
<1>5. /\ HalfSpace \in Nat /\ k \in Nat /\ k < HalfSpace /\ k < SeqSpace
  BY <1>2, HalfSpaceAssumption, TrackerAssumption DEF SeqNum, SeqSpace
<1>6. g \in SeqNum
  BY <1>2, <1>4, PlusDist
<1>7. Dist(f, e) + k < HalfSpace
  <2>1. CASE k = 0
    BY <1>4, <2>1
  <2>2. CASE k > 0
    <3> DEFINE y == Plus(e, k - 1)
    <3>1. k - 1 \in SeqNum
      BY <1>5, <2>2 DEF SeqNum, SeqSpace
    <3>2. y \in SeqNum /\ Dist(e, y) = k - 1
      BY <1>4, <3>1, PlusDist
    <3> HIDE DEF y
    <3>3. y \in R
      <4>1. k - 1 < k
        BY <1>5
      <4> QED BY <1>2, <3>2, <4>1
    <3>4. Dist(f, y) < HalfSpace - 1
      BY <1>3, <3>3 DEF Arc
    <3>5. Dist(f, y) = Dist(f, e) + (k - 1)
      BY <1>4, <1>5, <2>2, <3>2, HalfSpaceAssumption, SMT
      DEF Dist, SeqNum, SeqSpace
    <3> QED BY <1>4, <1>5, <3>4, <3>5
  <2> QED BY <1>5, <2>1, <2>2
<1>8. Dist(f, g) = Dist(f, e) + k
  BY <1>2, <1>4, <1>5, <1>7, HalfSpaceAssumption, SMT
  DEF Dist, Plus, SeqNum, SeqSpace
<1>9. ASSUME NEW y \in R
      PROVE  y \in a.receivedSeqs \/ Dist(f, y) < Dist(f, g)
  <2>1. y \in SeqNum /\ Dist(f, y) < HalfSpace
    BY <1>3, <1>9, ArcType
  <2>2. Dist(f, g) < HalfSpace
    BY <1>7, <1>8
  <2>3. IsBehind(y, g) => Dist(f, y) < Dist(f, g)
    BY <1>6, <2>1, <2>2, ArcFacts
  <2> QED BY <1>1, <1>9, <2>3
<1> QED BY <1>1, <1>3, <1>4, <1>5, <1>6, <1>7, <1>8, <1>9 DEF e, g, R

(* What was counted stays so, and the number settled joins it. *)
LEMMA CountedGrows ==
  ASSUME NEW f \in SeqNum, NEW t, TInv(t), t.receivedSeqs \subseteq Arc(f),
         t.expectedSeq \in SeqNum, Dist(f, t.expectedSeq) < HalfSpace,
         NEW x \in Arc(f), NEW a, Settles(t, a, x),
         NEW b \in Arc(f), NEW h \in Arc(f), NEW m \in Arc(f),
         Dist(f, h) <= Dist(f, m)
  PROVE  /\ Counted(t, b, h, f) \subseteq Counted(a, b, m, f)
         /\ Dist(f, b) <= Dist(f, x) /\ Dist(f, x) <= Dist(f, m)
              => Dist(f, x) \in Counted(a, b, m, f)
<1>1. /\ a.expectedSeq \in SeqNum
      /\ Dist(f, t.expectedSeq) <= Dist(f, a.expectedSeq)
      /\ \A y \in t.receivedSeqs \cup {x} :
           y \in a.receivedSeqs \/ Dist(f, y) < Dist(f, a.expectedSeq)
  BY WindowMoves
<1>2. /\ Dist(f, b) \in Nat /\ Dist(f, h) \in Nat /\ Dist(f, m) \in Nat
      /\ Dist(f, x) \in Nat /\ Dist(f, t.expectedSeq) \in Nat
      /\ Dist(f, a.expectedSeq) \in Nat
  BY <1>1, ArcType, DistNat
<1>3. \A k \in SeqNum : Dist(f, Plus(f, k)) = k
  BY PlusDist
<1>4. Plus(f, Dist(f, x)) = x
  BY ArcType
<1>5. ASSUME NEW k \in Counted(t, b, h, f)
      PROVE  k \in Counted(a, b, m, f)
  <2>1. /\ k \in Dist(f, b) .. Dist(f, h)
        /\ k < Dist(f, t.expectedSeq) \/ Plus(f, k) \in t.receivedSeqs
    BY <1>5 DEF Counted
  <2>2. k \in Dist(f, b) .. Dist(f, m) /\ k \in SeqNum
    <3>1. Dist(f, h) \in SeqNum
      BY ArcType
    <3>2. k \in Nat /\ k <= Dist(f, h) /\ Dist(f, b) <= k
      BY <1>2, <2>1
    <3>3. \A i, j \in Nat : j \in SeqNum /\ i <= j => i \in SeqNum
      BY HalfSpaceAssumption DEF SeqNum, SeqSpace
    <3>4. k \in SeqNum
      BY <1>2, <3>1, <3>2, <3>3
    <3> QED BY <1>2, <3>2, <3>4
  <2>3. CASE k < Dist(f, t.expectedSeq)
    <3>1. k < Dist(f, a.expectedSeq)
      BY <1>1, <1>2, <2>1, <2>3
    <3> QED BY <2>2, <3>1 DEF Counted
  <2>4. CASE Plus(f, k) \in t.receivedSeqs
    <3>1. Plus(f, k) \in a.receivedSeqs \/ k < Dist(f, a.expectedSeq)
      BY <1>1, <1>3, <2>2, <2>4
    <3> QED BY <2>2, <3>1 DEF Counted
  <2> QED BY <2>1, <2>3, <2>4
<1>6. ASSUME Dist(f, b) <= Dist(f, x), Dist(f, x) <= Dist(f, m)
      PROVE  Dist(f, x) \in Counted(a, b, m, f)
  <2>1. Dist(f, x) \in Dist(f, b) .. Dist(f, m)
    BY <1>2, <1>6
  <2> QED BY <1>1, <1>4, <2>1 DEF Counted
<1> QED BY <1>5, <1>6

(* A number that does not count is settled: it is late, or it is given up. *)
LEMMA SettledLoss ==
  ASSUME NEW f \in SeqNum, NEW t, NEW b, NEW h, NEW n, LossOf(t, b, h, n, f),
         t.expectedSeq # NoSeq, NEW x \in Arc(f), NEW a, Settles(t, a, x)
  PROVE  LossOf(a, b, h, n, f)
<1>1. /\ TInv(t) /\ t.receivedSeqs \subseteq Arc(f) /\ n \in Nat /\ b # NoSeq
      /\ t.expectedSeq \in SeqNum /\ Dist(f, t.expectedSeq) < HalfSpace
      /\ b \in Arc(f) /\ h \in Arc(f) /\ Dist(f, b) <= Dist(f, h)
      /\ Dist(f, b) < Dist(f, t.expectedSeq)
      /\ n <= Cardinality(Counted(t, b, h, f))
  BY DEF LossOf, TInv, Tracker
<1>2. /\ TInv(a) /\ a.receivedSeqs \subseteq Arc(f) /\ a.expectedSeq \in SeqNum
      /\ Dist(f, t.expectedSeq) <= Dist(f, a.expectedSeq)
      /\ Dist(f, a.expectedSeq) < HalfSpace
  BY <1>1, WindowMoves
<1>3. Dist(f, h) <= Dist(f, h) /\ Dist(f, b) < Dist(f, a.expectedSeq)
  <2>1. /\ Dist(f, h) \in Nat /\ Dist(f, b) \in Nat
        /\ Dist(f, t.expectedSeq) \in Nat /\ Dist(f, a.expectedSeq) \in Nat
    BY <1>1, <1>2, ArcType, DistNat
  <2> QED BY <1>1, <1>2, <2>1
<1>4. Counted(t, b, h, f) \subseteq Counted(a, b, h, f)
  BY <1>1, <1>3, CountedGrows
<1>5. n <= Cardinality(Counted(a, b, h, f))
  <2>1. /\ IsFiniteSet(Counted(a, b, h, f))
        /\ Cardinality(Counted(a, b, h, f)) \in Nat
        /\ Cardinality(Counted(t, b, h, f)) \in Nat
    BY <1>1, CountedIsFinite
  <2>2. Cardinality(Counted(t, b, h, f)) <= Cardinality(Counted(a, b, h, f))
    BY <1>4, <2>1, FS_Subset
  <2> QED BY <1>1, <2>1, <2>2
<1>6. NoSeq \notin SeqNum
  BY DEF NoSeq, SeqNum
<1> QED BY <1>1, <1>2, <1>3, <1>5, <1>6 DEF LossOf

(* What the loss window says while there is a baseline. *)
LEMMA LossFacts ==
  ASSUME NEW f \in SeqNum, NEW t, NEW b, NEW h, NEW n, LossOf(t, b, h, n, f),
         t.expectedSeq # NoSeq
  PROVE  /\ TInv(t) /\ t.receivedSeqs \subseteq Arc(f) /\ n \in Nat /\ b # NoSeq
         /\ t.expectedSeq \in SeqNum /\ Dist(f, t.expectedSeq) < HalfSpace
         /\ b \in Arc(f) /\ h \in Arc(f) /\ Dist(f, b) <= Dist(f, h)
         /\ Dist(f, b) < Dist(f, t.expectedSeq)
         /\ n <= Cardinality(Counted(t, b, h, f))
BY DEF LossOf, TInv, Tracker

(* A number at or ahead of the window was not counted yet. *)
LEMMA FreshCounts ==
  ASSUME NEW f \in SeqNum, NEW t, NEW b, NEW h, NEW n, LossOf(t, b, h, n, f),
         t.expectedSeq # NoSeq, NEW x \in Arc(f),
         Classify(t, x) \in {"inOrder", "ahead"}
  PROVE  LossOf(ProcessSequence(t, x), b, Highest(h, x), n + 1, f)
<1> DEFINE a == ProcessSequence(t, x)
           m == Highest(h, x)
           C == Counted(t, b, h, f)
           D == Counted(a, b, m, f)
<1>1. /\ TInv(t) /\ t.receivedSeqs \subseteq Arc(f) /\ n \in Nat /\ b # NoSeq
      /\ t.expectedSeq \in SeqNum /\ Dist(f, t.expectedSeq) < HalfSpace
      /\ b \in Arc(f) /\ h \in Arc(f) /\ Dist(f, b) <= Dist(f, h)
      /\ Dist(f, b) < Dist(f, t.expectedSeq)
      /\ n <= Cardinality(C)
  BY LossFacts
<1>2. x \in SeqNum /\ h \in SeqNum /\ Dist(f, x) < HalfSpace /\ Dist(f, h) < HalfSpace
  BY <1>1, ArcType
<1>3. Settles(t, a, x)
  BY <1>1, <1>2, ProcessSettles
<1>4. x \notin t.receivedSeqs /\ ~ IsBehind(x, t.expectedSeq)
  BY DEF Classify
<1> HIDE DEF a, C, D
<1>5. /\ Dist(f, b) \in Nat /\ Dist(f, h) \in Nat /\ Dist(f, x) \in Nat
      /\ Dist(f, t.expectedSeq) \in Nat
  BY <1>1, <1>2, DistNat, ArcType
<1>6. Dist(f, t.expectedSeq) <= Dist(f, x)
  BY <1>1, <1>2, <1>4, <1>5, ArcFacts
<1>7. /\ m \in Arc(f) /\ Dist(f, h) <= Dist(f, m) /\ Dist(f, x) <= Dist(f, m)
  <2>1. IsAhead(x, h) <=> Dist(f, x) > Dist(f, h)
    BY <1>2, ArcFacts
  <2> QED BY <1>1, <1>5, <2>1 DEF Highest
<1> HIDE DEF m
<1>8. Dist(f, m) \in Nat /\ Dist(f, b) <= Dist(f, m) /\ Dist(f, b) <= Dist(f, x)
  <2>1. Dist(f, m) \in Nat
    BY <1>7, ArcType
  <2> QED BY <1>1, <1>5, <1>6, <1>7, <2>1
<1>9. C \subseteq D /\ Dist(f, x) \in D
  BY <1>1, <1>3, <1>7, <1>8, CountedGrows DEF C, D
<1>10. Dist(f, x) \notin C
  <2>1. Plus(f, Dist(f, x)) = x
    BY ArcType
  <2>2. ~ (Dist(f, x) < Dist(f, t.expectedSeq))
    BY <1>5, <1>6
  <2> QED BY <1>4, <2>1, <2>2 DEF C, Counted
<1>11. n + 1 <= Cardinality(D)
  <2>1. IsFiniteSet(C) /\ Cardinality(C) \in Nat
    BY <1>1, CountedIsFinite DEF C
  <2>2. IsFiniteSet(D) /\ Cardinality(D) \in Nat
    BY <1>1, <1>7, <1>8, CountedIsFinite DEF D
  <2>3. Cardinality(C \cup {Dist(f, x)}) = Cardinality(C) + 1
    BY <1>10, <2>1, FS_AddElement
  <2>4. C \cup {Dist(f, x)} \in SUBSET D
    BY <1>9
  <2>5. Cardinality(C \cup {Dist(f, x)}) <= Cardinality(D)
    BY <2>2, <2>4, FS_Subset
  <2> QED BY <1>1, <2>1, <2>2, <2>3, <2>5
<1>12. /\ TInv(a) /\ a.receivedSeqs \subseteq Arc(f) /\ a.expectedSeq \in SeqNum
       /\ Dist(f, t.expectedSeq) <= Dist(f, a.expectedSeq)
       /\ Dist(f, a.expectedSeq) < HalfSpace
  BY <1>1, <1>3, WindowMoves
<1>13. Dist(f, b) < Dist(f, a.expectedSeq)
  <2>1. Dist(f, a.expectedSeq) \in Nat
    BY <1>12, DistNat
  <2> QED BY <1>1, <1>5, <1>12, <2>1
<1>14. NoSeq \notin SeqNum /\ n + 1 \in Nat
  BY <1>1 DEF NoSeq, SeqNum
<1> QED BY <1>1, <1>7, <1>8, <1>11, <1>12, <1>13, <1>14 DEF LossOf, D, a, m

(* A new baseline is one number counted. *)
LEMMA BaselineLoss ==
  ASSUME NEW f \in SeqNum, NEW x \in Arc(f), NEW a, TInv(a),
         a.expectedSeq = Succ(x), a.receivedSeqs = {x}
  PROVE  LossOf(a, x, x, 1, f)
<1>1. x \in SeqNum /\ Dist(f, x) \in Nat /\ Dist(f, x) < HalfSpace - 1
      /\ Plus(f, Dist(f, x)) = x
  BY ArcType
<1>2. Dist(f, Succ(x)) = Dist(f, x) + 1 /\ Succ(x) \in SeqNum
  BY <1>1, HalfSpaceAssumption, SMT DEF Dist, Succ, Plus, SeqNum, SeqSpace
<1>3. x # NoSeq /\ Succ(x) # NoSeq
  BY <1>1, <1>2 DEF NoSeq, SeqNum
<1>4. Counted(a, x, x, f) = {Dist(f, x)}
  <2>1. Dist(f, x) .. Dist(f, x) = {Dist(f, x)}
    BY <1>1
  <2> QED BY <1>1, <2>1 DEF Counted
<1>5. Cardinality(Counted(a, x, x, f)) = 1
  BY <1>4, FS_Singleton
<1>6. HalfSpace \in Nat
  BY HalfSpaceAssumption
<1>7. Dist(f, x) <= Dist(f, x) /\ Dist(f, x) < Dist(f, x) + 1
      /\ Dist(f, x) + 1 < HalfSpace /\ 1 <= 1 /\ 1 \in Nat
  BY <1>1, <1>6
<1> QED BY <1>2, <1>3, <1>5, <1>7 DEF LossOf

(* No number of the arc is exactly half the space away from the window. *)
LEMMA NotHalfRange ==
  ASSUME NEW f \in SeqNum, NEW t, t.expectedSeq \in SeqNum,
         Dist(f, t.expectedSeq) < HalfSpace, NEW x \in Arc(f)
  PROVE  Classify(t, x) # "halfRange"
<1>1. x \in SeqNum /\ Dist(f, x) < HalfSpace
  BY ArcType
<1>2. /\ IsAhead(x, t.expectedSeq) <=> Dist(f, x) > Dist(f, t.expectedSeq)
      /\ IsBehind(x, t.expectedSeq) <=> Dist(f, x) < Dist(f, t.expectedSeq)
      /\ x = t.expectedSeq <=> Dist(f, x) = Dist(f, t.expectedSeq)
      /\ Dist(f, x) \in Nat /\ Dist(f, t.expectedSeq) \in Nat
  BY <1>1, ArcFacts
<1>3. \/ IsAhead(x, t.expectedSeq) \/ IsBehind(x, t.expectedSeq)
      \/ x = t.expectedSeq
  BY <1>2
<1> QED BY <1>3 DEF Classify

(* A number that is missing lies on the arc. *)
LEMMA MissingOnArc ==
  ASSUME NEW f \in SeqNum, NEW t, TInv(t), t.receivedSeqs \subseteq Arc(f),
         t.expectedSeq \in SeqNum, Dist(f, t.expectedSeq) < HalfSpace,
         NEW x \in t.nakTimers
  PROVE  x \in Arc(f)
<1> DEFINE e == t.expectedSeq
<1>1. x \in SeqNum /\ \E r \in BufferedAhead(t) : Dist(e, x) < Dist(e, r)
  BY DEF TInv, Missing
<1>2. PICK r \in Arc(f) : Dist(e, x) < Dist(e, r) /\ IsAhead(r, e)
  BY <1>1 DEF BufferedAhead
<1>3. /\ r \in SeqNum /\ Dist(f, r) < HalfSpace /\ Dist(f, r) < HalfSpace - 1
      /\ Dist(f, r) \in Nat
  BY ArcType
<1>4. /\ Dist(f, r) > Dist(f, e) /\ Dist(f, e) \in Nat
      /\ Dist(f, e) <= Dist(f, r) => Dist(e, r) = Dist(f, r) - Dist(f, e)
  BY <1>2, <1>3, ArcFacts
<1>5. Dist(e, r) = Dist(f, r) - Dist(f, e)
  BY <1>3, <1>4
<1>6. Dist(e, x) \in Nat
  BY <1>1, DistNat
<1>7. Dist(f, e) + Dist(e, x) < HalfSpace - 1
  BY <1>2, <1>3, <1>4, <1>5, <1>6, HalfSpaceAssumption
<1>8. Dist(f, x) = Dist(f, e) + Dist(e, x)
  BY <1>1, <1>7, HalfSpaceAssumption, SMT DEF Dist, SeqNum, SeqSpace
<1> QED BY <1>1, <1>7, <1>8 DEF Arc

(* The NAK timer of a missing number, and the flush. *)
LEMMA TimerLoss ==
  ASSUME NEW f \in SeqNum, NEW t, NEW b, NEW h, NEW n, LossOf(t, b, h, n, f),
         NEW x \in t.nakTimers
  PROVE  LossOf(FlushNAKs(FireNAKTimer(t, x)), b, h, n, f)
<1> DEFINE u == FireNAKTimer(t, x)
           a == FlushNAKs(u)
<1>1. t.expectedSeq # NoSeq
  <2>1. Missing(t) # {} /\ EmptyWithoutBaseline(t)
    BY DEF LossOf, TInv
  <2> QED BY <2>1 DEF Missing, BufferedAhead, EmptyWithoutBaseline
<1>2. /\ TInv(t) /\ t.receivedSeqs \subseteq Arc(f)
      /\ t.expectedSeq \in SeqNum /\ Dist(f, t.expectedSeq) < HalfSpace
  BY <1>1, LossFacts
<1>3. x \in Arc(f)
  BY <1>2, MissingOnArc
<1>4. LossOf(u, b, h, n, f)
  <2>1. CASE GivesUp(t, x)
    <3> DEFINE fired == [t EXCEPT !.nakTimers = @ \ {x}]
    <3>1. Settles(t, AbandonSequence(fired, x), x)
      BY <1>2, AbandonSettles
    <3>2. x \notin t.receivedSeqs
      BY <2>1 DEF GivesUp
    <3>3. u = AbandonSequence(fired, x)
      <4>1. GivesUp(t, x) /\ x \notin t.receivedSeqs
        BY <2>1, <3>2
      <4> QED BY <4>1 DEF FireNAKTimer
    <3> QED BY <1>1, <1>3, <3>1, <3>3, SettledLoss
  <2>2. CASE ~ GivesUp(t, x)
    <3>1. /\ TInv(u) /\ u.expectedSeq = t.expectedSeq
          /\ u.receivedSeqs = t.receivedSeqs
      BY <1>2, <2>2, RearmInv
    <3> HIDE DEF u
    <3> QED BY <3>1 DEF LossOf, Counted
  <2> QED BY <2>1, <2>2
<1> HIDE DEF u
<1>5. /\ TInv(a) /\ a.expectedSeq = u.expectedSeq
      /\ a.receivedSeqs = u.receivedSeqs
  BY <1>4, FlushInv DEF LossOf
<1> HIDE DEF a
<1>6. LossOf(a, b, h, n, f)
  BY <1>4, <1>5 DEF LossOf, Counted
<1> QED BY <1>6 DEF a, u

-----------------------------------------------------------------------------
(* A session whose loss window is sound. *)
LossOK(s, f) ==
  s \in Session /\ LossOf(s.tracker, s.base, s.highest, s.count, f)

LEMMA LossRecord ==
  ASSUME NEW f \in SeqNum, NEW t, NEW heard \in BOOLEAN, NEW b, NEW h, NEW n,
         LossOf(t, b, h, n, f)
  PROVE  LossOK([tracker |-> t, heard |-> heard, base |-> b, highest |-> h,
                 count |-> n], f)
<1> DEFINE s == [tracker |-> t, heard |-> heard, base |-> b, highest |-> h,
                 count |-> n]
<1>1. /\ t \in Tracker /\ n \in Nat
      /\ b \in SeqNum \cup {NoSeq} /\ h \in SeqNum \cup {NoSeq}
  BY DEF LossOf, TInv, Arc
<1>2. s \in Session
  BY <1>1 DEF Session
<1>3. LossOf(s.tracker, s.base, s.highest, s.count, f)
  OBVIOUS
<1> HIDE DEF s
<1>4. LossOK(s, f)
  BY <1>2, <1>3 DEF LossOK
<1> QED BY <1>4 DEF s

LEMMA LossShape ==
  ASSUME NEW f \in SeqNum, NEW s, LossOK(s, f)
  PROVE  /\ s = [tracker |-> s.tracker, heard |-> s.heard, base |-> s.base,
                 highest |-> s.highest, count |-> s.count]
         /\ s.heard \in BOOLEAN
         /\ LossOf(s.tracker, s.base, s.highest, s.count, f)
BY DEF LossOK, Session

(* Nothing is counted without a baseline. *)
LEMMA NothingCounted ==
  ASSUME NEW f \in SeqNum, NEW t, TInv(t), t.expectedSeq = NoSeq
  PROVE  LossOf(t, NoSeq, NoSeq, 0, f)
BY DEF LossOf, TInv, EmptyWithoutBaseline

LEMMA NewLoss ==
  ASSUME NEW f \in SeqNum
  PROVE  LossOK(NewSession, f)
<1>1. NewTracker.expectedSeq = NoSeq
  BY DEF NewTracker
<1>2. LossOf(NewTracker, NoSeq, NoSeq, 0, f)
  BY <1>1, NewTrackerInv, NothingCounted
<1> QED BY <1>2, LossRecord DEF NewSession

LEMMA RestartLoss ==
  ASSUME NEW f \in SeqNum, NEW s, LossOK(s, f)
  PROVE  LossOK(RestartSession(s), f)
<1> DEFINE t == ResetTracker(s.tracker)
<1>1. /\ s = [tracker |-> s.tracker, heard |-> s.heard, base |-> s.base,
              highest |-> s.highest, count |-> s.count]
      /\ s.heard \in BOOLEAN /\ s.tracker \in Tracker
  BY LossShape DEF LossOf, TInv
<1>2. TInv(t) /\ t.expectedSeq = NoSeq
  BY <1>1, ResetInv
<1> HIDE DEF t
<1>3. LossOf(t, NoSeq, NoSeq, 0, f)
  BY <1>2, NothingCounted
<1>4. RestartSession(s) = [tracker |-> t, heard |-> s.heard, base |-> NoSeq,
                           highest |-> NoSeq, count |-> 0]
  <2>1. PICK r : r = RestartSession(s)
    OBVIOUS
  <2>2. r = [s EXCEPT !.tracker = t, !.base = NoSeq, !.highest = NoSeq,
                      !.count = 0]
    BY <2>1 DEF RestartSession, t
  <2>3. r = [tracker |-> t, heard |-> s.heard, base |-> NoSeq,
             highest |-> NoSeq, count |-> 0]
    BY <1>1, <2>2
  <2> QED BY <2>1, <2>3
<1> QED BY <1>1, <1>3, <1>4, LossRecord

LEMMA TimedLoss ==
  ASSUME NEW f \in SeqNum, NEW s, LossOK(s, f), NEW x \in s.tracker.nakTimers
  PROVE  LossOK([s EXCEPT !.tracker = FlushNAKs(FireNAKTimer(@, x))], f)
<1> DEFINE t == FlushNAKs(FireNAKTimer(s.tracker, x))
<1>1. /\ s = [tracker |-> s.tracker, heard |-> s.heard, base |-> s.base,
              highest |-> s.highest, count |-> s.count]
      /\ s.heard \in BOOLEAN
      /\ LossOf(t, s.base, s.highest, s.count, f)
  BY LossShape, TimerLoss
<1> HIDE DEF t
<1>2. PICK r : r = [s EXCEPT !.tracker = t]
  OBVIOUS
<1>3. r = [tracker |-> t, heard |-> s.heard, base |-> s.base,
           highest |-> s.highest, count |-> s.count]
  BY <1>1, <1>2
<1>4. LossOK(r, f)
  BY <1>1, <1>3, LossRecord
<1> QED BY <1>2, <1>4 DEF t

(* What trackDataSequence makes of a session: s1 if the number was not     *)
(* fresh, s2 if it was.                                                    *)
LEMMA DataLoss ==
  ASSUME NEW f \in SeqNum, NEW s, LossOK(s, f), NEW x \in Arc(f)
  PROVE  LET after == [s EXCEPT !.tracker = ProcessSequence(@, x)]
             fresh == UpdateLossWindow([after EXCEPT !.heard = TRUE], x,
                                       Resyncs(s.tracker, x))
         IN  /\ ~ IsFreshData(s.tracker, x) => LossOK(after, f)
             /\ IsFreshData(s.tracker, x) => LossOK(fresh, f)
<1> DEFINE t == s.tracker
           a == ProcessSequence(t, x)
           after == [s EXCEPT !.tracker = ProcessSequence(@, x)]
           heard == [after EXCEPT !.heard = TRUE]
           fresh == UpdateLossWindow(heard, x, Resyncs(t, x))
<1>1. /\ s = [tracker |-> s.tracker, heard |-> s.heard, base |-> s.base,
              highest |-> s.highest, count |-> s.count]
      /\ s.heard \in BOOLEAN
      /\ LossOf(t, s.base, s.highest, s.count, f)
  BY LossShape
<1>2. /\ TInv(t) /\ t \in Tracker /\ x \in SeqNum
      /\ s.base = NoSeq <=> t.expectedSeq = NoSeq
  BY <1>1, ArcType DEF LossOf, TInv
<1>3. after = [tracker |-> a, heard |-> s.heard, base |-> s.base,
               highest |-> s.highest, count |-> s.count]
  <2>1. PICK r : r = after
    OBVIOUS
  <2>2. r = [s EXCEPT !.tracker = a]
    BY <2>1
  <2> HIDE DEF a
  <2>3. r = [tracker |-> a, heard |-> s.heard, base |-> s.base,
             highest |-> s.highest, count |-> s.count]
    BY <1>1, <2>2
  <2> QED BY <2>1, <2>3
<1> HIDE DEF after
<1>4. heard = [tracker |-> a, heard |-> TRUE, base |-> s.base,
               highest |-> s.highest, count |-> s.count]
  <2> HIDE DEF a
  <2>1. PICK r : r = heard
    OBVIOUS
  <2>2. r = [after EXCEPT !.heard = TRUE]
    BY <2>1
  <2> HIDE DEF heard
  <2>3. r = [tracker |-> a, heard |-> TRUE, base |-> s.base,
             highest |-> s.highest, count |-> s.count]
    BY <1>3, <2>2
  <2> QED BY <2>1, <2>3
<1> HIDE DEF heard
<1>5. /\ Resyncs(t, x) \/ s.base = NoSeq =>
           fresh = [tracker |-> a, heard |-> TRUE, base |-> x,
                    highest |-> x, count |-> 1]
      /\ ~ (Resyncs(t, x) \/ s.base = NoSeq) =>
           fresh = [tracker |-> a, heard |-> TRUE, base |-> s.base,
                    highest |-> Highest(s.highest, x), count |-> s.count + 1]
  <2> HIDE DEF a
  <2>1. heard.base = s.base
    BY <1>4
  <2>2. fresh = IF Resyncs(t, x) \/ s.base = NoSeq
                THEN [heard EXCEPT !.base = x, !.highest = x, !.count = 1]
                ELSE [heard EXCEPT !.count = @ + 1, !.highest = Highest(@, x)]
    BY <2>1 DEF UpdateLossWindow
  <2>3. CASE Resyncs(t, x) \/ s.base = NoSeq
    <3>1. fresh = [heard EXCEPT !.base = x, !.highest = x, !.count = 1]
      BY <2>2, <2>3
    <3> HIDE DEF fresh
    <3> QED BY <1>4, <2>3, <3>1
  <2>4. CASE ~ (Resyncs(t, x) \/ s.base = NoSeq)
    <3>1. fresh = [heard EXCEPT !.count = @ + 1, !.highest = Highest(@, x)]
      BY <2>2, <2>4
    <3> HIDE DEF fresh
    <3> QED BY <1>4, <2>4, <3>1
  <2> QED BY <2>3, <2>4
<1>6. CASE Classify(t, x) = "first"
  <2>1. t.expectedSeq = NoSeq /\ t.receivedSeqs = {} /\ t.nakTimers = {}
        /\ t.nakAttempts = [y \in SeqNum |-> 0] /\ t.pendingNAKs = {}
    <3>1. t.expectedSeq = NoSeq
      BY <1>6 DEF Classify
    <3>2. t.receivedSeqs = {} /\ t.nakTimers = {} /\ t.pendingNAKs = {}
      BY <1>2, <3>1
      DEF TInv, EmptyWithoutBaseline, Missing, BufferedAhead, StateNeedsTimer
    <3>3. \A y \in SeqNum : t.nakAttempts[y] = 0
      <4>1. /\ t.nakAttempts \in [SeqNum -> 0 .. MaxNakRounds]
            /\ \A y \in SeqNum : ~ (t.nakAttempts[y] > 0)
        BY <1>2, <3>2, TrackerFields DEF TInv, StateNeedsTimer
      <4> QED BY <4>1, TrackerAssumption
    <3> QED BY <1>2, <3>1, <3>2, <3>3, TrackerFields
  <2>2. a = [t EXCEPT !.receivedSeqs = @ \cup {x}, !.expectedSeq = Succ(x)]
    BY <1>6 DEF ProcessSequence
  <2>3. Succ(x) \in SeqNum
    BY <1>2, HalfSpaceAssumption, SMT DEF Succ, Plus, SeqNum, SeqSpace
  <2> HIDE DEF a
  <2>4. /\ a \in Tracker /\ a.expectedSeq = Succ(x) /\ a.receivedSeqs = {x}
        /\ a.nakTimers = {} /\ a.nakAttempts = [y \in SeqNum |-> 0]
        /\ a.pendingNAKs = {}
    BY <1>2, <2>1, <2>2, <2>3 DEF Tracker
  <2>5. LossOf(a, x, x, 1, f)
    BY <1>2, <2>4, BaselineInv, BaselineLoss
  <2>6. IsFreshData(t, x) /\ Resyncs(t, x)
    BY <1>6 DEF IsFreshData, Resyncs
  <2> QED BY <1>5, <2>5, <2>6, LossRecord DEF heard, after
<1>7. CASE Classify(t, x) = "resync"
  <2>1. a = Resync(t, x)
    BY <1>7 DEF ProcessSequence
  <2> HIDE DEF a
  <2>2. LossOf(a, x, x, 1, f)
    BY <1>2, <2>1, ResyncInv, BaselineLoss
  <2>3. IsFreshData(t, x) /\ Resyncs(t, x)
    BY <1>7 DEF IsFreshData, Resyncs
  <2> QED BY <1>5, <2>2, <2>3, LossRecord DEF heard, after
<1>8. CASE Classify(t, x) = "duplicate"
  <2>1. a = t
    BY <1>8 DEF ProcessSequence
  <2>2. ~ IsFreshData(t, x)
    BY <1>8 DEF IsFreshData
  <2> HIDE DEF a
  <2> QED BY <1>1, <1>3, <2>1, <2>2, LossRecord DEF after
<1>9. ASSUME Classify(t, x) \in {"late", "inOrder", "ahead"}
      PROVE  t.expectedSeq # NoSeq /\ t.expectedSeq \in SeqNum
  <2>1. t.expectedSeq # NoSeq
    BY <1>9 DEF Classify
  <2> QED BY <1>2, <2>1 DEF Tracker
<1>10. CASE Classify(t, x) = "late"
  <2>1. Settles(t, a, x) /\ t.expectedSeq # NoSeq
    BY <1>2, <1>9, <1>10, ProcessSettles
  <2>2. ~ IsFreshData(t, x)
    BY <1>10 DEF IsFreshData
  <2> HIDE DEF a
  <2>3. LossOf(a, s.base, s.highest, s.count, f)
    BY <1>1, <2>1, SettledLoss
  <2> QED BY <1>1, <1>3, <2>2, <2>3, LossRecord DEF after
<1>11. CASE Classify(t, x) \in {"inOrder", "ahead"}
  <2>1. LossOf(a, s.base, Highest(s.highest, x), s.count + 1, f)
    BY <1>1, <1>9, <1>11, FreshCounts
  <2>2. IsFreshData(t, x) /\ ~ (Resyncs(t, x) \/ s.base = NoSeq)
    BY <1>2, <1>9, <1>11 DEF IsFreshData, Resyncs
  <2> QED BY <1>5, <2>1, <2>2, LossRecord DEF heard, after
<1>12. Classify(t, x) \in {"first", "duplicate", "resync", "late", "inOrder",
                           "ahead", "halfRange"}
  BY DEF Classify
<1>13. Classify(t, x) # "halfRange"
  <2>1. CASE t.expectedSeq = NoSeq
    BY <2>1 DEF Classify
  <2>2. CASE t.expectedSeq # NoSeq
    BY <1>1, <2>2, LossFacts, NotHalfRange
  <2> QED BY <2>1, <2>2
<1> QED BY <1>6, <1>7, <1>8, <1>10, <1>11, <1>12, <1>13

-----------------------------------------------------------------------------
(* The numbers of p lie on an arc that ends one number short of half the   *)
(* space, and its loss window is sound on it.                              *)
PeerLoss(p, s) ==
  \E f \in SeqNum : /\ \A d \in Payloads(p) : NumberOf(p, d) \in Arc(f)
                    /\ LossOK(s, f)

LossSound == \A p \in Peers : PeerLoss(p, sessions[p])

(* What the steps that count nothing make of the session s.                *)
Uncounted(s) == {s, NewSession, RestartSession(s)}

LEMMA UncountedSound ==
  ASSUME NEW p \in Peers, NEW s, PeerLoss(p, s), NEW r \in Uncounted(s)
  PROVE  PeerLoss(p, r)
<1>1. PICK f \in SeqNum : /\ \A d \in Payloads(p) : NumberOf(p, d) \in Arc(f)
                          /\ LossOK(s, f)
  BY DEF PeerLoss
<1>2. LossOK(NewSession, f) /\ LossOK(RestartSession(s), f)
  BY <1>1, NewLoss, RestartLoss
<1> QED BY <1>1, <1>2 DEF PeerLoss, Uncounted

LEMMA DroppedSessions ==
  ASSUME NEW t, Typed(t), NEW k
  PROVE  \A q \in Peers :
           WithoutOldest(t, k).sessions[q] \in {t.sessions[q], NewSession}
<1> DEFINE ss == [q \in Peers |-> IF \E i \in 1 .. k : t.sessionLru[i] = q
                                  THEN NewSession ELSE t.sessions[q]]
           lru == SubSeq(t.sessionLru, k + 1, Len(t.sessionLru))
<1>1. \A q \in Peers : ss[q] \in {t.sessions[q], NewSession}
  OBVIOUS
<1>2. WithoutOldest(t, k) = [t EXCEPT !.sessions = ss, !.sessionLru = lru]
  BY DEF WithoutOldest, Typed
<1> HIDE DEF ss, lru
<1>3. WithoutOldest(t, k).sessions = ss
  BY <1>2 DEF Typed
<1> QED BY <1>1, <1>3

LEMMA FoundSessions ==
  ASSUME NEW t, Typed(t), NEW p \in Peers
  PROVE  \A q \in Peers : GetOrCreateSession(t, p).sessions[q]
                            \in {t.sessions[q], NewSession}
<1> DEFINE u == GetOrCreateSession(t, p)
           room == EvictOldestSessionIfFull(t)
<1>1. CASE HasSession(t, p)
  <2> DEFINE lru == Touched(t.sessionLru, p)
  <2>1. u = [t EXCEPT !.sessionLru = lru]
    BY <1>1 DEF GetOrCreateSession, Typed
  <2> HIDE DEF u, lru
  <2>2. u.sessions = t.sessions
    BY <2>1 DEF Typed
  <2> QED BY <2>2 DEF u
<1>2. CASE ~ HasSession(t, p)
  <2>1. u = IF AddressIsFull(room, AddressOf[p]) THEN room
            ELSE [room EXCEPT !.sessionLru = Append(@, p)]
    BY <1>2 DEF GetOrCreateSession
  <2>2. room \in {t, WithoutOldest(t, 1)}
    BY DEF EvictOldestSessionIfFull
  <2> HIDE DEF u, room
  <2>3. u.sessions = room.sessions
    <3>1. CASE u = room
      BY <3>1
    <3>2. CASE u = [room EXCEPT !.sessionLru = Append(@, p)]
      <4>1. room = [sessions |-> room.sessions, sessionLru |-> room.sessionLru,
                    guards |-> room.guards, guardLru |-> room.guardLru,
                    addresses |-> room.addresses, handed |-> room.handed]
        <5>1. t = [sessions |-> t.sessions, sessionLru |-> t.sessionLru,
                   guards |-> t.guards, guardLru |-> t.guardLru,
                   addresses |-> t.addresses, handed |-> t.handed]
          BY DEF Typed
        <5>2. CASE room = t
          BY <5>1, <5>2
        <5>3. CASE room = WithoutOldest(t, 1)
          <6> DEFINE ss == [q \in Peers |->
                              IF \E i \in 1 .. 1 : t.sessionLru[i] = q
                              THEN NewSession ELSE t.sessions[q]]
                     lru == SubSeq(t.sessionLru, 1 + 1, Len(t.sessionLru))
          <6>1. room = [t EXCEPT !.sessions = ss, !.sessionLru = lru]
            BY <5>1, <5>3 DEF WithoutOldest
          <6> HIDE DEF ss, lru
          <6> QED BY <5>1, <6>1
        <5> QED BY <2>2, <5>2, <5>3
      <4> QED BY <3>2, <4>1
    <3> QED BY <2>1, <3>1, <3>2
  <2>4. \A q \in Peers : room.sessions[q] \in {t.sessions[q], NewSession}
    BY <2>2, DroppedSessions
  <2> QED BY <2>3, <2>4 DEF u
<1> QED BY <1>1, <1>2

LEMMA HelloSessions ==
  ASSUME NEW t, NEW p \in Peers, Typed(t), Agree(t, {p}),
         IsLast(t.sessionLru, p), NEW epoch
  PROVE  \A q \in Peers : HandleHello(t, p, epoch).sessions[q]
                            \in {t.sessions[q], RestartSession(t.sessions[q])}
<1> DEFINE v == GetReplayGuard(t, p)
           w == [v EXCEPT !.guards[p].handshaked = TRUE]
           x == MarkPeerHandshaked(t, p)
           y == RaiseEpoch(x, p, epoch)
           u == HandleHello(t, p, epoch)
<1>1. /\ v.sessions = t.sessions
      /\ v = [sessions |-> v.sessions, sessionLru |-> v.sessionLru,
              guards |-> v.guards, guardLru |-> v.guardLru,
              addresses |-> v.addresses, handed |-> v.handed]
      /\ t.sessions = [q \in Peers |-> t.sessions[q]]
  BY GuardKeeps DEF Typed
<1>2. x = MarkHandshakedAddress(w, AddressOf[p])
  BY DEF MarkPeerHandshaked
<1> HIDE DEF v
<1>3. PICK g : w = [v EXCEPT !.guards = g]
  OBVIOUS
<1> HIDE DEF w
<1>4. /\ w.sessions = t.sessions
      /\ w = [sessions |-> w.sessions, sessionLru |-> w.sessionLru,
              guards |-> w.guards, guardLru |-> w.guardLru,
              addresses |-> w.addresses, handed |-> w.handed]
  BY <1>1, <1>3
<1>5. PICK as : MarkHandshakedAddress(w, AddressOf[p]) = [w EXCEPT !.addresses = as]
  BY DEF MarkHandshakedAddress
<1> HIDE DEF x
<1>6. /\ x.sessions = t.sessions
      /\ x = [sessions |-> x.sessions, sessionLru |-> x.sessionLru,
              guards |-> x.guards, guardLru |-> x.guardLru,
              addresses |-> x.addresses, handed |-> x.handed]
  BY <1>2, <1>4, <1>5
<1>7. PICK gs, hs : RaiseEpoch(x, p, epoch) = [x EXCEPT !.guards = gs, !.handed = hs]
  BY DEF RaiseEpoch
<1> HIDE DEF y
<1>8. /\ y.sessions = t.sessions
      /\ y = [sessions |-> y.sessions, sessionLru |-> y.sessionLru,
              guards |-> y.guards, guardLru |-> y.guardLru,
              addresses |-> y.addresses, handed |-> y.handed]
  BY <1>6, <1>7 DEF y
<1>9. u = IF epoch <= x.guards[p].epoch THEN x
          ELSE [y EXCEPT !.sessions[p] = RestartSession(@)]
  BY DEF HandleHello, x, y
<1> HIDE DEF u
<1>10. CASE u = x
  BY <1>6, <1>10 DEF u
<1>11. CASE u = [y EXCEPT !.sessions[p] = RestartSession(@)]
  <2>1. u = [y EXCEPT !.sessions = [t.sessions EXCEPT
                                      ![p] = RestartSession(t.sessions[p])]]
    BY <1>8, <1>11
  <2>2. u.sessions = [t.sessions EXCEPT ![p] = RestartSession(t.sessions[p])]
    BY <1>8, <2>1
  <2>3. \A q \in Peers :
          u.sessions[q] \in {t.sessions[q], RestartSession(t.sessions[q])}
    BY <1>1, <2>2
  <2> QED BY <2>3 DEF u
<1> QED BY <1>9, <1>10, <1>11

(* The session after a number has been tracked. *)
TrackedSession(s, x) ==
  LET after == [s EXCEPT !.tracker = ProcessSequence(@, x)]
  IN  IF ~ IsFreshData(s.tracker, x) THEN after
      ELSE UpdateLossWindow([after EXCEPT !.heard = TRUE], x,
                            Resyncs(s.tracker, x))

LEMMA TrackedSound ==
  ASSUME NEW p \in Peers, NEW s, PeerLoss(p, s), NEW d \in Payloads(p)
  PROVE  PeerLoss(p, TrackedSession(s, NumberOf(p, d)))
<1>1. PICK f \in SeqNum : /\ \A e \in Payloads(p) : NumberOf(p, e) \in Arc(f)
                          /\ LossOK(s, f)
  BY DEF PeerLoss
<1> DEFINE x == NumberOf(p, d)
           after == [s EXCEPT !.tracker = ProcessSequence(@, x)]
           fresh == UpdateLossWindow([after EXCEPT !.heard = TRUE], x,
                                     Resyncs(s.tracker, x))
<1>2. x \in Arc(f)
  BY <1>1
<1>3. TrackedSession(s, x) = IF ~ IsFreshData(s.tracker, x) THEN after ELSE fresh
  BY DEF TrackedSession
<1> HIDE DEF x
<1>4. /\ ~ IsFreshData(s.tracker, x) => LossOK(after, f)
      /\ IsFreshData(s.tracker, x) => LossOK(fresh, f)
  BY <1>1, <1>2, DataLoss
<1> HIDE DEF after, fresh
<1>5. LossOK(TrackedSession(s, x), f)
  BY <1>3, <1>4
<1> QED BY <1>1, <1>5 DEF PeerLoss, x

LEMMA DataSessions ==
  ASSUME NEW t, NEW p \in Peers, Typed(t), Agree(t, {p}),
         IsLast(t.sessionLru, p), NEW d \in Payloads(p)
  PROVE  LET u == HandleData(t, p, d) IN
         \/ u.sessions = t.sessions
         \/ u.sessions = [t.sessions EXCEPT
                            ![p] = TrackedSession(@, NumberOf(p, d))]
<1> DEFINE v == GetReplayGuard(t, p)
           n == NumberOf(p, d)
           w == [v EXCEPT !.guards[p].window = Accept(@, n)]
           u == HandleData(t, p, d)
<1>1. /\ v.sessions = t.sessions
      /\ v = [sessions |-> v.sessions, sessionLru |-> v.sessionLru,
              guards |-> v.guards, guardLru |-> v.guardLru,
              addresses |-> v.addresses, handed |-> v.handed]
  BY GuardKeeps DEF Typed
<1>2. u = IF UnknownPort(v, p) THEN LookUpAddress(v, p)
          ELSE IF Replayed(v.guards[p], n) THEN w
          ELSE TrackData(w, p, d)
  BY DEF HandleData
<1> HIDE DEF v
<1>3. PICK g : w = [v EXCEPT !.guards = g]
  OBVIOUS
<1> HIDE DEF w
<1>4. /\ w.sessions = t.sessions
      /\ w = [sessions |-> w.sessions, sessionLru |-> w.sessionLru,
              guards |-> w.guards, guardLru |-> w.guardLru,
              addresses |-> w.addresses, handed |-> w.handed]
  BY <1>1, <1>3
<1>5. PICK as : LookUpAddress(v, p) = [v EXCEPT !.addresses = as]
  BY DEF LookUpAddress
<1>6. LookUpAddress(v, p).sessions = t.sessions
  BY <1>1, <1>5
<1> DEFINE ss == [w.sessions EXCEPT ![p] = TrackedSession(@, n)]
<1>7. \/ TrackData(w, p, d) = [w EXCEPT !.sessions = ss]
      \/ \E h : TrackData(w, p, d) = [w EXCEPT !.sessions = ss, !.handed = h]
  <2> DEFINE s == w.sessions[p]
             after == [s EXCEPT !.tracker = ProcessSequence(@, n)]
             fresh == UpdateLossWindow([after EXCEPT !.heard = TRUE], n,
                                       Resyncs(s.tracker, n))
  <2>1. TrackedSession(s, n) = IF ~ IsFreshData(s.tracker, n) THEN after ELSE fresh
    BY DEF TrackedSession
  <2>2. CASE ~ IsFreshData(s.tracker, n)
    <3>1. TrackData(w, p, d) = [w EXCEPT !.sessions[p] = after]
      BY <2>2 DEF TrackData
    <3> HIDE DEF after, fresh
    <3>2. TrackedSession(s, n) = after
      BY <2>1, <2>2
    <3> QED BY <3>1, <3>2
  <2>3. CASE IsFreshData(s.tracker, n)
    <3>1. PICK h : TrackData(w, p, d)
                     = [w EXCEPT !.sessions[p] = fresh, !.handed = h]
      BY <2>3 DEF TrackData
    <3> HIDE DEF after, fresh
    <3>2. TrackedSession(s, n) = fresh
      BY <2>1, <2>3
    <3> QED BY <3>1, <3>2
  <2> QED BY <2>2, <2>3
<1> HIDE DEF n, u
<1>8. TrackData(w, p, d).sessions = [t.sessions EXCEPT ![p] = TrackedSession(@, n)]
  <2>1. ss = [t.sessions EXCEPT ![p] = TrackedSession(@, n)]
    BY <1>4
  <2> HIDE DEF ss
  <2>2. TrackData(w, p, d).sessions = ss
    BY <1>4, <1>7
  <2> QED BY <2>1, <2>2
<1> QED BY <1>2, <1>4, <1>6, <1>8 DEF u, n

(* Every step keeps the loss windows sound. *)
LEMMA LossStep ==
  ASSUME ServerIInv, LossSound, [Next]_vars
  PROVE  LossSound'
<1>1. /\ Typed(Tables) /\ Agree(Tables, {}) /\ Tables.sessions = sessions
      /\ sessions = [q \in Peers |-> sessions[q]]
  BY DEF ServerIInv, Tables, Typed
<1>2. \A q \in Peers : PeerLoss(q, sessions[q])
  BY DEF LossSound
<1>3. ASSUME \A q \in Peers : PeerLoss(q, sessions'[q])
      PROVE  LossSound'
  BY <1>3 DEF LossSound, PeerLoss, LossOK, LossOf, TInv
<1>4. ASSUME NEW p \in Peers
      PROVE  LET t == GetOrCreateSession(Tables, p) IN
             /\ Typed(t) /\ Agree(t, {p})
             /\ HasSession(t, p) => IsLast(t.sessionLru, p)
             /\ \A q \in Peers : PeerLoss(q, t.sessions[q])
  <2> DEFINE t == GetOrCreateSession(Tables, p)
  <2>1. /\ Typed(t) /\ Agree(t, {p})
        /\ HasSession(t, p) => IsLast(t.sessionLru, p)
    BY <1>1, SessionKeeps
  <2>2. \A q \in Peers : t.sessions[q] \in {sessions[q], NewSession}
    BY <1>1, FoundSessions
  <2> HIDE DEF t
  <2>3. \A q \in Peers : PeerLoss(q, t.sessions[q])
    BY <1>2, <2>2, UncountedSound DEF Uncounted
  <2> QED BY <2>1, <2>3 DEF t
<1>5. ASSUME NEW p \in Peers, NEW e \in 1 .. Starts[p], ReceiveHello(p, e)
      PROVE  LossSound'
  <2> DEFINE t == GetOrCreateSession(Tables, p)
             epoch == EpochOf(p, e)
             u == HandleHello(t, p, epoch)
  <2>1. SetTables(IF HasSession(t, p) THEN u ELSE t)
    BY <1>5 DEF ReceiveHello
  <2>2. /\ Typed(t) /\ Agree(t, {p})
        /\ HasSession(t, p) => IsLast(t.sessionLru, p)
        /\ \A q \in Peers : PeerLoss(q, t.sessions[q])
    BY <1>4
  <2> HIDE DEF t, epoch
  <2>3. CASE ~ HasSession(t, p)
    <3>1. sessions' = t.sessions
      BY <2>1, <2>3 DEF SetTables
    <3> QED BY <1>3, <2>2, <3>1
  <2>4. CASE HasSession(t, p)
    <3>1. \A q \in Peers :
            u.sessions[q] \in {t.sessions[q], RestartSession(t.sessions[q])}
      BY <2>2, <2>4, HelloSessions
    <3>2. sessions' = u.sessions
      BY <2>1, <2>4 DEF SetTables
    <3> HIDE DEF u
    <3>3. \A q \in Peers : PeerLoss(q, u.sessions[q])
      BY <2>2, <3>1, UncountedSound DEF Uncounted
    <3> QED BY <1>3, <3>2, <3>3
  <2> QED BY <2>3, <2>4
<1>6. ASSUME NEW w \in parked, Decompressed(w)
      PROVE  LossSound'
  <2> DEFINE p == w.peer
             d == w.data
             t == GetOrCreateSession(Tables, p)
             u == HandleData(t, p, d)
  <2>1. SetTables(IF HasSession(t, p) THEN u ELSE t)
    BY <1>6 DEF Decompressed
  <2>2. p \in Peers /\ d \in Payloads(p)
    BY DEF ServerIInv
  <2> HIDE DEF p, d
  <2>3. /\ Typed(t) /\ Agree(t, {p})
        /\ HasSession(t, p) => IsLast(t.sessionLru, p)
        /\ \A q \in Peers : PeerLoss(q, t.sessions[q])
    BY <1>4, <2>2
  <2> HIDE DEF t
  <2>4. CASE ~ HasSession(t, p)
    <3>1. sessions' = t.sessions
      BY <2>1, <2>4 DEF SetTables
    <3> QED BY <1>3, <2>3, <3>1
  <2>5. CASE HasSession(t, p)
    <3> DEFINE ss == [t.sessions EXCEPT ![p] = TrackedSession(@, NumberOf(p, d))]
    <3>1. u.sessions = t.sessions \/ u.sessions = ss
      BY <2>2, <2>3, <2>5, DataSessions
    <3>2. sessions' = u.sessions
      BY <2>1, <2>5 DEF SetTables
    <3> HIDE DEF u
    <3>3. \A q \in Peers : ss[q] = IF q = p THEN TrackedSession(t.sessions[p],
                                                                NumberOf(p, d))
                                   ELSE t.sessions[q]
      BY <2>3 DEF Typed
    <3> HIDE DEF ss
    <3>4. \A q \in Peers : PeerLoss(q, ss[q])
      BY <2>2, <2>3, <3>3, TrackedSound
    <3> QED BY <1>3, <2>3, <3>1, <3>2, <3>4
  <2> QED BY <2>4, <2>5
<1>7. ASSUME NEW p \in Peers, ReceiveMetadata(p)
      PROVE  LossSound'
  <2>1. sessions' = GetOrCreateSession(Tables, p).sessions
    BY <1>7 DEF ReceiveMetadata, SetTables
  <2> QED BY <1>3, <1>4, <2>1
<1>8. ASSUME sessions' = sessions
      PROVE  LossSound'
  BY <1>2, <1>3, <1>8
<1>9. ASSUME NEW k, sessions' = WithoutOldest(Tables, k).sessions
      PROVE  LossSound'
  <2>1. \A q \in Peers : sessions'[q] \in {sessions[q], NewSession}
    BY <1>1, <1>9, DroppedSessions
  <2> QED BY <1>2, <1>3, <2>1, UncountedSound DEF Uncounted
<1>10. ASSUME NEW k \in 1 .. MaxSessions, ExpireIdleSessions(k)
       PROVE  LossSound'
  BY <1>9, <1>10 DEF ExpireIdleSessions, SetTables
<1>11. CASE Stop
  <2> DEFINE v == WithoutOldest(Tables, Len(sessionLru))
  <2>1. PICK g, l, h :
          SetTables([v EXCEPT !.guards = g, !.guardLru = l, !.handed = h])
    BY <1>11 DEF Stop
  <2>2. PICK ss, lru : v = [Tables EXCEPT !.sessions = ss, !.sessionLru = lru]
    BY DEF WithoutOldest
  <2>3. v = [sessions |-> v.sessions, sessionLru |-> v.sessionLru,
             guards |-> v.guards, guardLru |-> v.guardLru,
             addresses |-> v.addresses, handed |-> v.handed]
    <3> HIDE DEF v
    <3> QED BY <2>2 DEF Tables
  <2>4. sessions' = v.sessions
    <3> HIDE DEF v
    <3> QED BY <2>1, <2>3 DEF SetTables
  <2> QED BY <1>9, <2>4
<1>12. ASSUME NEW p \in Peers, NEW x \in SeqNum, NAKTimer(p, x)
       PROVE  LossSound'
  <2> DEFINE s == [sessions[p] EXCEPT !.tracker = FlushNAKs(FireNAKTimer(@, x))]
  <2>1. /\ x \in sessions[p].tracker.nakTimers
        /\ sessions' = [sessions EXCEPT ![p] = s]
    BY <1>12 DEF NAKTimer
  <2>2. PICK f \in SeqNum : /\ \A d \in Payloads(p) : NumberOf(p, d) \in Arc(f)
                            /\ LossOK(sessions[p], f)
    BY <1>2 DEF PeerLoss
  <2>3. LossOK(s, f)
    BY <2>1, <2>2, TimedLoss
  <2> HIDE DEF s
  <2>4. PeerLoss(p, s)
    BY <2>2, <2>3 DEF PeerLoss
  <2>5. \A q \in Peers : sessions'[q] = IF q = p THEN s ELSE sessions[q]
    BY <1>1, <2>1
  <2> QED BY <1>2, <1>3, <2>4, <2>5
<1>13. CASE UNCHANGED vars
  BY <1>8, <1>13 DEF vars, tables
<1>14. CASE \E p \in Peers : ClientStarts(p)
  BY <1>8, <1>14 DEF ClientStarts, tables
<1>15. CASE \E p \in Peers : \E d \in Payloads(p) : ReceiveData(p, d)
  BY <1>8, <1>15 DEF ReceiveData, tables
<1> QED BY <1>5, <1>6, <1>7, <1>10, <1>11, <1>12, <1>13, <1>14, <1>15 DEF Next

(* When the numbers of a client lie within one number less than half the   *)
(* space, everything the runs check of a server's tables holds: types,     *)
(* limits and recency, what is parked is current, what was dispatched is   *)
(* refused, and no session counts more numbers as received than it         *)
(* expected.  One number less, because the number a tracker expects is one *)
(* past the last one received: a number exactly half the space away from   *)
(* it is neither ahead nor behind, and would be counted a second time.     *)
THEOREM ServerStaysSound ==
  ASSUME NumbersWithin(HalfSpace - 1)
  PROVE  Spec => []ServerInv
<1>1. ASSUME NEW p \in Peers
      PROVE  \E f \in SeqNum : \A d \in Payloads(p) : NumberOf(p, d) \in Arc(f)
  <2>1. PICK f \in SeqNum :
          \A d \in Payloads(p) : Dist(f, NumberOf(p, d)) < HalfSpace - 1
    BY DEF NumbersWithin
  <2> QED BY <2>1, NumberType DEF Arc
<1>2. NumbersFit
  <2> SUFFICES ASSUME NEW p \in Peers
               PROVE  \E f \in SeqNum : \A d \in Payloads(p) :
                        Dist(f, NumberOf(p, d)) < HalfSpace
    BY DEF NumbersFit, NumbersWithin
  <2>1. PICK f \in SeqNum : \A d \in Payloads(p) : NumberOf(p, d) \in Arc(f)
    BY <1>1
  <2> QED BY <2>1, ArcType
<1>3. Init => LossSound
  <2> SUFFICES ASSUME Init, NEW p \in Peers
               PROVE  PeerLoss(p, NewSession)
    BY DEF Init, LossSound
  <2>1. PICK f \in SeqNum : \A d \in Payloads(p) : NumberOf(p, d) \in Arc(f)
    BY <1>1
  <2> QED BY <2>1, NewLoss DEF PeerLoss
<1>4. ServerIInv /\ LossSound /\ [Next]_vars => LossSound'
  BY LossStep
<1>5. ServerIInv /\ LossSound => TypeOK
  <2> SUFFICES ASSUME ServerIInv, LossSound PROVE TypeOK
    OBVIOUS
  <2>1. /\ sessions = [p \in Peers |-> sessions[p]]
        /\ sessionLru \in Seq(Peers) /\ guardLru \in Seq(Peers)
        /\ guards \in [Peers -> Guard] /\ addresses \in Seq(Addresses)
        /\ \A p \in Peers : handed[p] \in [Payloads(p) -> 0 .. 2]
    BY DEF ServerIInv, Typed, Tables
  <2>2. \A p \in Peers : sessions[p] \in Session
    BY DEF LossSound, PeerLoss, LossOK
  <2> QED BY <2>1, <2>2 DEF ServerIInv, TypeOK, Addresses
<1>6. LossSound => LossIsARatio
  <2> SUFFICES ASSUME LossSound, NEW p \in Peers
               PROVE  LET s == sessions[p] IN
                      s.count <= IF s.base = NoSeq THEN 0
                                 ELSE Dist(s.base, s.highest) + 1
    BY DEF LossIsARatio
  <2> DEFINE s == sessions[p]
  <2>1. PICK f \in SeqNum : LossOK(s, f)
    BY DEF LossSound, PeerLoss
  <2> HIDE DEF s
  <2>2. LossOf(s.tracker, s.base, s.highest, s.count, f)
    BY <2>1 DEF LossOK
  <2>3. CASE s.base = NoSeq
    BY <2>2, <2>3 DEF LossOf, s
  <2>4. CASE s.base # NoSeq
    <3>1. /\ s.count <= Cardinality(Counted(s.tracker, s.base, s.highest, f))
          /\ Cardinality(Counted(s.tracker, s.base, s.highest, f)) \in Nat
          /\ Cardinality(Counted(s.tracker, s.base, s.highest, f))
               <= Dist(s.base, s.highest) + 1
          /\ s.count \in Nat /\ Dist(s.base, s.highest) \in Nat
      BY <2>2, <2>4, CountedIsFinite, ArcType, DistNat DEF LossOf
    <3>2. s.count <= Dist(s.base, s.highest) + 1
      BY <3>1
    <3> QED BY <2>4, <3>2 DEF s
  <2> QED BY <2>3, <2>4
<1>7. Spec => []LossSound
  BY <1>3, <1>4, ServerSafe, PTL DEF Spec
<1>8. Spec => []WindowsRefuse
  BY <1>2, NothingReplayed, PTL
<1>9. ServerIInv /\ LossSound /\ WindowsRefuse => ServerInv
  BY <1>5, <1>6, AgreeIsTablesInv DEF ServerInv, ServerIInv
<1> QED BY <1>7, <1>8, <1>9, ServerSafe, PTL

=============================================================================
