---------------------------- MODULE ReplayWindow ----------------------------
(***************************************************************************)
(* The replay window of one peer, driven by DATA packets in any order and  *)
(* by HELLOs with a higher epoch (reset).                                  *)
(*                                                                         *)
(* A peer numbers its packets one by one, so an arrival is ahead of the    *)
(* highest one by no more than the packets lost in a row.  That bound,     *)
(* MaxJump, matters: what is left in the set from before the window must   *)
(* be pruned before the numbers come round again.                          *)
(***************************************************************************)
EXTENDS ReplayWindowOps

CONSTANT MaxJump      \* the longest run of packets lost

ASSUME JumpAssumption ==
  /\ MaxJump \in Nat \ {0}
  /\ MaxJump < HalfSpace
  /\ Size + MaxJump * Size + MaxJump < SeqSpace

VARIABLES
  window,       \* ReplayGuard.window
  accepted,     \* history: numbers accepted, back to half the space
  verdict       \* history: the last number received and the result of accept

windowVars == <<window, accepted, verdict>>

Abstract == INSTANCE ReplayFilter WITH highest <- window.highest

WindowInit ==
  /\ window = NewWindow
  /\ accepted = {}
  /\ verdict = [seq |-> NoSeq, fresh |-> FALSE]

(* accept(s), called once for every DATA packet of the peer. *)
Receive(s) ==
  /\ window.highest # NoSeq /\ IsAhead(s, window.highest)
       => Dist(window.highest, s) <= MaxJump
  /\ window' = Accept(window, s)
  /\ verdict' = [seq |-> s, fresh |-> Accepts(window, s)]
  /\ accepted' =
       {t \in IF Accepts(window, s) THEN accepted \cup {s} ELSE accepted :
          Dist(t, window'.highest) < HalfSpace}

(* applyHelloEpoch, for a higher epoch. *)
Reset ==
  /\ window' = NewWindow
  /\ accepted' = {}
  /\ verdict' = [seq |-> NoSeq, fresh |-> FALSE]

WindowNext == Reset \/ \E s \in SeqNum : Receive(s)

WindowSpec == WindowInit /\ [][WindowNext]_windowVars

-----------------------------------------------------------------------------
(* The window keeps its type, and its set stays within twice the window    *)
(* although it is pruned late ("bounding per-peer memory").                *)
WindowTypeOK ==
  /\ window \in ReplayWindow
  /\ Cardinality(window.seen) <= 2 * Size
  /\ accepted \subseteq SeqNum
  /\ verdict \in [seq : SeqNum \cup {NoSeq}, fresh : BOOLEAN]

(* accept is exact: it refuses what was accepted before and what is too    *)
(* old, and nothing else, in spite of the old entries in its set.          *)
ExactVerdict ==
  \A s \in SeqNum :
    Accepts(window, s) <=>
      \/ window.highest = NoSeq
      \/ IsAhead(s, window.highest)
      \/ Dist(s, window.highest) < Size /\ s \notin accepted

(* Every verdict is the one the ideal filter gives. *)
ImplementsFilter == Abstract!Spec

(* Old entries are recent enough not to meet the numbers to come: every    *)
(* advance adds an entry, and at Size + 1 entries the old ones go.         *)
EntriesRecent ==
  \A t \in window.seen :
    /\ Dist(t, window.highest) <= Size + MaxJump * Size
    /\ Dist(t, window.highest) <= Size + MaxJump * Cardinality(window.seen)

(* The strengthening of ExactVerdict that every step preserves. *)
IInv ==
  /\ window \in ReplayWindow
  /\ accepted \subseteq SeqNum
  /\ window.highest = NoSeq => window.seen = {} /\ accepted = {}
  /\ window.highest # NoSeq =>
       /\ EntriesRecent
       /\ \A t \in accepted : Dist(t, window.highest) < HalfSpace
       /\ \A t \in SeqNum : Dist(t, window.highest) < Size =>
                              (t \in window.seen <=> t \in accepted)

=============================================================================
