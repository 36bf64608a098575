-------------------------------- MODULE Ballots --------------------------------
(***************************************************************************)
(* What an election promises, whatever happens to messages and sites: in   *)
(* one election (one egen) a site votes for one candidate only, and a site *)
(* is elected only when a quorum has voted for it.                         *)
(***************************************************************************)
EXTENDS Naturals, TLAPS

CONSTANTS
  Site,                 \* the sites of the group
  Quorum                \* the sets of sites whose votes elect

(* Any two quorums have a site in common: what the theorem below needs.    *)
QuorumsMeet == \A P, Q \in Quorum : \E s \in P \cap Q : s \in Site

VARIABLES
  votes,                \* who voted for whom, in which election
  winners               \* who was elected, in which election

vars == <<votes, winners>>

Vote == [egen : Nat, voter : Site, candidate : Site]
Winner == [egen : Nat, site : Site]

-----------------------------------------------------------------------------
Init == votes = {} /\ winners = {}

(* Has a quorum voted for w's site, counting the votes in vs?              *)
Chosen(vs, w) ==
  \E Q \in Quorum : \A s \in Q :
    [egen |-> w.egen, voter |-> s, candidate |-> w.site] \in vs

(* A site that has not voted for another one may vote.                     *)
MayCast(v) ==
  \A u \in votes : (u.egen = v.egen /\ u.voter = v.voter) => u.candidate = v.candidate

(* A vote is given; it may be the one that decides.                        *)
Cast ==
  /\ \E v \in votes' \ votes : v \in Vote /\ MayCast(v) /\ votes' = votes \cup {v}
  /\ \A w \in winners' \ winners : w \in Winner /\ Chosen(votes', w)
  /\ winners \subseteq winners'

(* A site finds that it was elected.                                       *)
Win ==
  /\ \A w \in winners' \ winners : w \in Winner /\ Chosen(votes, w)
  /\ winners \subseteq winners'
  /\ UNCHANGED votes

Next == Cast \/ Win

Spec == Init /\ [][Next]_vars

-----------------------------------------------------------------------------
(* Two sites are never elected in the same election.                       *)
OneWinner == \A v, w \in winners : v.egen = w.egen => v.site = w.site

(* A site votes for one candidate in an election.                          *)
OneVote ==
  \A u, v \in votes : (u.egen = v.egen /\ u.voter = v.voter) => u.candidate = v.candidate

WinnersChosen == \A w \in winners : Chosen(votes, w)

-----------------------------------------------------------------------------
(* Quorums that meet elect one site: what every implementation of Cast and *)
(* Win, the code of rep_elect.c among them, may rely on.                   *)
THEOREM QuorumsElectOne ==
  ASSUME QuorumsMeet
  PROVE  Spec => []OneWinner
<1>1. Init => OneVote /\ WinnersChosen
  BY DEF Init, OneVote, WinnersChosen
<1>2. OneVote /\ WinnersChosen /\ [Next]_vars => OneVote' /\ WinnersChosen'
  <2> SUFFICES ASSUME OneVote, WinnersChosen, [Next]_vars
               PROVE  OneVote' /\ WinnersChosen'
    OBVIOUS
  <2>1. CASE Cast
    <3>1. PICK v \in votes' \ votes : v \in Vote /\ MayCast(v) /\ votes' = votes \cup {v}
      BY <2>1 DEF Cast
    <3>2. OneVote'
      BY <3>1 DEF OneVote, MayCast
    <3>3. \A w : Chosen(votes, w) => Chosen(votes', w)
      BY <3>1 DEF Chosen
    <3> QED  BY <2>1, <3>2, <3>3 DEF Cast, WinnersChosen
  <2>2. CASE Win
    BY <2>2 DEF Win, OneVote, WinnersChosen
  <2>3. CASE UNCHANGED vars
    BY <2>3 DEF vars, OneVote, WinnersChosen, Chosen
  <2> QED  BY <2>1, <2>2, <2>3 DEF Next
<1>3. OneVote /\ WinnersChosen => OneWinner
  <2> SUFFICES ASSUME OneVote, WinnersChosen, NEW v \in winners, NEW w \in winners,
                      v.egen = w.egen
               PROVE  v.site = w.site
    BY DEF OneWinner
  <2>1. PICK P \in Quorum : \A s \in P :
          [egen |-> v.egen, voter |-> s, candidate |-> v.site] \in votes
    BY DEF WinnersChosen, Chosen
  <2>2. PICK Q \in Quorum : \A s \in Q :
          [egen |-> w.egen, voter |-> s, candidate |-> w.site] \in votes
    BY DEF WinnersChosen, Chosen
  <2>3. PICK s \in P \cap Q : s \in Site
    BY QuorumsMeet DEF QuorumsMeet
  <2> DEFINE a == [egen |-> v.egen, voter |-> s, candidate |-> v.site]
             b == [egen |-> w.egen, voter |-> s, candidate |-> w.site]
  <2>4. a \in votes /\ b \in votes
    BY <2>1, <2>2, <2>3
  <2>5. a.candidate = b.candidate
    BY <2>4 DEF OneVote
  <2> QED  BY <2>5
<1> QED  BY <1>1, <1>2, <1>3, PTL DEF Spec
=============================================================================
