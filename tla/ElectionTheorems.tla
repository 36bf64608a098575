---------------------------- MODULE ElectionTheorems ----------------------------
(***************************************************************************)
(* Proofs about Election, for any number of sites, elections, crashes and  *)
(* changes of masters, and for messages that come late, again or never: no *)
(* two sites are elected in one election (ElectsOne), who is elected is as *)
(* recent as those whose votes it has (ElectsMostRecent), and elections    *)
(* implement those of Ballots (ElectionsAreFair).                          *)
(*                                                                         *)
(* The invariant IInv follows the egen.  What a site did in an election a  *)
(* crash can not make it do again, because the egen file is ahead of it    *)
(* (EgenOK, MessageOK).  A site that has voted is past the point where it  *)
(* would vote for another one, or who would get that vote is past that     *)
(* election (BallotOK).  So what a site has counted when it is elected are *)
(* first votes (VotesOK, WinnerOK), and majorities have one in common.     *)
(*                                                                         *)
(* A site prefers the most recent one that it has heard of, itself among   *)
(* them while it is at that election (RankOK).  It may vote when it has    *)
(* left that, with a preference of the next one, for a site that is past   *)
(* that election then, and stays so (Follows).                             *)
(***************************************************************************)
EXTENDS Election, FiniteSetTheorems, TLAPS

Active == {"phase1", "vote", "voted", "won", "phase2"}

Eids(t) == {v.eid : v \in t}

OneEach(t) == \A u, v \in t : u.eid = v.eid => u = v

NoBallot(cs, s, e) == \A b \in cs : ~(b.egen = e /\ b.voter = s)

OnlyBallot(cs, s, e, c) == \A b \in cs : (b.egen = e /\ b.voter = s) => b.candidate = c

(* What the invariant says of a site s with the region r, the thread t and *)
(* the files d, when the ballots in cs have been cast.                     *)

(* The thread takes part in the election that the site is at.              *)
AtEgen(r, t) == t.pc \in Active /\ r.egen = t.egen

(* The egen file is ahead of the election that the thread takes part in,   *)
(* and of no other.                                                        *)
EgenOK(r, t, d) ==
  /\ t.pc \in {"idle", "lockout"} => d.egen <= r.egen
  /\ t.pc /= "idle" => t.egen <= r.egen
  /\ t.pc \in Active => d.egen = t.egen + 1

FlagsOK(s, r, t) ==
  /\ AtEgen(r, t) => InElection(r) /\ s \in Eids(r.sites)
  /\ "PHASE1" \in r.elect_flags => AtEgen(r, t)
  /\ (t.pc \in {"voted", "won", "phase2"} /\ AtEgen(r, t)) => "PHASE2" \in r.elect_flags

(* Who was heard of takes part in this election, or did.                   *)
SitesOK(s, r, d) ==
  /\ OneEach(r.sites) /\ IsFiniteSet(r.sites)
  /\ \A v \in r.sites :
       /\ v.egen = r.egen
       /\ v.eid = s => d.egen > v.egen
       /\ v.eid /= s => disk[v.eid].egen > v.egen /\ rep[v.eid].egen >= v.egen
  /\ r.sites /= {} => r.winner \in Eids(r.sites)

(* The votes of others that it has tallied are first votes for it.  Its    *)
(* own may be left from an earlier election, but it gives no other one.    *)
VotesOK(s, r, d, cs) ==
  /\ OneEach(r.votes) /\ IsFiniteSet(r.votes)
  /\ \A v \in r.votes : v.eid /= s =>
       /\ v.egen = r.egen /\ d.egen > r.egen
       /\ Ballot(r.egen, v.eid, s) \in cs
  /\ s \in Voters(r) =>
       "PHASE2" \in r.elect_flags /\ r.winner = s /\ OnlyBallot(cs, s, r.egen, s)

(* A thread that may still vote: if that is not the first vote of the site *)
(* it is for the same one, for itself, or for one that will not count it.  *)
BallotOK(s, r, t, cs) ==
  /\ (t.pc \in {"phase1", "vote"} /\ AtEgen(r, t) /\ "PHASE2" \notin r.elect_flags)
       => NoBallot(cs, s, r.egen)
  /\ t.pc = "vote" =>
       /\ r.winner \in Site
       /\ AtEgen(r, t) => OnlyBallot(cs, s, t.egen, r.winner)
       /\ r.winner /= s =>
            /\ disk[r.winner].egen > t.egen
            /\ rep[r.winner].egen > t.egen \/ OnlyBallot(cs, s, t.egen, r.winner)

(* The site c is as recent as s, or will not count votes for it at e.       *)
Follows(s, c, e) ==
  Rank(s) <= Rank(c) \/ (rep[c].egen > e /\ disk[c].egen > e)

(* No site that it has heard of is more recent than the one it prefers.    *)
RankOK(s, r, t) ==
  /\ \A v \in r.sites : Rank(v.eid) <= Rank(r.winner)
  /\ t.pc = "vote" => Follows(s, r.winner, t.egen)

(* A site is told that it is elected once in an election.                  *)
MasterOK(r, t) ==
  /\ r.takeover => r.masterelect /\ ~r.master
  /\ ((r.takeover \/ r.master) /\ t.pc /= "idle") => r.notified_egen >= t.egen

SiteOK(s, r, t, d, cs) ==
  /\ EgenOK(r, t, d) /\ FlagsOK(s, r, t) /\ SitesOK(s, r, d)
  /\ VotesOK(s, r, d, cs) /\ BallotOK(s, r, t, cs) /\ RankOK(s, r, t) /\ MasterOK(r, t)

SitesInv == \A s \in Site : SiteOK(s, rep[s], thread[s], disk[s], cast)

CastInv ==
  \A b \in cast :
    /\ b.egen < disk[b.voter].egen
    /\ OnlyBallot(cast, b.voter, b.egen, b.candidate)
    /\ Follows(b.voter, b.candidate, b.egen)

(* Who sent a VOTE1 can not come back to that election, and a VOTE2 was a  *)
(* first vote, or its receiver will not count it.                          *)
MessageOK(r, d, cs, m) ==
  /\ m.type = "VOTE1" => r.egen >= m.egen /\ d.egen > m.egen
  /\ m.type = "VOTE2" =>
       /\ m.to \in Site /\ m.to /= m.from /\ disk[m.to].egen > m.egen
       /\ Ballot(m.egen, m.from, m.to) \in cs \/ rep[m.to].egen > m.egen

NetInv == \A m \in network : MessageOK(rep[m.from], disk[m.from], cast, m)

WinnerOK(w, cs) ==
  /\ Cardinality(w.by) >= NVotes
  /\ \A q \in w.by : Ballot(w.egen, q, w.site) \in cs /\ Rank(q) <= Rank(w.site)

ElectedInv == \A w \in elected : WinnerOK(w, cast)

IInv == TypeOK /\ SitesInv /\ CastInv /\ NetInv /\ ElectedInv

FirstVotes == [egen : Nat, voter : Site, candidate : Site]

Winners == [egen : Nat, site : Site, by : SUBSET Site]

-----------------------------------------------------------------------------
(* The operators on regions.                                               *)

(* What ElectDone leaves.                                                  *)
LEMMA ElectDoneFields ==
  ASSUME NEW r \in REP
  PROVE  /\ ElectDone(r) \in REP
         /\ ElectDone(r) = [r EXCEPT !.elect_flags = {}, !.sites = {}, !.votes = {},
                                     !.egen = ElectDone(r).egen]
         /\ ElectDone(r).egen >= r.egen
         /\ InElection(r) => ElectDone(r).egen > r.egen
         /\ ElectDone(r).elect_flags = {} /\ ElectDone(r).sites = {} /\ ElectDone(r).votes = {}
         /\ ElectDone(r).winner = r.winner /\ ElectDone(r).gen = r.gen
         /\ ElectDone(r).master = r.master /\ ElectDone(r).masterelect = r.masterelect
         /\ ElectDone(r).takeover = r.takeover /\ ElectDone(r).notified_egen = r.notified_egen
<1> DEFINE n == IF InElection(r) THEN r.egen + 1 ELSE r.egen
<1>1. ElectDone(r) = [r EXCEPT !.elect_flags = {}, !.sites = {}, !.votes = {}, !.egen = n]
  BY DEF ElectDone
<1>2. n \in Nat /\ n >= r.egen /\ (InElection(r) => n > r.egen)
  BY DEF REP
<1> HIDE DEF n
<1>3. ElectDone(r) \in REP
  BY <1>1, <1>2 DEF REP, Tallies
<1>4. ElectDone(r).egen = n
  BY <1>1 DEF REP
<1>5. /\ ElectDone(r).elect_flags = {} /\ ElectDone(r).sites = {} /\ ElectDone(r).votes = {}
      /\ ElectDone(r).winner = r.winner /\ ElectDone(r).gen = r.gen
      /\ ElectDone(r).master = r.master /\ ElectDone(r).masterelect = r.masterelect
      /\ ElectDone(r).takeover = r.takeover /\ ElectDone(r).notified_egen = r.notified_egen
  BY <1>1 DEF REP
<1> QED  BY <1>1, <1>2, <1>3, <1>4, <1>5

(* A tally n has one entry for each site, that of q in place of what t has *)
(* for it.                                                                 *)
Tallied(t, q, e, n) ==
  /\ n \in Tallies /\ OneEach(n) /\ IsFiniteSet(n)
  /\ [eid |-> q, egen |-> e] \in n
  /\ \A v \in n : v.eid = q => v.egen = e
  /\ \A v \in n : v.eid /= q => v \in t
  /\ \A v \in t : v.eid /= q => v \in n
  /\ Eids(n) = Eids(t) \cup {q}
  /\ t = {} => n = {[eid |-> q, egen |-> e]}

LEMMA TallyFields ==
  ASSUME NEW t \in Tallies, NEW eid \in Site, NEW e \in Nat, OneEach(t), IsFiniteSet(t),
         ~Ignored(t, eid, e)
  PROVE  Tallied(t, eid, e, Tally(t, eid, e))
<1> DEFINE old == {v \in t : v.eid /= eid}
           new == [eid |-> eid, egen |-> e]
<1>1. Tally(t, eid, e) = old \cup {new}
  BY DEF Tally
<1>2. IsFiniteSet(Tally(t, eid, e))
  <2>1. IsFiniteSet(old)  BY FS_Subset
  <2> QED  BY <2>1, <1>1, FS_AddElement
<1>3. Eids(Tally(t, eid, e)) = Eids(t) \cup {eid}
  <2>1. ASSUME NEW x \in Eids(old \cup {new}) PROVE x \in Eids(t) \cup {eid}
    <3>1. PICK v \in old \cup {new} : x = v.eid  BY <2>1 DEF Eids
    <3> QED  BY <3>1 DEF Eids
  <2>2. ASSUME NEW x \in Eids(t) PROVE x \in Eids(old \cup {new}) \/ x = eid
    <3>1. PICK v \in t : x = v.eid  BY <2>2 DEF Eids
    <3>2. v.eid /= eid => v \in old \cup {new}  OBVIOUS
    <3> QED  BY <3>1, <3>2 DEF Eids
  <2>3. eid \in Eids(old \cup {new})
    <3>1. new.eid = eid /\ new \in old \cup {new}  OBVIOUS
    <3> QED  BY <3>1 DEF Eids
  <2> HIDE DEF old, new
  <2> QED  BY <1>1, <2>1, <2>2, <2>3
<1>4. /\ Tally(t, eid, e) \in Tallies /\ OneEach(Tally(t, eid, e))
      /\ new \in Tally(t, eid, e)
      /\ \A v \in Tally(t, eid, e) : v.eid = eid => v.egen = e
      /\ \A v \in Tally(t, eid, e) : v.eid /= eid => v \in t
      /\ \A v \in t : v.eid /= eid => v \in Tally(t, eid, e)
  BY <1>1 DEF OneEach, Tallies
<1>5. t = {} => Tally(t, eid, e) = {new}
  BY <1>1
<1> QED  BY <1>2, <1>3, <1>4, <1>5 DEF Tallied

(* Whom a site prefers is one that it has heard of.                        *)
LEMMA CmpVoteFields ==
  ASSUME NEW r \in REP, NEW eid \in Site, NEW w \in CmpVote(r, eid)
  PROVE  /\ w \in {eid, r.winner}
         /\ \A e : r.sites = {[eid |-> eid, egen |-> e]} => w = eid
         /\ Cardinality(r.sites) /= 1 => Rank(w) >= Rank(eid) /\ Rank(w) >= Rank(r.winner)
<1>1. w \in {eid, r.winner}
  BY DEF CmpVote
<1>2. ASSUME NEW e, r.sites = {[eid |-> eid, egen |-> e]} PROVE w = eid
  BY <1>2, FS_Singleton DEF CmpVote
<1>3. Cardinality(r.sites) /= 1 => Rank(w) >= Rank(eid) /\ Rank(w) >= Rank(r.winner)
  BY DEF CmpVote
<1> QED  BY <1>1, <1>2, <1>3

LEMMA CaughtUpFields ==
  ASSUME TypeOK, NEW s \in Site, NEW m \in network
  PROVE  /\ CaughtUp(s, m) \in REP
         /\ CaughtUp(s, m) = [rep[s] EXCEPT !.gen = CaughtUp(s, m).gen,
                                            !.master_id = CaughtUp(s, m).master_id]
<1>1. rep[s] \in REP /\ m.gen \in Nat
  BY DEF TypeOK, Messages
<1>2. CASE m.gen > rep[s].gen
  <2>1. CaughtUp(s, m) = [rep[s] EXCEPT !.gen = m.gen, !.master_id = None]
    BY <1>2 DEF CaughtUp
  <2> QED  BY <1>1, <2>1 DEF REP
<1>3. CASE ~(m.gen > rep[s].gen)
  <2>1. CaughtUp(s, m) = rep[s]
    BY <1>3 DEF CaughtUp
  <2> QED  BY <1>1, <2>1 DEF REP
<1> QED  BY <1>2, <1>3

-----------------------------------------------------------------------------
(* Steps.  An action of s changes its own region, thread and files, sends  *)
(* messages, and may give a first vote.                                    *)
Frame(s, r, t, d, ms) ==
  /\ rep' = [rep EXCEPT ![s] = r]
  /\ thread' = [thread EXCEPT ![s] = t]
  /\ disk' = [disk EXCEPT ![s] = d]
  /\ network' = network \cup ms
  /\ r.egen >= rep[s].egen \/ r.egen >= disk[s].egen
  /\ d.egen >= disk[s].egen
  /\ \/ cast' = cast
     \/ \E e \in Nat, c \in Site :
          /\ e < d.egen /\ NoBallot(cast, s, e) /\ Follows(s, c, e)
          /\ cast' = cast \cup {Ballot(e, s, c)}

(* What the variables hold after a step.                                   *)
LEMMA FrameTypes ==
  ASSUME TypeOK, NEW s \in Site, NEW r \in REP, NEW t \in Threads, NEW d \in Files,
         NEW ms \in SUBSET Messages, Frame(s, r, t, d, ms), plan' \in Bounds,
         elected' \in SUBSET Winners
  PROVE  TypeOK'
<1>1. cast' \in SUBSET FirstVotes
  BY DEF TypeOK, Frame, FirstVotes, Ballot
<1> QED  BY <1>1 DEF TypeOK, Frame, FirstVotes, Winners

LEMMA FrameValues ==
  ASSUME TypeOK, NEW s \in Site, NEW r, NEW t, NEW d, NEW ms, Frame(s, r, t, d, ms)
  PROVE  /\ rep'[s] = r /\ thread'[s] = t /\ disk'[s] = d
         /\ \A q \in Site : q /= s =>
              rep'[q] = rep[q] /\ thread'[q] = thread[q] /\ disk'[q] = disk[q]
         /\ cast \subseteq cast' /\ \A b \in cast' : b \in cast \/ b.voter = s
  BY DEF TypeOK, Frame, Ballot

(* The egens of files grow, those of regions do unless it is to the file.  *)
LEMMA FrameEgens ==
  ASSUME TypeOK, NEW s \in Site, NEW r \in REP, NEW t, NEW d \in Files, NEW ms,
         Frame(s, r, t, d, ms), NEW q \in Site
  PROVE  /\ disk[q].egen \in Nat /\ disk'[q].egen \in Nat /\ disk'[q].egen >= disk[q].egen
         /\ rep[q].egen \in Nat /\ rep'[q].egen \in Nat
         /\ rep'[q].egen >= rep[q].egen \/ rep'[q].egen >= disk[q].egen
<1>1. /\ disk[q].egen \in Nat /\ rep[q].egen \in Nat /\ d.egen \in Nat /\ r.egen \in Nat
  BY DEF TypeOK, REP, Files
<1>2. CASE q = s
  <2>1. rep'[q] = r /\ disk'[q] = d
    BY <1>2, FrameValues
  <2> QED  BY <1>1, <1>2, <2>1 DEF Frame
<1>3. CASE q /= s
  <2>1. rep'[q] = rep[q] /\ disk'[q] = disk[q]
    BY <1>3, FrameValues
  <2> QED  BY <1>1, <2>1
<1> QED  BY <1>2, <1>3

(* Who will not count a vote never will.                                   *)
LEMMA FollowsStays ==
  ASSUME TypeOK, NEW s \in Site, NEW r \in REP, NEW t, NEW d \in Files, NEW ms,
         Frame(s, r, t, d, ms), NEW q \in Site, NEW c \in Site, NEW e \in Nat, Follows(q, c, e)
  PROVE  Rank(q) <= Rank(c) \/ (rep'[c].egen > e /\ disk'[c].egen > e)
<1>1. CASE rep[c].egen > e /\ disk[c].egen > e
  BY <1>1, FrameEgens
<1> QED  BY <1>1 DEF Follows

(* What is true of messages remains true of them.                          *)
LEMMA OldMessages ==
  ASSUME TypeOK, NEW s \in Site, NEW r \in REP, NEW t, NEW d \in Files, NEW ms,
         Frame(s, r, t, d, ms), NEW m \in network,
         MessageOK(rep[m.from], disk[m.from], cast, m)
  PROVE  MessageOK(rep[m.from], disk[m.from], cast, m)'
<1>1. m.from \in Site /\ m.egen \in Nat
  BY DEF TypeOK, Messages
<1>2. ASSUME m.type = "VOTE1"
      PROVE  rep'[m.from].egen >= m.egen /\ disk'[m.from].egen > m.egen
  <2>1. rep[m.from].egen >= m.egen /\ disk[m.from].egen > m.egen
    BY <1>2 DEF MessageOK
  <2> QED  BY <1>1, <2>1, FrameEgens
<1>3. ASSUME m.type = "VOTE2"
      PROVE  /\ m.to \in Site /\ m.to /= m.from /\ disk'[m.to].egen > m.egen
             /\ Ballot(m.egen, m.from, m.to) \in cast' \/ rep'[m.to].egen > m.egen
  <2>1. /\ m.to \in Site /\ m.to /= m.from /\ disk[m.to].egen > m.egen
        /\ Ballot(m.egen, m.from, m.to) \in cast \/ rep[m.to].egen > m.egen
    BY <1>3 DEF MessageOK
  <2>2. cast \subseteq cast'
    BY FrameValues
  <2> QED  BY <1>1, <2>1, <2>2, FrameEgens
<1> QED  BY <1>2, <1>3 DEF MessageOK

(* What is true of another site remains true of it.                        *)
LEMMA OtherSites ==
  ASSUME TypeOK, NEW s \in Site, NEW r \in REP, NEW t, NEW d \in Files, NEW ms,
         Frame(s, r, t, d, ms), NEW p \in Site, p /= s,
         SiteOK(p, rep[p], thread[p], disk[p], cast)
  PROVE  SiteOK(p, rep[p], thread[p], disk[p], cast)'
<1> DEFINE rp == rep[p]  tp == thread[p]  dp == disk[p]
<1>1. rep'[p] = rp /\ thread'[p] = tp /\ disk'[p] = dp
  BY FrameValues
<1>2. /\ rp \in REP /\ tp \in Threads /\ dp \in Files
      /\ SiteOK(p, rp, tp, dp, cast)
  BY DEF TypeOK
<1>3. \A e, c : /\ NoBallot(cast, p, e) => NoBallot(cast', p, e)
                /\ OnlyBallot(cast, p, e, c) => OnlyBallot(cast', p, e, c)
  BY FrameValues DEF NoBallot, OnlyBallot
<1>4. cast \subseteq cast'
  BY FrameValues
<1> SUFFICES SiteOK(p, rp, tp, dp, cast)' /\ rp' = rp /\ tp' = tp /\ dp' = dp
  OBVIOUS
<1>5. rp' = rp /\ tp' = tp /\ dp' = dp
  BY <1>1
<1> HIDE DEF rp, tp, dp
<1>6. EgenOK(rp, tp, dp)' /\ FlagsOK(p, rp, tp)' /\ MasterOK(rp, tp)'
  BY <1>2, <1>5 DEF SiteOK, EgenOK, FlagsOK, MasterOK, AtEgen, InElection
<1>7. SitesOK(p, rp, dp)'
  <2>1. ASSUME NEW v \in rp.sites
        PROVE  /\ v.egen = rp.egen
               /\ v.eid = p => dp.egen > v.egen
               /\ v.eid /= p => disk'[v.eid].egen > v.egen /\ rep'[v.eid].egen >= v.egen
    <3>1. v.eid \in Site /\ v.egen \in Nat
      BY <1>2 DEF REP, Tallies
    <3>2. /\ v.egen = rp.egen
          /\ v.eid = p => dp.egen > v.egen
          /\ v.eid /= p => disk[v.eid].egen > v.egen /\ rep[v.eid].egen >= v.egen
      BY <1>2 DEF SiteOK, SitesOK
    <3> QED  BY <3>1, <3>2, FrameEgens
  <2> QED  BY <1>2, <1>5, <2>1 DEF SiteOK, SitesOK
<1>8. VotesOK(p, rp, dp, cast)'
  BY <1>2, <1>3, <1>4, <1>5 DEF SiteOK, VotesOK
<1>9. BallotOK(p, rp, tp, cast)'
  <2> DEFINE w == rp.winner
  <2>1. (tp.pc \in {"phase1", "vote"} /\ AtEgen(rp, tp) /\ "PHASE2" \notin rp.elect_flags)
          => NoBallot(cast', p, rp.egen)
    BY <1>2, <1>3 DEF SiteOK, BallotOK
  <2>2. ASSUME tp.pc = "vote"
        PROVE  /\ w \in Site
               /\ AtEgen(rp, tp) => OnlyBallot(cast', p, tp.egen, w)
               /\ w /= p =>
                    /\ disk'[w].egen > tp.egen
                    /\ rep'[w].egen > tp.egen \/ OnlyBallot(cast', p, tp.egen, w)
    <3>1. /\ w \in Site
          /\ AtEgen(rp, tp) => OnlyBallot(cast, p, tp.egen, w)
          /\ w /= p =>
               /\ disk[w].egen > tp.egen
               /\ rep[w].egen > tp.egen \/ OnlyBallot(cast, p, tp.egen, w)
      BY <1>2, <2>2 DEF SiteOK, BallotOK
    <3>2. tp.egen \in Nat
      BY <1>2 DEF Threads
    <3> HIDE DEF w
    <3> QED  BY <1>3, <3>1, <3>2, FrameEgens
  <2> QED  BY <1>5, <2>1, <2>2 DEF BallotOK, AtEgen
<1>10. RankOK(p, rp, tp)'
  <2>1. ASSUME tp.pc = "vote"
        PROVE  Follows(p, rp.winner, tp.egen)'
    <3>1. PICK c \in Site, e \in Nat : c = rp.winner /\ e = tp.egen
      BY <1>2, <2>1 DEF SiteOK, BallotOK, Threads
    <3>2. Follows(p, c, e)
      BY <1>2, <2>1, <3>1 DEF SiteOK, RankOK
    <3>3. Rank(p) <= Rank(c) \/ (rep'[c].egen > e /\ disk'[c].egen > e)
      BY <3>2, FollowsStays
    <3> QED  BY <1>5, <3>1, <3>3 DEF Follows
  <2> QED  BY <1>2, <1>5, <2>1 DEF SiteOK, RankOK
<1> QED  BY <1>5, <1>6, <1>7, <1>8, <1>9, <1>10 DEF SiteOK

(* What a step of s must establish.                                        *)
LEMMA Step ==
  ASSUME IInv, NEW s \in Site, NEW r \in REP, NEW t \in Threads, NEW d \in Files,
         NEW ms \in SUBSET Messages, Frame(s, r, t, d, ms), plan' \in Bounds,
         SiteOK(s, r, t, d, cast'),
         \A m \in ms : m.from = s /\ MessageOK(r, d, cast', m),
         \A w \in elected' : w \in elected \/ (w \in Winners /\ WinnerOK(w, cast'))
  PROVE  IInv'
<1>1. TypeOK /\ SitesInv /\ CastInv /\ NetInv /\ ElectedInv
  BY DEF IInv
<1>2. TypeOK'
  <2>1. elected' \in SUBSET Winners
    BY <1>1 DEF TypeOK, Winners
  <2> QED  BY <1>1, <2>1, FrameTypes
<1>3. /\ rep'[s] = r /\ thread'[s] = t /\ disk'[s] = d
      /\ \A q \in Site : q /= s =>
           rep'[q] = rep[q] /\ thread'[q] = thread[q] /\ disk'[q] = disk[q]
      /\ cast \subseteq cast' /\ \A b \in cast' : b \in cast \/ b.voter = s
  BY <1>1, FrameValues
<1>4. SitesInv'
  <2>1. ASSUME NEW p \in Site, p /= s
        PROVE  SiteOK(p, rep[p], thread[p], disk[p], cast)'
    <3>1. SiteOK(p, rep[p], thread[p], disk[p], cast)
      BY <1>1 DEF SitesInv
    <3> QED  BY <1>1, <2>1, <3>1, OtherSites
  <2>2. SiteOK(s, rep[s], thread[s], disk[s], cast)'
    <3>1. EgenOK(r, t, d) /\ FlagsOK(s, r, t) /\ VotesOK(s, r, d, cast') /\ MasterOK(r, t)
      BY DEF SiteOK
    <3>2. /\ EgenOK(rep[s], thread[s], disk[s])' /\ FlagsOK(s, rep[s], thread[s])'
          /\ MasterOK(rep[s], thread[s])'
      BY <1>3, <3>1 DEF EgenOK, FlagsOK, MasterOK, AtEgen, InElection
    <3>3. VotesOK(s, rep[s], disk[s], cast)'
      BY <1>3, <3>1 DEF VotesOK
    <3>4. SitesOK(s, rep[s], disk[s])'
      <4>1. ASSUME NEW v \in r.sites
            PROVE  /\ v.egen = r.egen
                   /\ v.eid = s => d.egen > v.egen
                   /\ v.eid /= s => disk'[v.eid].egen > v.egen /\ rep'[v.eid].egen >= v.egen
        <5>1. v.eid \in Site
          BY DEF REP, Tallies
        <5> QED  BY <1>3, <5>1 DEF SiteOK, SitesOK
      <4> QED  BY <1>3, <4>1 DEF SiteOK, SitesOK
    <3>5. BallotOK(s, rep[s], thread[s], cast)'
      <4>1. BallotOK(s, r, t, cast')
        BY DEF SiteOK
      <4>2. r.winner \in Site /\ r.winner /= s =>
              disk'[r.winner] = disk[r.winner] /\ rep'[r.winner] = rep[r.winner]
        BY <1>3
      <4> QED  BY <1>3, <4>1, <4>2 DEF BallotOK, AtEgen
    <3>6. RankOK(s, rep[s], thread[s])'
      <4>1. RankOK(s, r, t) /\ (t.pc = "vote" => r.winner \in Site)
        BY DEF SiteOK, BallotOK
      <4>2. ASSUME t.pc = "vote"
            PROVE  Follows(s, r.winner, t.egen)'
        <5>1. PICK c \in Site, e \in Nat : c = r.winner /\ e = t.egen
          BY <4>1, <4>2 DEF Threads
        <5>2. Follows(s, c, e)
          BY <4>1, <4>2, <5>1 DEF RankOK
        <5>3. Rank(s) <= Rank(c) \/ (rep'[c].egen > e /\ disk'[c].egen > e)
          BY <1>1, <5>2, FollowsStays
        <5> QED  BY <5>1, <5>3 DEF Follows
      <4> QED  BY <1>3, <4>1, <4>2 DEF RankOK, Follows
    <3> QED  BY <3>2, <3>3, <3>4, <3>5, <3>6 DEF SiteOK
  <2> QED  BY <2>1, <2>2 DEF SitesInv
<1>5. CastInv'
  <2>1. ASSUME NEW b \in cast
        PROVE  b.egen < disk'[b.voter].egen
    <3>1. b.voter \in Site /\ b.egen \in Nat /\ b.egen < disk[b.voter].egen
      BY <1>1 DEF TypeOK, CastInv
    <3> QED  BY <1>1, <3>1, FrameEgens
  <2>2. \A b, c \in cast : (c.egen = b.egen /\ c.voter = b.voter) => c.candidate = b.candidate
    BY <1>1 DEF CastInv, OnlyBallot
  <2>3. ASSUME NEW b \in cast
        PROVE  Follows(b.voter, b.candidate, b.egen)'
    <3>1. PICK q \in Site, c \in Site, e \in Nat : q = b.voter /\ c = b.candidate /\ e = b.egen
      BY <1>1 DEF TypeOK
    <3>2. Follows(q, c, e)
      BY <1>1, <3>1 DEF CastInv
    <3>3. Rank(q) <= Rank(c) \/ (rep'[c].egen > e /\ disk'[c].egen > e)
      BY <1>1, <3>2, FollowsStays
    <3> QED  BY <3>1, <3>3 DEF Follows
  <2>4. CASE cast' = cast
    BY <2>1, <2>2, <2>3, <2>4 DEF CastInv, OnlyBallot
  <2>5. ASSUME NEW e \in Nat, NEW c \in Site, e < d.egen, NoBallot(cast, s, e),
               Follows(s, c, e), cast' = cast \cup {Ballot(e, s, c)}
        PROVE  CastInv'
    <3> DEFINE n == Ballot(e, s, c)
    <3>1. n.egen = e /\ n.voter = s /\ n.candidate = c
      BY DEF Ballot
    <3>2. \A b \in cast : ~(b.egen = e /\ b.voter = s)
      BY <2>5 DEF NoBallot
    <3>3. cast' = cast \cup {n}
      BY <2>5
    <3> HIDE DEF n
    <3>4. \A b \in cast' : b.egen < disk'[b.voter].egen
      BY <1>3, <2>1, <2>5, <3>1, <3>3
    <3>5. \A b, f \in cast' : (f.egen = b.egen /\ f.voter = b.voter) => f.candidate = b.candidate
      BY <2>2, <3>1, <3>2, <3>3
    <3>6. Rank(s) <= Rank(c) \/ (rep'[c].egen > e /\ disk'[c].egen > e)
      BY <1>1, <2>5, FollowsStays
    <3>7. Follows(n.voter, n.candidate, n.egen)'
      BY <3>1, <3>6 DEF Follows
    <3>8. \A b \in cast' : Follows(b.voter, b.candidate, b.egen)'
      BY <2>3, <3>3, <3>7
    <3> QED  BY <3>4, <3>5, <3>8 DEF CastInv, OnlyBallot
  <2> QED  BY <2>4, <2>5 DEF Frame
<1>6. NetInv'
  <2>1. ASSUME NEW m \in network
        PROVE  MessageOK(rep[m.from], disk[m.from], cast, m)'
    BY <1>1, OldMessages DEF NetInv
  <2>2. ASSUME NEW m \in ms
        PROVE  MessageOK(rep[m.from], disk[m.from], cast, m)'
    <3>1. m.from = s /\ MessageOK(r, d, cast', m)
      OBVIOUS
    <3>2. m.to \in Site /\ m.to /= s => disk'[m.to] = disk[m.to] /\ rep'[m.to] = rep[m.to]
      BY <1>3
    <3> QED  BY <1>3, <3>1, <3>2 DEF MessageOK
  <2>3. network' = network \cup ms
    BY DEF Frame
  <2> QED  BY <2>1, <2>2, <2>3 DEF NetInv
<1>7. ElectedInv'
  <2>1. \A w \in elected : WinnerOK(w, cast')
    BY <1>1, <1>3 DEF ElectedInv, WinnerOK
  <2> QED  BY <2>1 DEF ElectedInv
<1> QED  BY <1>2, <1>4, <1>5, <1>6, <1>7 DEF IInv

-----------------------------------------------------------------------------
(* What keeps a site in order.                                             *)

(* What the invariant says of one site.                                    *)
LEMMA Here ==
  ASSUME IInv, NEW s \in Site
  PROVE  /\ rep[s] \in REP /\ thread[s] \in Threads /\ disk[s] \in Files
         /\ SiteOK(s, rep[s], thread[s], disk[s], cast)
         /\ \A b \in cast : b.voter = s => b.egen < disk[s].egen
         /\ TypeOK /\ plan \in Bounds
BY DEF IInv, SitesInv, CastInv, TypeOK

(* A site is in order when it has left the election that it was at, for a  *)
(* later one if it took part.                                              *)
LEMMA Ended ==
  ASSUME NEW s \in Site, NEW r \in REP, NEW t \in Threads, NEW d \in Files, NEW cs,
         SiteOK(s, r, t, d, cs), NEW u \in REP, NEW v \in {t, Idle}, NEW f \in Files,
         u.elect_flags \subseteq {"TALLY"}, u.sites = {}, u.votes = {}, u.winner = r.winner,
         u.egen >= r.egen, InElection(r) => u.egen > r.egen, f.egen = d.egen, MasterOK(u, v)
  PROVE  SiteOK(s, u, v, f, cs)
<1>1. /\ r.egen \in Nat /\ u.egen \in Nat /\ t.egen \in Nat /\ d.egen \in Nat
      /\ Idle.pc = "idle" /\ v \in Threads
  BY DEF REP, Threads, Files, Idle
<1>2. AtEgen(r, t) => InElection(r)
  BY DEF SiteOK, FlagsOK
<1>3. t.pc /= "idle" => t.egen <= r.egen
  BY DEF SiteOK, EgenOK
<1>4. ~AtEgen(u, v)
  BY <1>1, <1>2, <1>3 DEF AtEgen, Active
<1>5. EgenOK(u, v, f)
  <2>1. t.pc \in Active => d.egen = t.egen + 1 /\ t.egen < u.egen
    BY <1>1, <1>2, <1>3 DEF SiteOK, EgenOK, AtEgen, Active
  <2>2. t.pc \in {"idle", "lockout"} \cup Active
    BY DEF Threads, Active
  <2>3. CASE v = t
    BY <1>1, <2>1, <2>3 DEF SiteOK, EgenOK
  <2>4. CASE v = Idle
    BY <1>1, <2>1, <2>2, <2>4 DEF SiteOK, EgenOK, Active
  <2> QED  BY <2>3, <2>4
<1>6. FlagsOK(s, u, v)
  BY <1>4 DEF FlagsOK
<1>7. SitesOK(s, u, f) /\ VotesOK(s, u, f, cs)
  BY FS_EmptySet DEF SitesOK, VotesOK, OneEach, Voters
<1>8. BallotOK(s, u, v, cs) /\ RankOK(s, u, v)
  BY <1>1, <1>4 DEF SiteOK, BallotOK, RankOK
<1> QED  BY <1>5, <1>6, <1>7, <1>8 DEF SiteOK

(* A site remains in order when nothing changes that elections are about.  *)
LEMMA Same ==
  ASSUME NEW s \in Site, NEW r \in REP, NEW t \in Threads, NEW d \in Files, NEW cs,
         SiteOK(s, r, t, d, cs), NEW u \in REP, NEW f \in Files,
         "PHASE1" \in u.elect_flags <=> "PHASE1" \in r.elect_flags,
         "PHASE2" \in u.elect_flags <=> "PHASE2" \in r.elect_flags,
         u.sites = r.sites, u.votes = r.votes, u.winner = r.winner,
         u.egen = r.egen, f.egen = d.egen, MasterOK(u, t)
  PROVE  SiteOK(s, u, t, f, cs)
<1>1. InElection(u) <=> InElection(r)
  BY DEF InElection
<1>2. (AtEgen(u, t) <=> AtEgen(r, t)) /\ (s \in Voters(u) <=> s \in Voters(r))
  BY DEF AtEgen, Voters
<1>3. EgenOK(u, t, f) /\ FlagsOK(s, u, t) /\ BallotOK(s, u, t, cs)
  BY <1>1, <1>2 DEF SiteOK, EgenOK, FlagsOK, BallotOK
<1>4. SitesOK(s, u, f) /\ RankOK(s, u, t)
  BY DEF SiteOK, SitesOK, RankOK
<1>5. VotesOK(s, u, f, cs)
  BY <1>2 DEF SiteOK, VotesOK
<1> QED  BY <1>3, <1>4, <1>5 DEF SiteOK

(* A client that is elected is told so, if not yet.                        *)
LEMMA FireElectedFields ==
  ASSUME NEW r \in REP, ~r.master, NEW e \in Nat
  PROVE  LET u == FireElected(ElectMaster(r), e) IN
         /\ u \in REP /\ u.elect_flags = r.elect_flags /\ u.sites = r.sites /\ u.votes = r.votes
         /\ u.winner = r.winner /\ u.egen = r.egen
         /\ ~u.master /\ u.masterelect /\ u.notified_egen >= e
<1> DEFINE q == ElectMaster(r)
<1>1. q = [r EXCEPT !.masterelect = TRUE]
  BY DEF ElectMaster, REP
<1>2. /\ q \in REP /\ q.elect_flags = r.elect_flags /\ q.sites = r.sites /\ q.votes = r.votes
      /\ q.winner = r.winner /\ q.egen = r.egen
      /\ ~q.master /\ q.masterelect /\ q.notified_egen \in Nat
  BY <1>1 DEF REP
<1> HIDE DEF q
<1> DEFINE u == FireElected(q, e)
<1>3. \/ q.notified_egen < e /\ u = [q EXCEPT !.takeover = TRUE, !.notified_egen = e]
      \/ q.notified_egen >= e /\ u = q
  BY <1>2 DEF FireElected
<1>4. u = FireElected(ElectMaster(r), e)
  BY DEF u, q
<1> HIDE DEF u
<1>5. /\ u \in REP /\ u.elect_flags = q.elect_flags /\ u.sites = q.sites /\ u.votes = q.votes
      /\ u.winner = q.winner /\ u.egen = q.egen /\ u.notified_egen >= e
  <2>1. CASE q.notified_egen < e /\ u = [q EXCEPT !.takeover = TRUE, !.notified_egen = e]
    <3>1. u \in REP
      BY <1>2, <2>1 DEF REP
    <3>2. /\ u.elect_flags = q.elect_flags /\ u.sites = q.sites /\ u.votes = q.votes
          /\ u.winner = q.winner /\ u.egen = q.egen /\ u.notified_egen = e
      BY <1>2, <2>1 DEF REP
    <3> QED  BY <3>1, <3>2
  <2>2. CASE q.notified_egen >= e /\ u = q
    BY <1>2, <2>2
  <2> QED  BY <1>3, <2>1, <2>2
<1>6. ~u.master /\ u.masterelect
  BY <1>2, <1>3 DEF REP
<1> QED  BY <1>2, <1>4, <1>5, <1>6

-----------------------------------------------------------------------------
(* Actions that cast no vote.                                              *)

LEMMA PlanStep ==
  ASSUME plan \in Bounds, NEW s \in Site
  PROVE  /\ plan.elections[s] > 0 => [plan EXCEPT !.elections[s] = @ - 1] \in Bounds
         /\ plan.takeovers > 0 => [plan EXCEPT !.takeovers = @ - 1] \in Bounds
         /\ plan.crashes[s] > 0 => [plan EXCEPT !.crashes[s] = @ - 1] \in Bounds
<1>1. plan.elections \in [Site -> Nat] /\ plan.crashes \in [Site -> Nat] /\ plan.takeovers \in Nat
  BY DEF Bounds
<1>2. ASSUME plan.elections[s] > 0
      PROVE  [plan EXCEPT !.elections[s] = @ - 1] \in Bounds
  <2> DEFINE f == [plan.elections EXCEPT ![s] = @ - 1]
  <2>1. f \in [Site -> Nat]
    BY <1>1, <1>2
  <2>2. [plan EXCEPT !.elections[s] = @ - 1] = [plan EXCEPT !.elections = f]
    BY DEF Bounds
  <2> HIDE DEF f
  <2> QED  BY <2>1, <2>2 DEF Bounds
<1>3. ASSUME plan.crashes[s] > 0
      PROVE  [plan EXCEPT !.crashes[s] = @ - 1] \in Bounds
  <2> DEFINE f == [plan.crashes EXCEPT ![s] = @ - 1]
  <2>1. f \in [Site -> Nat]
    BY <1>1, <1>3
  <2>2. [plan EXCEPT !.crashes[s] = @ - 1] = [plan EXCEPT !.crashes = f]
    BY DEF Bounds
  <2> HIDE DEF f
  <2> QED  BY <2>1, <2>2 DEF Bounds
<1>4. ASSUME plan.takeovers > 0
      PROVE  [plan EXCEPT !.takeovers = @ - 1] \in Bounds
  BY <1>1, <1>4 DEF Bounds
<1> QED  BY <1>2, <1>3, <1>4

LEMMA QuietStep ==
  ASSUME IInv, NEW s \in Site, NEW r \in REP, NEW t \in Threads, NEW d \in Files,
         NEW ms \in SUBSET Messages,
         rep' = [rep EXCEPT ![s] = r], thread' = [thread EXCEPT ![s] = t],
         disk' = [disk EXCEPT ![s] = d], network' = network \cup ms, plan' \in Bounds,
         UNCHANGED <<cast, elected>>,
         r.egen >= rep[s].egen \/ r.egen >= disk[s].egen, d.egen = disk[s].egen,
         SiteOK(s, r, t, d, cast),
         \A m \in ms : m.from = s /\ m.type \notin {"VOTE1", "VOTE2"}
  PROVE  IInv'
<1>1. disk[s].egen \in Nat
  BY Here DEF Files
<1>2. Frame(s, r, t, d, ms)
  BY <1>1 DEF Frame
<1>3. \A m \in ms : m.from = s /\ MessageOK(r, d, cast', m)
  BY DEF MessageOK
<1> QED  BY <1>2, <1>3, Step

(* A step that changes no more than the region of a site.                  *)
LEMMA RegionStep ==
  ASSUME IInv, NEW s \in Site, NEW r \in REP, NEW ms \in SUBSET Messages,
         rep' = [rep EXCEPT ![s] = r], network' = network \cup ms,
         UNCHANGED <<thread, disk, plan, cast, elected>>, r.egen >= rep[s].egen,
         SiteOK(s, r, thread[s], disk[s], cast),
         \A m \in ms : m.from = s /\ m.type \notin {"VOTE1", "VOTE2"}
  PROVE  IInv'
<1>1. /\ thread' = [thread EXCEPT ![s] = thread[s]] /\ disk' = [disk EXCEPT ![s] = disk[s]]
      /\ plan' \in Bounds
  BY Here DEF TypeOK
<1> QED  BY <1>1, Here, QuietStep

LEMMA LeaveTypes == Idle \in Threads /\ Idle.pc = "idle"
BY DEF Idle, Threads

(* It claims an election.                                                  *)
LEMMA ElectStep ==
  ASSUME IInv, NEW s \in Site, Elect(s)
  PROVE  IInv'
<1> DEFINE r == rep[s]  t == [pc |-> "lockout", egen |-> r.egen]
<1>1. PICK n \in plan.nsites : rep' = [rep EXCEPT ![s] =
        [r EXCEPT !.spent_egen = r.egen, !.nsites = Nsites(r, n)]]
  BY DEF Elect, Set
<1> DEFINE u == [r EXCEPT !.spent_egen = r.egen, !.nsites = Nsites(r, n)]
<1>2. Nsites(r, n) \in Nat
  BY Here DEF Nsites, REP, Bounds
<1>3. /\ u \in REP /\ u.elect_flags = r.elect_flags /\ u.sites = r.sites /\ u.votes = r.votes
      /\ u.winner = r.winner /\ u.egen = r.egen /\ u.master = r.master
      /\ u.takeover = r.takeover
  <2> HIDE DEF r
  <2>1. r \in REP
    BY Here DEF r
  <2> QED  BY <1>2, <2>1 DEF REP
<1>4. thread[s].pc = "idle" /\ ~r.master /\ ~r.takeover
  BY DEF Elect
<1>5. SiteOK(s, u, t, disk[s], cast)
  <2> HIDE DEF u
  <2>1. /\ SiteOK(s, r, thread[s], disk[s], cast) /\ t.pc = "lockout" /\ t.egen = r.egen
        /\ r.egen \in Nat
    BY Here DEF REP
  <2>2. EgenOK(u, t, disk[s]) /\ MasterOK(u, t)
    BY <1>3, <1>4, <2>1 DEF SiteOK, EgenOK, MasterOK, Active
  <2>3. FlagsOK(s, u, t) /\ BallotOK(s, u, t, cast)
    BY <1>3, <1>4, <2>1 DEF SiteOK, FlagsOK, BallotOK, AtEgen, Active
  <2>4. SitesOK(s, u, disk[s]) /\ VotesOK(s, u, disk[s], cast) /\ RankOK(s, u, t)
    BY <1>3, <2>1 DEF SiteOK, SitesOK, VotesOK, RankOK, Voters
  <2> QED  BY <2>2, <2>3, <2>4 DEF SiteOK
<1>6. t \in Threads /\ r.egen \in Nat
  BY Here DEF Threads, REP
<1>7. plan' \in Bounds
  BY Here, PlanStep DEF Elect
<1>8. /\ thread' = [thread EXCEPT ![s] = t] /\ disk' = [disk EXCEPT ![s] = disk[s]]
      /\ network' = network \cup {} /\ UNCHANGED <<cast, elected>>
      /\ rep' = [rep EXCEPT ![s] = u]
  BY <1>1, Here DEF Elect, Goto, TypeOK
<1>9. u.egen >= rep[s].egen /\ disk[s] \in Files
  BY <1>3, <1>6, Here
<1>10. {} \in SUBSET Messages /\ \A m \in {} : m.from = s /\ m.type \notin {"VOTE1", "VOTE2"}
  OBVIOUS
<1> HIDE DEF r, t, u
<1> QED  BY <1>3, <1>5, <1>6, <1>7, <1>8, <1>9, <1>10, QuietStep

(* A step that changes no more than a site's region and thread.            *)
LEMMA SilentStep ==
  ASSUME IInv, NEW s \in Site, NEW r \in REP, NEW t \in Threads,
         rep' = [rep EXCEPT ![s] = r], thread' = [thread EXCEPT ![s] = t], plan' \in Bounds,
         UNCHANGED <<disk, network, cast, elected>>,
         r.egen >= rep[s].egen \/ r.egen >= disk[s].egen,
         SiteOK(s, r, t, disk[s], cast)
  PROVE  IInv'
<1>1. /\ disk' = [disk EXCEPT ![s] = disk[s]] /\ disk[s] \in Files
      /\ network' = network \cup {}
  BY Here DEF TypeOK
<1>2. {} \in SUBSET Messages /\ \A m \in {} : m.from = s /\ m.type \notin {"VOTE1", "VOTE2"}
  OBVIOUS
<1> QED  BY <1>1, <1>2, QuietStep

(* A thread leaves an election that is over.                               *)
LEMMA DoneStep ==
  ASSUME IInv, NEW s \in Site, Set(s, ElectDone(rep[s])), Leave(s),
         UNCHANGED <<disk, network, plan, cast, elected>>
  PROVE  IInv'
<1> DEFINE r == rep[s]  t == thread[s]  u == ElectDone(r)
<1>1. /\ rep' = [rep EXCEPT ![s] = u] /\ thread' = [thread EXCEPT ![s] = Idle]
      /\ plan' = plan /\ UNCHANGED <<disk, network, cast, elected>>
  BY DEF Set, Leave
<1>2. /\ r \in REP /\ t \in Threads /\ disk[s] \in Files /\ plan \in Bounds
      /\ SiteOK(s, r, t, disk[s], cast)
  BY Here
<1>3. MasterOK(u, Idle)
  BY <1>2, ElectDoneFields, LeaveTypes DEF SiteOK, MasterOK
<1>4. SiteOK(s, u, Idle, disk[s], cast)
  <2> HIDE DEF u, r, t
  <2>1. /\ u \in REP /\ u.elect_flags = {} /\ u.sites = {} /\ u.votes = {} /\ u.winner = r.winner
        /\ u.egen >= r.egen /\ (InElection(r) => u.egen > r.egen)
    BY <1>2, ElectDoneFields DEF u
  <2> QED  BY <1>2, <1>3, <2>1, Ended
<1>5. u \in REP /\ u.egen >= rep[s].egen
  BY <1>2, ElectDoneFields
<1> HIDE DEF u, r
<1> QED  BY <1>1, <1>2, <1>4, <1>5, LeaveTypes, SilentStep

LEMMA TooLateStep ==
  ASSUME IInv, NEW s \in Site, TooLate(s) \/ Unavailable(s)
  PROVE  IInv'
BY DoneStep DEF TooLate, Unavailable

(* Who took part in the election that the site is at has not been cut      *)
(* short.                                                                  *)
LEMMA OvertakenStep ==
  ASSUME IInv, NEW s \in Site, Overtaken(s)
  PROVE  IInv'
<1> DEFINE r == rep[s]  t == thread[s]
<1>1. /\ rep' = [rep EXCEPT ![s] = r] /\ thread' = [thread EXCEPT ![s] = Idle]
      /\ plan' = plan /\ UNCHANGED <<disk, network, cast, elected>>
  BY Here DEF Overtaken, Leave, TypeOK
<1>2. /\ r \in REP /\ t \in Threads /\ disk[s] \in Files /\ plan \in Bounds
      /\ SiteOK(s, r, t, disk[s], cast)
      /\ r.egen \in Nat /\ t.egen \in Nat
  BY Here DEF REP, Threads
<1>3. r.egen > t.egen /\ t.pc \in Active
  BY <1>2 DEF Overtaken, SiteOK, EgenOK, FlagsOK, AtEgen, Active
<1> HIDE DEF r, t
<1>4. SiteOK(s, r, Idle, disk[s], cast)
  <2>1. EgenOK(r, Idle, disk[s]) /\ MasterOK(r, Idle)
    BY <1>2, <1>3, LeaveTypes DEF SiteOK, EgenOK, MasterOK, Active
  <2>2. FlagsOK(s, r, Idle) /\ BallotOK(s, r, Idle, cast) /\ RankOK(s, r, Idle)
    BY <1>2, <1>3, LeaveTypes DEF SiteOK, FlagsOK, BallotOK, RankOK, AtEgen, Active
  <2> QED  BY <1>2, <2>1, <2>2 DEF SiteOK
<1>5. r.egen >= rep[s].egen
  BY <1>2 DEF r
<1> QED  BY <1>1, <1>2, <1>4, <1>5, LeaveTypes, SilentStep

LEMMA HasVotedStep ==
  ASSUME IInv, NEW s \in Site, HasVoted(s)
  PROVE  IInv'
<1> DEFINE r == rep[s]  t == thread[s]  v == [pc |-> "voted", egen |-> t.egen]
<1>1. /\ rep' = [rep EXCEPT ![s] = r] /\ thread' = [thread EXCEPT ![s] = v]
      /\ plan' = plan /\ UNCHANGED <<disk, network, cast, elected>>
  BY Here DEF HasVoted, Goto, TypeOK
<1>2. /\ r \in REP /\ t \in Threads /\ disk[s] \in Files /\ plan \in Bounds
      /\ SiteOK(s, r, t, disk[s], cast)
      /\ r.egen \in Nat /\ t.egen \in Nat
  BY Here DEF REP, Threads
<1>3. t.pc = "phase1" /\ "PHASE2" \in r.elect_flags
  BY DEF HasVoted
<1>4. v \in Threads /\ v.pc = "voted" /\ v.egen = t.egen
  BY <1>2 DEF Threads
<1> HIDE DEF r, t, v
<1>5. SiteOK(s, r, v, disk[s], cast)
  <2>1. AtEgen(r, v) <=> AtEgen(r, t)
    BY <1>3, <1>4 DEF AtEgen, Active
  <2>2. EgenOK(r, v, disk[s]) /\ MasterOK(r, v)
    BY <1>2, <1>3, <1>4 DEF SiteOK, EgenOK, MasterOK, Active
  <2>3. FlagsOK(s, r, v) /\ BallotOK(s, r, v, cast) /\ RankOK(s, r, v)
    BY <1>2, <1>3, <1>4, <2>1 DEF SiteOK, FlagsOK, BallotOK, RankOK
  <2> QED  BY <1>2, <2>2, <2>3 DEF SiteOK
<1>6. r.egen >= rep[s].egen
  BY <1>2 DEF r
<1> QED  BY <1>1, <1>2, <1>4, <1>5, <1>6, SilentStep

LEMMA CrashStep ==
  ASSUME IInv, NEW s \in Site, Crash(s)
  PROVE  IInv'
<1> DEFINE d == disk[s]  u == Region(d)
<1>1. /\ rep' = [rep EXCEPT ![s] = u] /\ thread' = [thread EXCEPT ![s] = Idle]
      /\ UNCHANGED <<disk, network, cast, elected>>
  BY DEF Crash, Set, Leave
<1>2. d \in Files /\ plan' \in Bounds
  BY Here, PlanStep DEF Crash
<1>3. u \in REP /\ u.egen = d.egen /\ d.egen \in Nat
  BY <1>2 DEF Region, REP, Files, Tallies
<1>4. /\ u.elect_flags = {} /\ u.sites = {} /\ u.votes = {} /\ ~u.master /\ ~u.takeover
  BY DEF Region
<1> HIDE DEF u, d
<1>5. SiteOK(s, u, Idle, d, cast)
  <2>1. EgenOK(u, Idle, d) /\ MasterOK(u, Idle) /\ FlagsOK(s, u, Idle) /\ BallotOK(s, u, Idle, cast)
    BY <1>3, <1>4, LeaveTypes DEF EgenOK, MasterOK, FlagsOK, BallotOK, AtEgen, Active
  <2>2. SitesOK(s, u, d) /\ VotesOK(s, u, d, cast) /\ RankOK(s, u, Idle)
    BY <1>4, FS_EmptySet, LeaveTypes DEF SitesOK, VotesOK, RankOK, OneEach, Voters
  <2> QED  BY <2>1, <2>2 DEF SiteOK
<1>6. u.egen >= disk[s].egen
  BY <1>3 DEF d
<1> QED  BY <1>1, <1>2, <1>3, <1>5, <1>6, LeaveTypes, SilentStep DEF d

(* What a message of s is, and that it says nothing of votes.              *)
LEMMA PlainMessage ==
  ASSUME NEW s \in Site, NEW r \in REP, NEW type \in {"ALIVE", "NEWMASTER", "DUPMASTER"},
         NEW to \in Site \cup {None}, NEW e \in Nat
  PROVE  /\ {Message(type, s, to, r, e, 0)} \in SUBSET Messages
         /\ \A m \in {Message(type, s, to, r, e, 0)} :
              m.from = s /\ m.type \notin {"VOTE1", "VOTE2"}
<1>1. r.gen \in Nat
  BY DEF REP
<1> QED  BY <1>1 DEF Message, Messages

(* A site that takes over a generation is as it was.                       *)
LEMMA CaughtUpSite ==
  ASSUME IInv, NEW s \in Site, NEW m \in network
  PROVE  LET u == CaughtUp(s, m) IN
         /\ u \in REP /\ u.egen = rep[s].egen /\ u.elect_flags = rep[s].elect_flags
         /\ u.master = rep[s].master
         /\ SiteOK(s, u, thread[s], disk[s], cast)
<1> DEFINE r == rep[s]  u == CaughtUp(s, m)
<1>1. /\ r \in REP /\ thread[s] \in Threads /\ disk[s] \in Files
      /\ SiteOK(s, r, thread[s], disk[s], cast)
  BY Here
<1>2. u \in REP /\ u = [r EXCEPT !.gen = u.gen, !.master_id = u.master_id]
  BY Here, CaughtUpFields
<1> HIDE DEF r, u
<1>3. /\ u.egen = r.egen /\ u.elect_flags = r.elect_flags /\ u.sites = r.sites
      /\ u.votes = r.votes /\ u.winner = r.winner
      /\ u.master = r.master /\ u.masterelect = r.masterelect /\ u.takeover = r.takeover
      /\ u.notified_egen = r.notified_egen
  BY <1>1, <1>2 DEF REP
<1>4. MasterOK(u, thread[s])
  BY <1>1, <1>3 DEF SiteOK, MasterOK
<1>5. SiteOK(s, u, thread[s], disk[s], cast)
  BY <1>1, <1>2, <1>3, <1>4, Same
<1> QED  BY <1>2, <1>3, <1>5 DEF r, u

LEMMA AnswerAliveStep ==
  ASSUME IInv, NEW s \in Site, NEW m \in network, AnswerAlive(s, m)
  PROVE  IInv'
<1> DEFINE u == CaughtUp(s, m)  ms == {Message("ALIVE", s, m.from, u, u.egen, 0)}
<1>1. /\ u \in REP /\ u.egen = rep[s].egen
      /\ SiteOK(s, u, thread[s], disk[s], cast)
  BY CaughtUpSite
<1>2. m.from \in Site /\ rep[s].egen \in Nat
  BY Here DEF TypeOK, Messages, REP
<1>3. ms \in SUBSET Messages /\ \A n \in ms : n.from = s /\ n.type \notin {"VOTE1", "VOTE2"}
  BY <1>1, <1>2, PlainMessage
<1>4. /\ rep' = [rep EXCEPT ![s] = u] /\ network' = network \cup ms
      /\ UNCHANGED <<thread, disk, plan, cast, elected>>
  BY DEF AnswerAlive, Set, Send
<1>5. u.egen >= rep[s].egen
  BY <1>1, <1>2
<1> HIDE DEF u, ms
<1> QED  BY <1>1, <1>3, <1>4, <1>5, RegionStep

LEMMA DupMasterStep ==
  ASSUME IInv, NEW s \in Site, NEW m \in network, DupMaster(s, m)
  PROVE  IInv'
<1> DEFINE r == rep[s]  u == BecomeClient(r)
           ms == IF m.type = "DUPMASTER" THEN {}
                 ELSE {Message("DUPMASTER", s, None, r, 0, 0)}
<1>1. /\ r \in REP /\ thread[s] \in Threads /\ disk[s] \in Files
      /\ SiteOK(s, r, thread[s], disk[s], cast) /\ r.master /\ r.egen \in Nat
  BY Here DEF DupMaster, REP
<1>2. ms \in SUBSET Messages /\ \A n \in ms : n.from = s /\ n.type \notin {"VOTE1", "VOTE2"}
  BY <1>1, PlainMessage
<1>3. /\ rep' = [rep EXCEPT ![s] = u] /\ network' = network \cup ms
      /\ UNCHANGED <<thread, disk, plan, cast, elected>>
  BY DEF DupMaster, Set, Send
<1>4. u = [r EXCEPT !.master = FALSE, !.masterelect = FALSE, !.master_id = None]
  BY DEF BecomeClient
<1> HIDE DEF r, u, ms
<1>5. /\ u \in REP /\ u.egen = r.egen /\ u.elect_flags = r.elect_flags /\ u.sites = r.sites
      /\ u.votes = r.votes /\ u.winner = r.winner
      /\ ~u.master /\ u.takeover = r.takeover
  BY <1>1, <1>4 DEF REP
<1>6. MasterOK(u, thread[s])
  BY <1>1, <1>5 DEF SiteOK, MasterOK
<1>7. SiteOK(s, u, thread[s], disk[s], cast)
  BY <1>1, <1>5, <1>6, Same
<1>8. u.egen >= rep[s].egen
  BY <1>1, <1>5 DEF r
<1> QED  BY <1>2, <1>3, <1>5, <1>7, <1>8, RegionStep

LEMMA ReceiveAliveStep ==
  ASSUME IInv, NEW s \in Site, NEW m \in network, ReceiveAlive(s, m)
  PROVE  IInv'
<1> DEFINE r == CaughtUp(s, m)  t == ElectDone(r)  u == [t EXCEPT !.egen = m.egen]
           v == IF m.egen > r.egen THEN u ELSE r
<1>1. /\ r \in REP /\ r.egen = rep[s].egen
      /\ SiteOK(s, r, thread[s], disk[s], cast)
  BY CaughtUpSite
<1>2. /\ thread[s] \in Threads /\ disk[s] \in Files /\ m.egen \in Nat /\ r.egen \in Nat
  BY <1>1, Here DEF TypeOK, Messages, REP
<1>3. /\ rep' = [rep EXCEPT ![s] = v] /\ network' = network \cup {}
      /\ UNCHANGED <<thread, disk, plan, cast, elected>>
  BY DEF ReceiveAlive, Set
<1> HIDE DEF r
<1>4. /\ t \in REP /\ t.elect_flags = {} /\ t.sites = {} /\ t.votes = {} /\ t.winner = r.winner
      /\ t.master = r.master /\ t.masterelect = r.masterelect /\ t.takeover = r.takeover
      /\ t.notified_egen = r.notified_egen
  BY <1>1, ElectDoneFields
<1> HIDE DEF t
<1>5. /\ u \in REP /\ u.elect_flags = {} /\ u.sites = {} /\ u.votes = {} /\ u.winner = r.winner
      /\ u.egen = m.egen
      /\ u.master = r.master /\ u.masterelect = r.masterelect /\ u.takeover = r.takeover
      /\ u.notified_egen = r.notified_egen
  BY <1>2, <1>4 DEF REP
<1> HIDE DEF u
<1>6. ASSUME m.egen > r.egen
      PROVE  SiteOK(s, u, thread[s], disk[s], cast)
  <2>1. MasterOK(u, thread[s])
    BY <1>1, <1>5 DEF SiteOK, MasterOK
  <2> QED  BY <1>1, <1>2, <1>5, <1>6, <2>1, Ended
<1>7. v \in REP /\ v.egen >= rep[s].egen /\ SiteOK(s, v, thread[s], disk[s], cast)
  BY <1>1, <1>2, <1>5, <1>6
<1> HIDE DEF v
<1>8. {} \in SUBSET Messages /\ \A n \in {} : n.from = s /\ n.type \notin {"VOTE1", "VOTE2"}
  OBVIOUS
<1> QED  BY <1>3, <1>7, <1>8, RegionStep

LEMMA ReceiveNewMasterStep ==
  ASSUME IInv, NEW s \in Site, NEW m \in network, ReceiveNewMaster(s, m)
  PROVE  IInv'
<1> DEFINE r == rep[s]  t == ElectDone(r)
           e == IF t.egen <= m.gen THEN m.gen + 1 ELSE t.egen
           u == [t EXCEPT !.gen = m.gen, !.master_id = m.from, !.egen = e]
           d == [disk[s] EXCEPT !.gen = m.gen]
<1>1. /\ r \in REP /\ thread[s] \in Threads /\ disk[s] \in Files
      /\ SiteOK(s, r, thread[s], disk[s], cast) /\ r.egen \in Nat /\ plan \in Bounds
      /\ m.gen \in Nat /\ m.from \in Site
  BY Here DEF TypeOK, Messages, REP
<1>2. /\ t \in REP /\ t.elect_flags = {} /\ t.sites = {} /\ t.votes = {} /\ t.winner = r.winner
      /\ t.egen >= r.egen /\ (InElection(r) => t.egen > r.egen)
      /\ t.master = r.master /\ t.masterelect = r.masterelect /\ t.takeover = r.takeover
      /\ t.notified_egen = r.notified_egen
  BY <1>1, ElectDoneFields
<1>3. /\ thread' = [thread EXCEPT ![s] = thread[s]] /\ network' = network \cup {}
      /\ plan' = plan /\ UNCHANGED <<cast, elected>>
  BY Here DEF ReceiveNewMaster, TypeOK
<1>4. {} \in SUBSET Messages /\ \A n \in {} : n.from = s /\ n.type \notin {"VOTE1", "VOTE2"}
  OBVIOUS
<1>5. CASE r.gen /= m.gen \/ r.master_id /= m.from
  <2>1. rep' = [rep EXCEPT ![s] = u] /\ disk' = [disk EXCEPT ![s] = d]
    <3>1. disk' = [disk EXCEPT ![s].gen = m.gen]
      BY <1>5 DEF ReceiveNewMaster
    <3>2. disk' = [disk EXCEPT ![s] = d]
      BY <3>1, Here DEF TypeOK
    <3> QED  BY <1>5, <3>2 DEF ReceiveNewMaster, Set
  <2>2. d \in Files /\ d.egen = disk[s].egen
    BY <1>1 DEF Files
  <2> HIDE DEF t, d
  <2>3. e \in Nat /\ e >= t.egen
    BY <1>1, <1>2 DEF REP
  <2> HIDE DEF e
  <2>4. /\ u \in REP /\ u.elect_flags = {} /\ u.sites = {} /\ u.votes = {} /\ u.winner = r.winner
        /\ u.egen = e
        /\ u.master = r.master /\ u.masterelect = r.masterelect /\ u.takeover = r.takeover
        /\ u.notified_egen = r.notified_egen
    BY <1>1, <1>2, <2>3 DEF REP
  <2> HIDE DEF r, u
  <2>5. u.egen >= r.egen /\ (InElection(r) => u.egen > r.egen)
    BY <1>1, <1>2, <2>3, <2>4 DEF REP
  <2>6. MasterOK(u, thread[s])
    BY <1>1, <2>4 DEF SiteOK, MasterOK
  <2>7. SiteOK(s, u, thread[s], d, cast)
    BY <1>1, <2>2, <2>4, <2>5, <2>6, Ended
  <2>8. u.egen >= rep[s].egen
    BY <2>5 DEF r
  <2> QED  BY <1>1, <1>3, <1>4, <2>1, <2>2, <2>4, <2>7, <2>8, QuietStep
<1>6. CASE ~(r.gen /= m.gen \/ r.master_id /= m.from)
  <2>1. rep' = [rep EXCEPT ![s] = t] /\ UNCHANGED disk
    BY <1>6 DEF ReceiveNewMaster, Set
  <2> HIDE DEF t
  <2>2. MasterOK(t, thread[s])
    BY <1>1, <1>2 DEF SiteOK, MasterOK
  <2>3. SiteOK(s, t, thread[s], disk[s], cast)
    BY <1>1, <1>2, <2>2, Ended
  <2>4. UNCHANGED <<thread, disk, plan, cast, elected>>
    BY <2>1 DEF ReceiveNewMaster
  <2> QED  BY <1>2, <1>3, <1>4, <2>1, <2>3, <2>4, RegionStep
<1> QED  BY <1>5, <1>6

LEMMA TakeOverStep ==
  ASSUME IInv, NEW s \in Site, TakeOver(s)
  PROVE  IInv'
<1> DEFINE r == rep[s]  t == ElectDone(r)
           g == IF r.egen > r.gen THEN r.egen ELSE r.gen + 1
           e == IF t.egen <= g THEN g + 1 ELSE t.egen
           u == [t EXCEPT !.gen = g, !.egen = e, !.master = TRUE,
                          !.masterelect = FALSE, !.master_id = s, !.takeover = FALSE]
           d == [disk[s] EXCEPT !.gen = g]
           ms == {Message("NEWMASTER", s, None, u, 0, 0)}
<1>1. /\ r \in REP /\ thread[s] \in Threads /\ disk[s] \in Files
      /\ SiteOK(s, r, thread[s], disk[s], cast) /\ r.egen \in Nat /\ r.gen \in Nat
  BY Here DEF REP
<1>2. r.takeover /\ r.masterelect
  BY <1>1 DEF TakeOver, SiteOK, MasterOK
<1>3. /\ t \in REP /\ t.elect_flags = {} /\ t.sites = {} /\ t.votes = {} /\ t.winner = r.winner
      /\ t.egen >= r.egen /\ (InElection(r) => t.egen > r.egen)
      /\ t.notified_egen = r.notified_egen
  BY <1>1, ElectDoneFields
<1>4. /\ rep' = [rep EXCEPT ![s] = u] /\ network' = network \cup ms
      /\ UNCHANGED <<thread, cast, elected>>
  BY <1>2 DEF TakeOver, Set, Send
<1>5. disk' = [disk EXCEPT ![s] = d] /\ thread' = [thread EXCEPT ![s] = thread[s]]
  <2>1. disk' = [disk EXCEPT ![s].gen = g]
    BY DEF TakeOver
  <2> QED  BY <1>4, <2>1, Here DEF TypeOK
<1>6. plan' \in Bounds
  BY Here, PlanStep DEF TakeOver
<1>7. g \in Nat
  BY <1>1
<1> HIDE DEF t, g
<1>8. e \in Nat /\ e >= t.egen
  BY <1>3, <1>7 DEF REP
<1>9. d \in Files /\ d.egen = disk[s].egen
  BY <1>1, <1>7 DEF Files
<1> HIDE DEF d, e
<1>10. u \in REP
  BY <1>3, <1>7, <1>8 DEF REP
<1>11. /\ u.elect_flags = {} /\ u.sites = {} /\ u.votes = {} /\ u.winner = r.winner
       /\ u.egen = e /\ ~u.takeover /\ u.notified_egen = r.notified_egen
  BY <1>3, <1>7, <1>8 DEF REP
<1> HIDE DEF r, u
<1>12. u.egen >= r.egen /\ (InElection(r) => u.egen > r.egen)
  BY <1>1, <1>3, <1>8, <1>11 DEF REP
<1>13. MasterOK(u, thread[s])
  BY <1>1, <1>2, <1>11 DEF SiteOK, MasterOK
<1>14. SiteOK(s, u, thread[s], d, cast)
  BY <1>1, <1>9, <1>10, <1>11, <1>12, <1>13, Ended
<1>15. ms \in SUBSET Messages /\ \A n \in ms : n.from = s /\ n.type \notin {"VOTE1", "VOTE2"}
  BY <1>10, PlainMessage
<1>16. u.egen >= rep[s].egen
  BY <1>12 DEF r
<1> HIDE DEF ms
<1> QED  BY <1>1, <1>4, <1>5, <1>6, <1>9, <1>10, <1>14, <1>15, <1>16, QuietStep

-----------------------------------------------------------------------------
(* Actions by which a site hears of another, or takes part.                *)

(* What is known once a site, in the election that this one is at, has     *)
(* been tallied, and whom this one prefers then.                           *)
Prefers(r, q, t, w) ==
  /\ OneEach(t.sites) /\ IsFiniteSet(t.sites)
  /\ \A v \in t.sites : (v.eid = q /\ v.egen = r.egen) \/ v \in r.sites
  /\ Eids(t.sites) = Eids(r.sites) \cup {q}
  /\ w \in Eids(t.sites) /\ w \in {q, r.winner}
  /\ \A v \in t.sites : Rank(v.eid) <= Rank(w)

LEMMA Heard ==
  ASSUME NEW r \in REP, NEW q \in Site,
         OneEach(r.sites), IsFiniteSet(r.sites), r.sites /= {} => r.winner \in Eids(r.sites),
         \A v \in r.sites : Rank(v.eid) <= Rank(r.winner),
         ~Ignored(r.sites, q, r.egen),
         NEW t \in REP, t.sites = Tally(r.sites, q, r.egen), t.winner = r.winner,
         NEW w \in CmpVote(t, q)
  PROVE  Prefers(r, q, t, w)
<1>1. r.sites \in Tallies /\ r.egen \in Nat
  BY DEF REP
<1>2. Tallied(r.sites, q, r.egen, t.sites)
  BY <1>1, TallyFields
<1>3. /\ OneEach(t.sites) /\ IsFiniteSet(t.sites)
      /\ \A v \in t.sites : v.eid = q => v.egen = r.egen
      /\ \A v \in t.sites : v.eid /= q => v \in r.sites
      /\ Eids(t.sites) = Eids(r.sites) \cup {q}
      /\ r.sites = {} => t.sites = {[eid |-> q, egen |-> r.egen]}
  BY <1>2 DEF Tallied
<1>4. w \in {q, r.winner} /\ (r.sites = {} => w = q)
  <2>1. /\ w \in {q, t.winner}
        /\ \A e : t.sites = {[eid |-> q, egen |-> e]} => w = q
    BY CmpVoteFields
  <2> QED  BY <1>3, <2>1
<1>5. ASSUME NEW v \in t.sites
      PROVE  Rank(v.eid) <= Rank(w)
  <2>1. v.eid \in Site /\ Rank(v.eid) \in Nat /\ Rank(q) \in Nat
    BY ElectionAssumption DEF REP, Tallies
  <2>2. CASE Cardinality(t.sites) = 1
    <3>1. Eids(t.sites) = {v.eid}
      <4>1. PICK x : t.sites = {x}
        BY <1>3, <2>2, FS_Singleton
      <4>2. t.sites = {v}
        BY <4>1
      <4> QED  BY <4>2 DEF Eids
    <3>2. w = v.eid
      <4>1. w \in Eids(t.sites)
        BY <1>3, <1>4
      <4> QED  BY <3>1, <4>1
    <3> QED  BY <2>1, <3>2
  <2>3. CASE Cardinality(t.sites) /= 1
    <3>1. Rank(w) >= Rank(q) /\ Rank(w) >= Rank(r.winner)
      BY <2>3, CmpVoteFields
    <3>2. CASE v.eid = q
      BY <3>1, <3>2, <2>1
    <3>3. CASE v \in r.sites
      <4>1. Rank(v.eid) <= Rank(r.winner) /\ r.winner \in Eids(r.sites)
        BY <3>3
      <4>2. r.winner \in Site /\ w \in Site
        <5>1. PICK x \in r.sites : x.eid = r.winner
          BY <4>1 DEF Eids
        <5> QED  BY <1>4, <5>1 DEF REP, Tallies
      <4>3. Rank(r.winner) \in Nat /\ Rank(w) \in Nat
        BY <4>2, ElectionAssumption
      <4> QED  BY <2>1, <3>1, <4>1, <4>3
    <3> QED  BY <1>3, <3>2, <3>3
  <2> QED  BY <2>2, <2>3
<1> QED  BY <1>3, <1>4, <1>5 DEF Prefers

LEMMA ParticipateStep ==
  ASSUME IInv, NEW s \in Site, Participate(s)
  PROVE  IInv'
<1> DEFINE r == rep[s]  e == r.egen
           d == [disk[s] EXCEPT !.egen = e + 1]
           flags == (r.elect_flags \ {"TALLY"}) \cup {"PHASE1"}
           sites == Tally(r.sites, s, e)
           t == [r EXCEPT !.elect_flags = flags, !.sites = sites]
<1>1. /\ r \in REP /\ thread[s] \in Threads /\ disk[s] \in Files /\ plan \in Bounds
      /\ SiteOK(s, r, thread[s], disk[s], cast) /\ e \in Nat
      /\ \A b \in cast : b.voter = s => b.egen < disk[s].egen
      /\ cast \subseteq FirstVotes
  BY Here DEF REP, TypeOK, FirstVotes
<1>2. thread[s].pc = "lockout" /\ thread[s].egen = e
  BY DEF Participate
<1>3. PICK w \in CmpVote(t, s) :
        /\ rep' = [rep EXCEPT ![s] = [t EXCEPT !.winner = w]]
        /\ thread' = [thread EXCEPT ![s] =
             [pc |-> IF Phase1Done([t EXCEPT !.winner = w]) THEN "vote" ELSE "phase1",
              egen |-> e]]
        /\ network' = network \cup {Message("VOTE1", s, None, t, e, t.nsites)}
  BY <1>2 DEF Participate, Set, Goto, Send
<1> DEFINE u == [t EXCEPT !.winner = w]
           v == [pc |-> IF Phase1Done(u) THEN "vote" ELSE "phase1", egen |-> e]
           ms == {Message("VOTE1", s, None, t, e, t.nsites)}
<1>4. disk' = [disk EXCEPT ![s] = d]
  <2>1. disk' = [disk EXCEPT ![s].egen = e + 1]
    BY <1>2 DEF Participate
  <2> QED  BY <2>1, Here DEF TypeOK
<1>5. rep' = [rep EXCEPT ![s] = u] /\ thread' = [thread EXCEPT ![s] = v]
      /\ network' = network \cup ms /\ UNCHANGED <<plan, cast, elected>>
  BY <1>3 DEF Participate
<1>6. disk[s].egen <= e /\ disk[s].egen \in Nat
  BY <1>1, <1>2 DEF SiteOK, EgenOK, Files
<1>7. d \in Files /\ d.egen = e + 1
  BY <1>1 DEF Files
<1>8. ~Ignored(r.sites, s, e)
  BY <1>1, <1>6 DEF Ignored, SiteOK, SitesOK
<1>9. v \in Threads /\ v.egen = e /\ v.pc \in {"phase1", "vote"}
  BY <1>1 DEF Threads
<1>10. sites \in Tallies /\ flags \in SUBSET {"TALLY", "PHASE1", "PHASE2"}
  <2>1. r.sites \in Tallies
    BY <1>1 DEF REP
  <2>2. OneEach(r.sites) /\ IsFiniteSet(r.sites)
    BY <1>1 DEF SiteOK, SitesOK
  <2>3. flags \in SUBSET {"TALLY", "PHASE1", "PHASE2"}
    BY <1>1 DEF REP
  <2>4. Tallied(r.sites, s, e, sites)
    BY <1>1, <1>8, <2>1, <2>2, TallyFields
  <2> HIDE DEF sites
  <2> QED  BY <2>3, <2>4 DEF Tallied
<1> HIDE DEF sites, flags
<1>11. /\ t \in REP /\ t.sites = sites /\ t.winner = r.winner /\ t.egen = e
       /\ t.elect_flags = flags /\ t.votes = r.votes
       /\ t.master = r.master /\ t.masterelect = r.masterelect /\ t.takeover = r.takeover
       /\ t.notified_egen = r.notified_egen /\ t.gen \in Nat /\ t.nsites \in Nat
  <2> HIDE DEF r
  <2>1. t \in REP
    BY <1>1, <1>10 DEF REP
  <2> QED  BY <1>1, <2>1 DEF REP
<1>12. w \in {s, r.winner}
  BY <1>11, CmpVoteFields
<1> HIDE DEF t, d, v
<1>13. /\ u \in REP /\ u.sites = t.sites /\ u.winner = w /\ u.egen = e
       /\ u.elect_flags = t.elect_flags /\ u.votes = r.votes
       /\ u.master = r.master /\ u.masterelect = r.masterelect /\ u.takeover = r.takeover
       /\ u.notified_egen = r.notified_egen
  BY <1>11, <1>12, <1>1 DEF REP
<1>14. /\ Message("VOTE1", s, None, t, e, t.nsites) \in Messages
       /\ \A m \in ms : m.from = s /\ m.type = "VOTE1" /\ m.egen = e
  BY <1>1, <1>11 DEF Message, Messages
<1>15. /\ OneEach(u.sites) /\ IsFiniteSet(u.sites)
       /\ \A q \in u.sites : (q.eid = s /\ q.egen = e) \/ q \in r.sites
       /\ s \in Eids(u.sites) /\ w \in Eids(u.sites)
       /\ \A q \in u.sites : Rank(q.eid) <= Rank(w)
  <2>1. /\ OneEach(r.sites) /\ IsFiniteSet(r.sites)
        /\ r.sites /= {} => r.winner \in Eids(r.sites)
        /\ \A q \in r.sites : Rank(q.eid) <= Rank(r.winner)
    BY <1>1 DEF SiteOK, SitesOK, RankOK
  <2>2. t.sites = Tally(r.sites, s, r.egen)
    BY <1>11 DEF sites
  <2> HIDE DEF r, u
  <2>3. Prefers(r, s, t, w)
    BY <1>1, <1>8, <1>11, <2>1, <2>2, Heard
  <2> QED  BY <1>13, <2>3 DEF Prefers
<1> HIDE DEF u, ms
<1>16. SiteOK(s, u, v, d, cast)
  <2>1. AtEgen(u, v) /\ "PHASE1" \in u.elect_flags
    BY <1>9, <1>11, <1>13 DEF AtEgen, Active, flags
  <2>2. EgenOK(u, v, d)
    BY <1>1, <1>7, <1>9, <1>13 DEF EgenOK, Active
  <2>3. FlagsOK(s, u, v)
    BY <1>9, <1>15, <2>1 DEF FlagsOK, InElection
  <2>4. ASSUME NEW q \in u.sites
        PROVE  /\ q.egen = e
               /\ q.eid = s => d.egen > q.egen
               /\ q.eid /= s => disk[q.eid].egen > q.egen /\ rep[q.eid].egen >= q.egen
    <3>1. CASE q.eid = s /\ q.egen = e
      BY <1>1, <1>7, <3>1
    <3>2. CASE q \in r.sites
      BY <1>1, <1>6, <1>7, <3>2 DEF SiteOK, SitesOK
    <3> QED  BY <1>15, <3>1, <3>2
  <2>5. SitesOK(s, u, d)
    BY <1>13, <1>15, <2>4 DEF SitesOK
  <2>6. VotesOK(s, u, d, cast)
    <3>1. \A q \in u.votes : q.eid = s
      BY <1>1, <1>6, <1>13 DEF SiteOK, VotesOK
    <3>2. ASSUME s \in Voters(u)
          PROVE  "PHASE2" \in u.elect_flags /\ u.winner = s /\ OnlyBallot(cast, s, u.egen, s)
      <4>1. s \in Voters(r)
        BY <1>13, <3>2 DEF Voters
      <4>2. "PHASE2" \in r.elect_flags /\ r.winner = s /\ OnlyBallot(cast, s, e, s)
        BY <1>1, <4>1 DEF SiteOK, VotesOK
      <4> QED  BY <1>11, <1>12, <1>13, <4>2 DEF flags
    <3>3. OneEach(u.votes) /\ IsFiniteSet(u.votes)
      BY <1>1, <1>13 DEF SiteOK, VotesOK
    <3> QED  BY <3>1, <3>2, <3>3 DEF VotesOK
  <2>7. NoBallot(cast, s, e)
    BY <1>1, <1>6 DEF NoBallot, FirstVotes
  <2>8. w \in Site
    <3>1. \A q \in u.sites : q.eid \in Site
      BY <1>13 DEF REP, Tallies
    <3> QED  BY <1>15, <3>1 DEF Eids
  <2>9. w /= s => disk[w].egen > e
    <3>1. PICK q \in u.sites : q.eid = w
      BY <1>15 DEF Eids
    <3> QED  BY <2>4, <3>1
  <2>10. BallotOK(s, u, v, cast)
    BY <1>9, <1>13, <2>7, <2>8, <2>9 DEF BallotOK, NoBallot, OnlyBallot
  <2>11. MasterOK(u, v)
    BY <1>1, <1>2, <1>9, <1>13 DEF SiteOK, MasterOK
  <2>12. RankOK(s, u, v)
    BY <1>13, <1>15 DEF RankOK, Follows, Eids
  <2> QED  BY <2>2, <2>3, <2>5, <2>6, <2>10, <2>11, <2>12 DEF SiteOK
<1>17. Frame(s, u, v, d, ms)
  BY <1>1, <1>4, <1>5, <1>6, <1>7, <1>13 DEF Frame
<1>18. ms \in SUBSET Messages /\ \A m \in ms : m.from = s /\ MessageOK(u, d, cast, m)
  BY <1>1, <1>7, <1>13, <1>14 DEF MessageOK, ms
<1> QED  BY <1>1, <1>5, <1>7, <1>9, <1>13, <1>16, <1>17, <1>18, Step

-----------------------------------------------------------------------------
(* Votes.                                                                  *)

(* A first vote is for whom the site prefers, and keeps what was cast.     *)
LEMMA FirstVoteFields ==
  ASSUME cast \subseteq FirstVotes, NEW s \in Site, NEW e \in Nat, NEW c \in Site
  PROVE  /\ cast \subseteq FirstVote(s, e, c)
         /\ \A b \in FirstVote(s, e, c) : b \in cast \/ b = Ballot(e, s, c)
         /\ \/ FirstVote(s, e, c) = cast
            \/ NoBallot(cast, s, e) /\ FirstVote(s, e, c) = cast \cup {Ballot(e, s, c)}
         /\ OnlyBallot(cast, s, e, c) =>
              OnlyBallot(FirstVote(s, e, c), s, e, c) /\ Ballot(e, s, c) \in FirstVote(s, e, c)
<1> DEFINE b0 == Ballot(e, s, c)
<1>1. b0.egen = e /\ b0.voter = s /\ b0.candidate = c
  BY DEF Ballot
<1>2. CASE \E b \in cast : b.egen = e /\ b.voter = s
  <2>1. FirstVote(s, e, c) = cast
    BY <1>2 DEF FirstVote
  <2>2. ASSUME OnlyBallot(cast, s, e, c) PROVE b0 \in cast
    <3>1. PICK b \in cast : b.egen = e /\ b.voter = s
      BY <1>2
    <3>2. b.candidate = c
      BY <2>2, <3>1 DEF OnlyBallot
    <3>3. b = b0
      BY <3>1, <3>2 DEF FirstVotes, Ballot
    <3> QED  BY <3>3
  <2> QED  BY <2>1, <2>2
<1>3. CASE ~\E b \in cast : b.egen = e /\ b.voter = s
  <2>1. FirstVote(s, e, c) = cast \cup {b0} /\ NoBallot(cast, s, e)
    BY <1>3 DEF FirstVote, NoBallot
  <2>2. OnlyBallot(cast \cup {b0}, s, e, c)
    BY <1>1, <2>1 DEF NoBallot, OnlyBallot
  <2> QED  BY <2>1, <2>2
<1> QED  BY <1>2, <1>3

(* A site votes at e, the egen of its thread: for whom it prefers now, or, *)
(* if the site has left that election, preferred then.                     *)
LEMMA Votes ==
  ASSUME NEW s \in Site, NEW r \in REP, NEW t \in Threads, NEW d \in Files,
         cast \subseteq FirstVotes, \A b \in cast : b.voter = s => b.egen < d.egen,
         SiteOK(s, r, t, d, cast), t.pc \in Active, r.winner \in Site,
         AtEgen(r, t) => OnlyBallot(cast, s, t.egen, r.winner),
         NEW v \in Threads, v.egen = t.egen, v.pc = "voted" \/ (v = t /\ AtEgen(r, t))
  PROVE  LET u == Voted(s, t.egen, r) IN
         /\ u \in REP /\ u.egen = r.egen /\ u.winner = r.winner
         /\ u.master = r.master /\ u.masterelect = r.masterelect /\ u.takeover = r.takeover
         /\ u.notified_egen = r.notified_egen
         /\ SiteOK(s, u, v, d, FirstVote(s, t.egen, r.winner))
<1> DEFINE e == t.egen  w == r.winner  cs == FirstVote(s, e, w)
           votes == IF w = s THEN Tally(r.votes, s, e) ELSE r.votes
           flags == (r.elect_flags \ {"PHASE1"}) \cup {"PHASE2"}
           u == [r EXCEPT !.votes = votes, !.elect_flags = flags]
<1>1. u = Voted(s, e, r)
  BY DEF Voted
<1>2. e \in Nat /\ r.egen \in Nat /\ d.egen \in Nat /\ d.egen = e + 1 /\ e <= r.egen
  BY DEF Threads, REP, Files, SiteOK, EgenOK, Active
<1>3. /\ cast \subseteq cs
      /\ \A b \in cs : b \in cast \/ b = Ballot(e, s, w)
      /\ OnlyBallot(cast, s, e, w) => OnlyBallot(cs, s, e, w)
  BY <1>2, FirstVoteFields
<1>4. /\ votes \in Tallies /\ OneEach(votes) /\ IsFiniteSet(votes)
      /\ \A q \in votes : q.eid /= s => q \in r.votes
      /\ s \in Eids(votes) => s \in Voters(r) \/ w = s
  <2>1. r.votes \in Tallies /\ OneEach(r.votes) /\ IsFiniteSet(r.votes)
    BY DEF REP, SiteOK, VotesOK
  <2>2. CASE w = s /\ ~Ignored(r.votes, s, e)
    <3>1. Tallied(r.votes, s, e, votes)
      BY <1>2, <2>1, <2>2, TallyFields
    <3> HIDE DEF votes
    <3> QED  BY <2>2, <3>1 DEF Tallied
  <2>3. CASE ~(w = s /\ ~Ignored(r.votes, s, e))
    <3>1. votes = r.votes
      BY <2>3 DEF Tally
    <3> HIDE DEF votes
    <3> QED  BY <2>1, <3>1 DEF Voters, Eids
  <2> QED  BY <2>2, <2>3
<1>5. flags \in SUBSET {"TALLY", "PHASE1", "PHASE2"} /\ "PHASE2" \in flags /\ "PHASE1" \notin flags
  BY DEF REP
<1> HIDE DEF votes, flags
<1>6. u \in REP
  BY <1>4, <1>5 DEF REP
<1>7. /\ u.egen = r.egen /\ u.winner = w /\ u.sites = r.sites /\ u.votes = votes
      /\ u.elect_flags = flags
      /\ u.master = r.master /\ u.masterelect = r.masterelect /\ u.takeover = r.takeover
      /\ u.notified_egen = r.notified_egen
  BY DEF REP
<1> HIDE DEF u, cs, e, w
<1>8. AtEgen(u, v) => AtEgen(r, t)
  BY <1>7 DEF AtEgen, e
<1>9. EgenOK(u, v, d) /\ MasterOK(u, v)
  BY <1>2, <1>7 DEF SiteOK, EgenOK, MasterOK, Active, e
<1>10. FlagsOK(s, u, v)
  BY <1>5, <1>7, <1>8 DEF SiteOK, FlagsOK, InElection
<1>11. SitesOK(s, u, d)
  BY <1>7 DEF SiteOK, SitesOK, w
<1>12. VotesOK(s, u, d, cs)
  <2>1. ASSUME NEW q \in votes, q.eid /= s
        PROVE  q.egen = r.egen /\ d.egen > r.egen /\ Ballot(r.egen, q.eid, s) \in cs
    BY <1>3, <1>4, <2>1 DEF SiteOK, VotesOK
  <2>2. ASSUME s \in Voters(u)
        PROVE  w = s /\ OnlyBallot(cs, s, r.egen, s)
    <3>1. s \in Voters(r) \/ w = s
      BY <1>4, <1>7, <2>2 DEF Voters, Eids
    <3>2. w = s
      BY <3>1 DEF SiteOK, VotesOK, w
    <3>3. CASE r.egen = e
      <4>1. AtEgen(r, t)
        BY <3>3 DEF AtEgen, e
      <4> QED  BY <1>3, <3>2, <3>3, <4>1 DEF e, w
    <3>4. CASE r.egen > e
      <4>1. \A b \in cs : ~(b.egen = r.egen /\ b.voter = s)
        BY <1>2, <1>3, <3>4 DEF Ballot, FirstVotes
      <4> QED  BY <3>2, <4>1 DEF OnlyBallot
    <3> QED  BY <1>2, <3>2, <3>3, <3>4
  <2> QED  BY <1>4, <1>5, <1>7, <2>1, <2>2 DEF VotesOK
<1>13. BallotOK(s, u, v, cs)
  <2>1. CASE v.pc = "voted"
    BY <2>1 DEF BallotOK
  <2>2. CASE v = t /\ AtEgen(r, t)
    <3>1. OnlyBallot(cs, s, e, w)
      BY <1>3, <2>2 DEF e, w
    <3>2. t.pc = "vote" => (w /= s => disk[w].egen > e)
      BY DEF SiteOK, BallotOK, e, w
    <3> QED  BY <1>5, <1>7, <2>2, <3>1, <3>2 DEF BallotOK, e, w
  <2> QED  BY <2>1, <2>2
<1>14. RankOK(s, u, v)
  BY <1>7 DEF SiteOK, RankOK, w
<1>15. SiteOK(s, u, v, d, cs)
  BY <1>9, <1>10, <1>11, <1>12, <1>13, <1>14 DEF SiteOK
<1> QED  BY <1>1, <1>6, <1>7, <1>15 DEF e, w, cs

(* What is sent with a vote, at e, for the site c.                         *)
VoteMessages(s, c, r, e) == IF c = s THEN {} ELSE {Message("VOTE2", s, c, r, e, 0)}

MessagesOK(ms, s, r, d, cs) ==
  ms \in SUBSET Messages /\ \A m \in ms : m.from = s /\ MessageOK(r, d, cs, m)

LEMMA VoteMessage ==
  ASSUME NEW s \in Site, NEW r \in REP, NEW d \in Files, NEW e \in Nat, NEW c \in Site,
         NEW cs, NEW u, c /= s => disk[c].egen > e /\ (Ballot(e, s, c) \in cs \/ rep[c].egen > e)
  PROVE  MessagesOK(VoteMessages(s, c, r, e), s, u, d, cs)
<1> DEFINE ms == VoteMessages(s, c, r, e)
<1>1. r.gen \in Nat
  BY DEF REP
<1>2. CASE c = s
  BY <1>2 DEF VoteMessages, MessagesOK
<1>3. CASE c /= s
  <2> DEFINE m == Message("VOTE2", s, c, r, e, 0)
  <2>1. m.type = "VOTE2" /\ m.from = s /\ m.to = c /\ m.egen = e
    BY DEF Message
  <2>2. m \in Messages
    BY <1>1 DEF Message, Messages
  <2> HIDE DEF m
  <2>3. MessageOK(u, d, cs, m)
    BY <1>3, <2>1 DEF MessageOK
  <2>4. ms = {m}
    BY <1>3 DEF m, VoteMessages
  <2> QED  BY <2>1, <2>2, <2>3, <2>4 DEF MessagesOK
<1> QED  BY <1>2, <1>3

(* What was heard of takes part in the election that s is at.              *)
LEMMA WinnerIsAt ==
  ASSUME NEW s \in Site, NEW r \in REP, NEW d, SitesOK(s, r, d), r.sites /= {}
  PROVE  /\ r.winner \in Site
         /\ r.winner /= s => disk[r.winner].egen > r.egen /\ rep[r.winner].egen >= r.egen
<1>1. PICK q \in r.sites : q.eid = r.winner
  BY DEF SitesOK, Eids
<1>2. q.eid \in Site
  BY DEF REP, Tallies
<1> QED  BY <1>1, <1>2 DEF SitesOK

(* Who takes part in the election that it is at has heard of itself.       *)
LEMMA FollowsWinner ==
  ASSUME NEW s \in Site, NEW r, NEW t, NEW d, NEW cs, SiteOK(s, r, t, d, cs), AtEgen(r, t),
         NEW e
  PROVE  Follows(s, r.winner, e)
<1>1. s \in Eids(r.sites) /\ \A v \in r.sites : Rank(v.eid) <= Rank(r.winner)
  BY DEF SiteOK, FlagsOK, RankOK
<1> QED  BY <1>1 DEF Eids, Follows

LEMMA VoteStep ==
  ASSUME IInv, NEW s \in Site, Vote(s)
  PROVE  IInv'
<1> DEFINE r == rep[s]  t == thread[s]  e == t.egen  c == r.winner  d == disk[s]
           u == Voted(s, e, r)
           v == [pc |-> "voted", egen |-> e]
           ms == VoteMessages(s, c, r, e)
           cs == FirstVote(s, e, c)
<1>1. /\ r \in REP /\ t \in Threads /\ d \in Files /\ plan \in Bounds
      /\ SiteOK(s, r, t, d, cast) /\ e \in Nat /\ r.egen \in Nat /\ d.egen \in Nat
      /\ \A b \in cast : b.voter = s => b.egen < d.egen
      /\ cast \subseteq FirstVotes
  BY Here DEF REP, Threads, Files, TypeOK, FirstVotes
<1>2. /\ rep' = [rep EXCEPT ![s] = u] /\ thread' = [thread EXCEPT ![s] = v]
      /\ disk' = [disk EXCEPT ![s] = d] /\ network' = network \cup ms /\ cast' = cs
      /\ UNCHANGED <<plan, elected>>
  BY Here DEF Vote, CastVote, VoteMessages, Set, Goto, Send, TypeOK
<1>3. \/ t.pc = "vote"
      \/ t.pc = "phase1" /\ r.egen <= e /\ "PHASE2" \notin r.elect_flags
  BY DEF Vote
<1>4. v \in Threads /\ v.egen = e /\ v.pc = "voted" /\ t.pc \in Active
  BY <1>1, <1>3 DEF Threads, Active
<1> HIDE DEF r, t, d
<1>5. d.egen = e + 1 /\ e <= r.egen
  BY <1>1, <1>4 DEF SiteOK, EgenOK, Active
<1>6. /\ c \in Site
      /\ AtEgen(r, t) => OnlyBallot(cast, s, e, c)
      /\ c /= s => disk[c].egen > e /\ (OnlyBallot(cast, s, e, c) \/ rep[c].egen > e)
      /\ Follows(s, c, e)
  <2>1. CASE t.pc = "vote"
    BY <1>1, <2>1 DEF SiteOK, BallotOK, RankOK
  <2>2. CASE t.pc = "phase1" /\ r.egen <= e /\ "PHASE2" \notin r.elect_flags
    <3>1. r.egen = e /\ AtEgen(r, t)
      BY <1>1, <1>4, <1>5, <2>2 DEF AtEgen
    <3>2. r.sites /= {}
      BY <1>1, <3>1 DEF SiteOK, FlagsOK, Eids
    <3>3. c \in Site /\ (c /= s => disk[c].egen > e)
      BY <1>1, <3>1, <3>2, WinnerIsAt DEF SiteOK
    <3>4. NoBallot(cast, s, e)
      BY <1>1, <2>2, <3>1 DEF SiteOK, BallotOK
    <3>5. Follows(s, c, e)
      BY <1>1, <3>1, FollowsWinner
    <3> QED  BY <3>3, <3>4, <3>5 DEF NoBallot, OnlyBallot
  <2> QED  BY <1>3, <2>1, <2>2
<1>7. /\ u \in REP /\ u.egen = r.egen
      /\ SiteOK(s, u, v, d, cs)
  BY <1>1, <1>4, <1>6, Votes
<1>8. /\ cs = cast \/ (NoBallot(cast, s, e) /\ cs = cast \cup {Ballot(e, s, c)})
      /\ OnlyBallot(cast, s, e, c) => Ballot(e, s, c) \in cs
  BY <1>1, <1>6, FirstVoteFields
<1>9. ms \in SUBSET Messages /\ \A m \in ms : m.from = s /\ MessageOK(u, d, cs, m)
  <2> HIDE DEF u, v, cs, e, c
  <2>1. c /= s => disk[c].egen > e /\ (Ballot(e, s, c) \in cs \/ rep[c].egen > e)
    BY <1>6, <1>8
  <2>2. MessagesOK(ms, s, u, d, cs)
    BY <1>1, <1>6, <2>1, VoteMessage
  <2> QED  BY <2>2 DEF MessagesOK
<1> HIDE DEF u, v, ms, cs, e, c
<1>10. Frame(s, u, v, d, ms)
  <2>1. u.egen >= rep[s].egen /\ d.egen >= disk[s].egen
    BY <1>1, <1>7 DEF r, d
  <2>2. e < d.egen
    BY <1>1, <1>5
  <2>3. \/ cast' = cast
        \/ \E x \in Nat, y \in Site :
             /\ x < d.egen /\ NoBallot(cast, s, x) /\ Follows(s, y, x)
             /\ cast' = cast \cup {Ballot(x, s, y)}
    BY <1>1, <1>2, <1>6, <1>8, <2>2
  <2> QED  BY <1>2, <2>1, <2>3 DEF Frame
<1>11. /\ SiteOK(s, u, v, d, cast') /\ \A m \in ms : m.from = s /\ MessageOK(u, d, cast', m)
       /\ plan' \in Bounds /\ \A x \in elected' : x \in elected
  BY <1>1, <1>2, <1>7, <1>9
<1> QED  BY <1>1, <1>4, <1>7, <1>9, <1>10, <1>11, Step

(* Who has won by its tally has the votes of that many sites, and not just *)
(* its own.                                                                *)
LEMMA EnoughVoters ==
  ASSUME NEW s \in Site, NEW r \in REP, OneEach(r.votes), IHaveWon(s, r)
  PROVE  /\ Voters(r) \in SUBSET Site /\ Cardinality(Voters(r)) >= NVotes
         /\ \E q \in Voters(r) : q /= s
<1>1. r.votes \in Tallies /\ Cardinality(r.votes) >= NVotes
  BY DEF REP, IHaveWon
<1>2. Voters(r) \in SUBSET Site
  BY <1>1 DEF Tallies, Voters
<1>3. IsFiniteSet(Voters(r)) /\ Cardinality(Voters(r)) \in Nat
  BY <1>2, ElectionAssumption, FS_Subset, FS_CardinalityType
<1>4. Cardinality(Voters(r)) >= NVotes
  <2> DEFINE f == [v \in r.votes |-> v.eid]
  <2>1. f \in Injection(r.votes, Voters(r))
    BY DEF Voters, OneEach, Injection, IsInjective
  <2> HIDE DEF f
  <2>2. IsFiniteSet(r.votes) /\ Cardinality(r.votes) <= Cardinality(Voters(r))
    BY <1>3, <2>1, FS_Injection
  <2>3. Cardinality(r.votes) \in Nat
    BY <2>2, FS_CardinalityType
  <2> QED  BY <1>1, <1>3, <2>2, <2>3, ElectionAssumption
<1>5. \E q \in Voters(r) : q /= s
  <2>1. SUFFICES ASSUME \A q \in Voters(r) : q = s PROVE FALSE
    OBVIOUS
  <2>2. IsFiniteSet({s}) /\ Cardinality({s}) = 1
    BY FS_Singleton
  <2>3. Voters(r) \in SUBSET {s}
    BY <2>1
  <2>4. Cardinality(Voters(r)) <= 1
    BY <2>2, <2>3, FS_Subset
  <2> QED  BY <1>3, <1>4, <2>4, ElectionAssumption
<1> QED  BY <1>2, <1>4, <1>5

(* Who finds that it has won, in the election that its thread is in or in  *)
(* the one that the site is at, has won this one, by first votes.          *)
LEMMA Won ==
  ASSUME NEW s \in Site, NEW r \in REP, NEW t \in Threads, NEW d \in Files,
         CastInv, cast \subseteq FirstVotes, SiteOK(s, r, t, d, cast), IHaveWon(s, r),
         rep[s].egen \in Nat, r.egen >= rep[s].egen, NEW e \in Nat,
         e = r.egen \/ (t.pc \in Active /\ e = t.egen),
         NEW cs, cs = IF s \in Voters(r) THEN FirstVote(s, e, s) ELSE cast
  PROVE  /\ e = r.egen /\ e < d.egen
         /\ cs = cast \/ (NoBallot(cast, s, e) /\ cs = cast \cup {Ballot(e, s, s)})
         /\ SiteOK(s, r, t, d, cs)
         /\ [egen |-> e, site |-> s, by |-> Voters(r)] \in Winners
         /\ WinnerOK([egen |-> e, site |-> s, by |-> Voters(r)], cs)
<1>1. /\ OneEach(r.votes) /\ IsFiniteSet(r.votes)
      /\ \A v \in r.votes : v.eid /= s =>
           v.egen = r.egen /\ d.egen > r.egen /\ Ballot(r.egen, v.eid, s) \in cast
      /\ s \in Voters(r) =>
           "PHASE2" \in r.elect_flags /\ r.winner = s /\ OnlyBallot(cast, s, r.egen, s)
  BY DEF SiteOK, VotesOK
<1>2. /\ Voters(r) \in SUBSET Site /\ Cardinality(Voters(r)) >= NVotes
      /\ \E q \in Voters(r) : q /= s
  BY <1>1, EnoughVoters
<1>3. d.egen > r.egen
  BY <1>1, <1>2 DEF Voters
<1>4. e = r.egen
  BY <1>3 DEF SiteOK, EgenOK, Active, REP, Files, Threads
<1>5. /\ cast \subseteq cs
      /\ cs = cast \/ (NoBallot(cast, s, e) /\ cs = cast \cup {Ballot(e, s, s)})
      /\ \A b \in cs : b \in cast \/ (b = Ballot(e, s, s) /\ s \in Voters(r))
      /\ s \in Voters(r) => Ballot(e, s, s) \in cs /\ OnlyBallot(cs, s, e, s)
  BY <1>1, <1>4, FirstVoteFields
<1>6. SiteOK(s, r, t, d, cs)
  <2>1. VotesOK(s, r, d, cs)
    BY <1>1, <1>4, <1>5 DEF VotesOK
  <2>2. BallotOK(s, r, t, cs)
    <3>1. CASE s \in Voters(r)
      <4>1. \A x, y : OnlyBallot(cast, s, x, y) /\ (x = e => y = s) => OnlyBallot(cs, s, x, y)
        BY <1>5 DEF OnlyBallot, Ballot
      <4>2. AtEgen(r, t) => t.egen = e
        BY <1>4 DEF AtEgen
      <4> QED  BY <1>1, <3>1, <4>1, <4>2 DEF SiteOK, BallotOK
    <3>2. CASE s \notin Voters(r)
      BY <3>2 DEF SiteOK
    <3> QED  BY <3>1, <3>2
  <2> QED  BY <2>1, <2>2 DEF SiteOK
<1>7. ASSUME NEW q \in Voters(r)
      PROVE  Ballot(e, q, s) \in cs /\ Rank(q) <= Rank(s)
  <2>1. CASE q = s
    <3>1. Rank(s) \in Nat
      BY ElectionAssumption
    <3> QED  BY <1>5, <2>1, <3>1
  <2>2. CASE q /= s
    <3> DEFINE b == Ballot(e, q, s)
    <3>1. b \in cast
      BY <1>1, <1>4, <2>2 DEF Voters
    <3>2. b.voter = q /\ b.candidate = s /\ b.egen = e
      BY DEF Ballot
    <3> HIDE DEF b
    <3>3. Follows(q, s, e)
      BY <3>1, <3>2 DEF CastInv
    <3>4. ~(rep[s].egen > e)
      BY <1>4
    <3> QED  BY <1>5, <3>1, <3>3, <3>4 DEF Follows, b
  <2> QED  BY <2>1, <2>2
<1> QED  BY <1>2, <1>3, <1>4, <1>5, <1>6, <1>7 DEF Winners, WinnerOK

LEMMA WonStep ==
  ASSUME IInv, NEW s \in Site, NEW u \in REP, NEW v \in Threads, NEW e \in Nat,
         rep' = [rep EXCEPT ![s] = u], thread' = [thread EXCEPT ![s] = v],
         UNCHANGED <<disk, network, plan>>, u.egen >= rep[s].egen, e < disk[s].egen,
         cast' = cast \/ (NoBallot(cast, s, e) /\ cast' = cast \cup {Ballot(e, s, s)}),
         SiteOK(s, u, v, disk[s], cast'),
         NEW w \in Winners, WinnerOK(w, cast'), elected' = elected \cup {w}
  PROVE  IInv'
<1>1. /\ disk[s] \in Files /\ disk[s].egen >= disk[s].egen /\ plan' \in Bounds
      /\ disk' = [disk EXCEPT ![s] = disk[s]] /\ network' = network \cup {}
  BY Here DEF TypeOK, Files
<1>2. Frame(s, u, v, disk[s], {})
  <2>1. Follows(s, s, e)
    BY ElectionAssumption DEF Follows
  <2> QED  BY <1>1, <2>1 DEF Frame
<1>3. {} \in SUBSET Messages /\ \A m \in {} : m.from = s /\ MessageOK(u, disk[s], cast', m)
  OBVIOUS
<1> QED  BY <1>1, <1>2, <1>3, Step

LEMMA LookStep ==
  ASSUME IInv, NEW s \in Site, Look(s)
  PROVE  IInv'
<1> DEFINE r == rep[s]  t == thread[s]  e == t.egen  d == disk[s]
           v(pc) == [pc |-> pc, egen |-> e]
<1>1. /\ r \in REP /\ t \in Threads /\ d \in Files /\ plan \in Bounds
      /\ SiteOK(s, r, t, d, cast) /\ e \in Nat /\ r.egen \in Nat /\ d.egen \in Nat
      /\ cast \subseteq FirstVotes
  BY Here DEF REP, Threads, Files, TypeOK, FirstVotes
<1>2. rep' = [rep EXCEPT ![s] = r] /\ UNCHANGED <<disk, network, plan>> /\ t.pc = "voted"
  BY Here DEF Look, TypeOK
<1>3. r.egen >= rep[s].egen
  BY <1>1
<1>4. ASSUME NEW cs, SiteOK(s, r, t, d, cs), NEW pc \in {"won", "phase2"}
      PROVE  v(pc) \in Threads /\ SiteOK(s, r, v(pc), d, cs)
  <2> DEFINE n == v(pc)
  <2>1. n \in Threads /\ n.pc \in {"won", "phase2"} /\ n.egen = t.egen
    BY <1>1, <1>4 DEF Threads
  <2> HIDE DEF n, r, t, d
  <2>2. AtEgen(r, n) <=> AtEgen(r, t)
    BY <1>2, <2>1 DEF AtEgen, Active
  <2>3. /\ EgenOK(r, n, d) /\ MasterOK(r, n) /\ FlagsOK(s, r, n) /\ BallotOK(s, r, n, cs)
        /\ RankOK(s, r, n)
    BY <1>2, <1>4, <2>1, <2>2 DEF SiteOK, EgenOK, MasterOK, FlagsOK, BallotOK, RankOK, Active
  <2>4. SiteOK(s, r, n, d, cs)
    BY <1>4, <2>3 DEF SiteOK
  <2> QED  BY <2>1, <2>4 DEF n
<1>5. CastInv /\ rep[s].egen \in Nat
  BY <1>1 DEF IInv
<1>6. CASE IHaveWon(s, r)
  <2> DEFINE cs == IF s \in Voters(r) THEN FirstVote(s, e, s) ELSE cast
             w == [egen |-> e, site |-> s, by |-> Voters(r)]
  <2>1. thread' = [thread EXCEPT ![s] = v("won")] /\ cast' = cs /\ elected' = elected \cup {w}
    BY <1>6 DEF Look, Goto, Wins, Elected
  <2>2. t.pc \in Active
    BY <1>2 DEF Active
  <2> HIDE DEF r, t, d, v
  <2>3. /\ e < d.egen /\ w \in Winners /\ WinnerOK(w, cs) /\ SiteOK(s, r, t, d, cs)
        /\ cs = cast \/ (NoBallot(cast, s, e) /\ cs = cast \cup {Ballot(e, s, s)})
    BY <1>1, <1>3, <1>6, <1>5, <2>2, Won
  <2> HIDE DEF cs, w, e
  <2>4. v("won") \in Threads /\ SiteOK(s, r, v("won"), d, cs)
    BY <1>4, <2>3
  <2>5. e < disk[s].egen /\ SiteOK(s, r, v("won"), disk[s], cs)
    BY <2>3, <2>4 DEF d
  <2> QED  BY <1>1, <1>2, <1>3, <2>1, <2>3, <2>4, <2>5, WonStep
<1>7. CASE ~IHaveWon(s, r)
  <2>1. thread' = [thread EXCEPT ![s] = v("phase2")] /\ UNCHANGED <<cast, elected>>
    BY <1>7 DEF Look, Goto
  <2>2. v("phase2") \in Threads /\ SiteOK(s, r, v("phase2"), d, cast)
    BY <1>1, <1>4
  <2> HIDE DEF v
  <2> QED  BY <1>1, <1>2, <1>3, <2>1, <2>2, SilentStep
<1> QED  BY <1>6, <1>7

(* The end of an election that was won: a master is not told.              *)
LEMMA WinFields ==
  ASSUME NEW r \in REP, NEW e \in Nat, r.takeover => r.masterelect /\ ~r.master,
         r.master => r.notified_egen >= e
  PROVE  LET u == FireElected(ElectDone(ElectMaster(r)), e) IN
         /\ u \in REP /\ u.elect_flags = {} /\ u.sites = {} /\ u.votes = {}
         /\ u.winner = r.winner /\ u.egen >= r.egen /\ (InElection(r) => u.egen > r.egen)
         /\ u.takeover => u.masterelect /\ ~u.master
<1> DEFINE q == ElectMaster(r)  p == ElectDone(q)  u == FireElected(p, e)
           b == r.masterelect \/ ~r.master
<1>1. q = [r EXCEPT !.masterelect = b]
  BY DEF ElectMaster
<1>2. b \in BOOLEAN /\ (~r.master => b) /\ (r.masterelect => b)
  OBVIOUS
<1> HIDE DEF b
<1>3. /\ q \in REP /\ q.elect_flags = r.elect_flags /\ q.winner = r.winner /\ q.egen = r.egen
      /\ q.master = r.master /\ q.masterelect = b /\ q.takeover = r.takeover
      /\ q.notified_egen = r.notified_egen
  BY <1>1, <1>2 DEF REP
<1> HIDE DEF q
<1>4. /\ p \in REP /\ p.elect_flags = {} /\ p.sites = {} /\ p.votes = {}
      /\ p.winner = r.winner /\ p.egen >= r.egen /\ (InElection(r) => p.egen > r.egen)
      /\ p.master = r.master /\ p.masterelect = b /\ p.takeover = r.takeover
      /\ p.notified_egen = r.notified_egen
  BY <1>3, ElectDoneFields DEF InElection
<1> HIDE DEF p
<1>5. CASE p.notified_egen < e
  <2>1. u = [p EXCEPT !.takeover = TRUE, !.notified_egen = e]
    BY <1>5 DEF FireElected
  <2>2. ~r.master
    BY <1>4, <1>5 DEF REP
  <2> HIDE DEF u
  <2>3. u \in REP
    BY <1>4, <2>1 DEF REP
  <2>4. /\ u.elect_flags = {} /\ u.sites = {} /\ u.votes = {} /\ u.winner = p.winner
        /\ u.egen = p.egen /\ u.masterelect = b /\ u.master = r.master
    BY <1>4, <2>1 DEF REP
  <2> QED  BY <1>2, <1>4, <2>2, <2>3, <2>4 DEF u, p, q
<1>6. CASE ~(p.notified_egen < e)
  <2>1. u = p
    BY <1>6 DEF FireElected
  <2>2. p.takeover => p.masterelect /\ ~p.master
    BY <1>2, <1>4
  <2> HIDE DEF u
  <2> QED  BY <1>4, <2>1, <2>2 DEF u, p, q
<1> QED  BY <1>5, <1>6

LEMMA WinStep ==
  ASSUME IInv, NEW s \in Site, Win(s)
  PROVE  IInv'
<1> DEFINE r == rep[s]  t == thread[s]  e == t.egen  d == disk[s]
           u == FireElected(ElectDone(ElectMaster(r)), e)
<1>1. /\ r \in REP /\ t \in Threads /\ d \in Files /\ plan \in Bounds
      /\ SiteOK(s, r, t, d, cast) /\ e \in Nat /\ r.egen \in Nat /\ d.egen \in Nat
      /\ cast \subseteq FirstVotes
  BY Here DEF REP, Threads, Files, TypeOK, FirstVotes
<1>2. /\ rep' = [rep EXCEPT ![s] = u] /\ thread' = [thread EXCEPT ![s] = Idle]
      /\ UNCHANGED <<disk, network, plan>> /\ t.pc \in {"won", "phase2"}
  BY DEF Win, Set, Leave
<1> HIDE DEF r, t, d
<1>3. /\ u \in REP /\ u.elect_flags = {} /\ u.sites = {} /\ u.votes = {}
      /\ u.winner = r.winner /\ u.egen >= r.egen /\ (InElection(r) => u.egen > r.egen)
      /\ u.takeover => u.masterelect /\ ~u.master
  BY <1>1, <1>2, WinFields DEF SiteOK, MasterOK
<1> HIDE DEF u
<1>4. ASSUME NEW cs, SiteOK(s, r, t, d, cs)
      PROVE  SiteOK(s, u, Idle, d, cs)
  <2>1. MasterOK(u, Idle)
    BY <1>3, LeaveTypes DEF MasterOK
  <2> QED  BY <1>1, <1>3, <1>4, <2>1, Ended
<1>5. u.egen >= rep[s].egen /\ r.egen >= rep[s].egen /\ CastInv /\ rep[s].egen \in Nat
  BY <1>1, <1>3 DEF r, IInv
<1>6. CASE t.pc = "won" /\ UNCHANGED <<cast, elected>>
  <2>1. SiteOK(s, u, Idle, disk[s], cast)
    BY <1>1, <1>4 DEF d
  <2> QED  BY <1>1, <1>2, <1>3, <1>5, <1>6, <2>1, LeaveTypes, SilentStep
<1>7. CASE IHaveWon(s, r) /\ Wins(s, e, r)
  <2> DEFINE cs == IF s \in Voters(r) THEN FirstVote(s, e, s) ELSE cast
             w == [egen |-> e, site |-> s, by |-> Voters(r)]
  <2>1. cast' = cs /\ elected' = elected \cup {w}
    BY <1>7 DEF Wins, Elected
  <2>2. t.pc \in Active
    BY <1>2 DEF Active
  <2>3. /\ e < d.egen /\ w \in Winners /\ WinnerOK(w, cs) /\ SiteOK(s, r, t, d, cs)
        /\ cs = cast \/ (NoBallot(cast, s, e) /\ cs = cast \cup {Ballot(e, s, s)})
    BY <1>1, <1>5, <1>7, <2>2, Won
  <2> HIDE DEF cs, w, e
  <2>4. e < disk[s].egen /\ SiteOK(s, u, Idle, disk[s], cs)
    BY <1>4, <2>3 DEF d
  <2> QED  BY <1>1, <1>2, <1>3, <1>5, <2>1, <2>3, <2>4, LeaveTypes, WonStep
<1> QED  BY <1>6, <1>7 DEF Win, r, t

-----------------------------------------------------------------------------
(* Votes that arrive.                                                      *)

(* A client that is elected is as it was, and is told.                     *)
LEMMA FireElectedSite ==
  ASSUME NEW s \in Site, NEW r \in REP, NEW t \in Threads, NEW d \in Files, NEW cs,
         SiteOK(s, r, t, d, cs), ~r.master
  PROVE  LET u == FireElected(ElectMaster(r), r.egen) IN
         u \in REP /\ u.egen = r.egen /\ SiteOK(s, u, t, d, cs)
<1> DEFINE u == FireElected(ElectMaster(r), r.egen)
<1>1. r.egen \in Nat /\ t.egen \in Nat
  BY DEF REP, Threads
<1>2. /\ u \in REP /\ u.elect_flags = r.elect_flags /\ u.sites = r.sites /\ u.votes = r.votes
      /\ u.winner = r.winner /\ u.egen = r.egen
      /\ ~u.master /\ u.masterelect /\ u.notified_egen >= r.egen
  BY <1>1, FireElectedFields
<1> HIDE DEF u
<1>3. t.pc /= "idle" => u.notified_egen >= t.egen
  BY <1>1, <1>2 DEF SiteOK, EgenOK, REP
<1>4. MasterOK(u, t)
  BY <1>2, <1>3 DEF MasterOK
<1>5. SiteOK(s, u, t, d, cs)
  BY <1>2, <1>4, Same
<1> QED  BY <1>2, <1>5 DEF u

LEMMA ReceiveVote2Step ==
  ASSUME IInv, NEW s \in Site, NEW m \in network, ReceiveVote2(s, m)
  PROVE  IInv'
<1> DEFINE r == CaughtUp(s, m)  votes == Tally(r.votes, m.from, m.egen)
           u == [r EXCEPT !.votes = votes]  p == FireElected(ElectMaster(u), u.egen)
           t == thread[s]  d == disk[s]  e == r.egen
<1>1. /\ r \in REP /\ e = rep[s].egen /\ ~r.master
      /\ SiteOK(s, r, t, d, cast)
  BY CaughtUpSite DEF ReceiveVote2
<1>2. /\ t \in Threads /\ d \in Files /\ e \in Nat /\ cast \subseteq FirstVotes
      /\ m.from \in Site /\ m.egen \in Nat /\ m.to \in Site \cup {None}
  BY <1>1, Here DEF TypeOK, Messages, REP, FirstVotes
<1>3. /\ UNCHANGED <<thread, disk, network, plan>>
      /\ thread' = [thread EXCEPT ![s] = t] /\ network' = network \cup {}
  BY Here DEF ReceiveVote2, TypeOK
<1>4. {} \in SUBSET Messages /\ \A n \in {} : n.from = s /\ n.type \notin {"VOTE1", "VOTE2"}
  OBVIOUS
<1>5. CASE ~Counts(r, m)
  <2>1. rep' = [rep EXCEPT ![s] = r] /\ UNCHANGED <<cast, elected>>
    BY <1>5 DEF ReceiveVote2, Set
  <2>2. r.egen >= rep[s].egen
    BY <1>1, <1>2
  <2> HIDE DEF r
  <2> QED  BY <1>1, <1>3, <1>4, <2>1, <2>2, RegionStep
<1>6. CASE Counts(r, m)
  <2>1. m.egen = e /\ ~Ignored(r.votes, m.from, m.egen)
    BY <1>6 DEF Counts
  <2>2. /\ m.from /= s /\ d.egen > e /\ Ballot(e, m.from, s) \in cast
    <3>1. m.type = "VOTE2" /\ m.from /= s /\ m.to \in {s, None}
      BY DEF ReceiveVote2, Current, For
    <3>2. m.to \in Site /\ disk[m.to].egen > m.egen
          /\ (Ballot(m.egen, m.from, m.to) \in cast \/ rep[m.to].egen > m.egen)
      BY <3>1 DEF IInv, NetInv, MessageOK
    <3>3. m.to = s
      BY <3>1, <3>2, ElectionAssumption
    <3> QED  BY <1>1, <1>2, <2>1, <3>1, <3>2, <3>3
  <2>3. Tallied(r.votes, m.from, m.egen, votes)
    <3>1. r.votes \in Tallies /\ OneEach(r.votes) /\ IsFiniteSet(r.votes)
      BY <1>1 DEF REP, SiteOK, VotesOK
    <3> QED  BY <1>2, <2>1, <3>1, TallyFields
  <2> HIDE DEF r, votes
  <2>4. /\ u \in REP /\ u.votes = votes /\ u.elect_flags = r.elect_flags /\ u.sites = r.sites
        /\ u.winner = r.winner /\ u.egen = e
        /\ u.master = r.master /\ u.masterelect = r.masterelect /\ u.takeover = r.takeover
        /\ u.notified_egen = r.notified_egen
    <3>1. votes \in Tallies
      BY <2>3 DEF Tallied
    <3>2. u \in REP
      BY <1>1, <3>1 DEF REP
    <3> QED  BY <1>1, <3>1, <3>2 DEF REP
  <2> HIDE DEF u
  <2>5. SiteOK(s, u, t, d, cast)
    <3>1. EgenOK(u, t, d) /\ MasterOK(u, t) /\ FlagsOK(s, u, t) /\ BallotOK(s, u, t, cast)
      BY <1>1, <2>4 DEF SiteOK, EgenOK, MasterOK, FlagsOK, BallotOK, AtEgen, InElection
    <3>2. SitesOK(s, u, d) /\ RankOK(s, u, t)
      BY <1>1, <2>4 DEF SiteOK, SitesOK, RankOK
    <3>3. VotesOK(s, u, d, cast)
      <4>1. ASSUME NEW v \in votes, v.eid /= s
            PROVE  v.egen = e /\ d.egen > e /\ Ballot(e, v.eid, s) \in cast
        <5>1. CASE v.eid = m.from
          BY <2>1, <2>2, <2>3, <5>1 DEF Tallied
        <5>2. CASE v.eid /= m.from
          BY <1>1, <2>3, <4>1, <5>2 DEF Tallied, SiteOK, VotesOK
        <5> QED  BY <5>1, <5>2
      <4>2. s \in Voters(u) => s \in Voters(r)
        BY <2>2, <2>3, <2>4 DEF Tallied, Voters
      <4>3. OneEach(votes) /\ IsFiniteSet(votes)
        BY <2>3 DEF Tallied
      <4> QED  BY <1>1, <2>4, <4>1, <4>2, <4>3 DEF SiteOK, VotesOK
    <3> QED  BY <3>1, <3>2, <3>3 DEF SiteOK
  <2>6. u.egen >= rep[s].egen
    BY <1>1, <1>2, <2>4
  <2>7. CASE ~IHaveWon(s, u)
    <3>1. rep' = [rep EXCEPT ![s] = u] /\ UNCHANGED <<cast, elected>>
      BY <1>6, <2>7 DEF ReceiveVote2, Set, r, votes, u
    <3> QED  BY <1>3, <1>4, <2>4, <2>5, <2>6, <3>1, RegionStep
  <2>8. CASE IHaveWon(s, u)
    <3> DEFINE cs == IF s \in Voters(u) THEN FirstVote(s, e, s) ELSE cast
               w == [egen |-> e, site |-> s, by |-> Voters(u)]
    <3>1. rep' = [rep EXCEPT ![s] = p] /\ cast' = cs /\ elected' = elected \cup {w}
      <4>1. rep' = [rep EXCEPT ![s] = p] /\ Wins(s, u.egen, u)
        BY <1>6, <2>8 DEF ReceiveVote2, Set, r, votes, u
      <4> QED  BY <2>4, <4>1 DEF Wins, Elected
    <3>2. /\ e < d.egen /\ w \in Winners /\ WinnerOK(w, cs) /\ SiteOK(s, u, t, d, cs)
          /\ cs = cast \/ (NoBallot(cast, s, e) /\ cs = cast \cup {Ballot(e, s, s)})
      <4>1. CastInv /\ rep[s].egen \in Nat
        BY <1>1, <1>2 DEF IInv
      <4> QED  BY <1>2, <2>4, <2>5, <2>6, <2>8, <4>1, Won
    <3> HIDE DEF cs, w, d, t, e
    <3>3. p \in REP /\ p.egen = u.egen /\ SiteOK(s, p, t, d, cs)
      BY <1>1, <1>2, <2>4, <3>2, FireElectedSite
    <3> HIDE DEF p
    <3>4. e < disk[s].egen /\ SiteOK(s, p, t, disk[s], cs) /\ p.egen >= rep[s].egen
      BY <2>6, <3>2, <3>3 DEF d
    <3> QED  BY <1>2, <1>3, <3>1, <3>2, <3>3, <3>4, WonStep
  <2> QED  BY <2>7, <2>8
<1> QED  BY <1>5, <1>6

(* What a VOTE1 begins with leaves a site in order, at that election.      *)
LEMMA CountingSite ==
  ASSUME IInv, NEW s \in Site, NEW m \in network, m.egen >= rep[s].egen
  PROVE  LET u == Counting(s, m) IN
         /\ u \in REP /\ u.egen = m.egen /\ u.master = rep[s].master
         /\ SiteOK(s, u, thread[s], disk[s], cast)
<1> DEFINE r == CaughtUp(s, m)
           t == IF m.egen > r.egen THEN [ElectDone(r) EXCEPT !.egen = m.egen] ELSE r
           n == Nsites(t, m.nsites)
           flags == IF t.elect_flags = {} THEN {"TALLY"} ELSE t.elect_flags
           u == [t EXCEPT !.nsites = n, !.elect_flags = flags]
<1>1. u = Counting(s, m)
  BY DEF Counting
<1>2. /\ r \in REP /\ r.egen = rep[s].egen /\ r.master = rep[s].master
      /\ SiteOK(s, r, thread[s], disk[s], cast)
  BY CaughtUpSite
<1>3. /\ m.egen \in Nat /\ m.nsites \in Nat /\ r.egen \in Nat
      /\ thread[s] \in Threads /\ disk[s] \in Files
  BY <1>2, Here DEF TypeOK, Messages, REP
<1> HIDE DEF r
<1>4. /\ t \in REP /\ t.egen = m.egen /\ t.winner = r.winner /\ t.master = r.master
      /\ t.masterelect = r.masterelect /\ t.takeover = r.takeover
      /\ t.notified_egen = r.notified_egen
      /\ \/ m.egen > r.egen /\ t.elect_flags = {} /\ t.sites = {} /\ t.votes = {}
         \/ t = r
  <2>1. CASE m.egen > r.egen
    <3> DEFINE q == ElectDone(r)
    <3>1. t = [q EXCEPT !.egen = m.egen]
      BY <2>1
    <3>2. /\ q \in REP /\ q.elect_flags = {} /\ q.sites = {} /\ q.votes = {}
          /\ q.winner = r.winner /\ q.master = r.master /\ q.masterelect = r.masterelect
          /\ q.takeover = r.takeover /\ q.notified_egen = r.notified_egen
      BY <1>2, ElectDoneFields
    <3> HIDE DEF q, t
    <3>3. t \in REP
      BY <1>3, <3>1, <3>2 DEF REP
    <3>4. /\ t.egen = m.egen /\ t.winner = q.winner /\ t.master = q.master
          /\ t.masterelect = q.masterelect /\ t.takeover = q.takeover
          /\ t.notified_egen = q.notified_egen
          /\ t.elect_flags = {} /\ t.sites = {} /\ t.votes = {}
      BY <3>1, <3>2 DEF REP
    <3> QED  BY <2>1, <3>2, <3>3, <3>4
  <2>2. CASE ~(m.egen > r.egen)
    BY <1>2, <1>3, <2>2
  <2> QED  BY <2>1, <2>2
<1> HIDE DEF t
<1>5. n \in Nat
  BY <1>3, <1>4 DEF Nsites, REP
<1>6. flags \in SUBSET {"TALLY", "PHASE1", "PHASE2"}
  BY <1>4 DEF REP
<1>7. /\ t.elect_flags = {} => flags = {"TALLY"}
      /\ "PHASE1" \in flags <=> "PHASE1" \in t.elect_flags
      /\ "PHASE2" \in flags <=> "PHASE2" \in t.elect_flags
  OBVIOUS
<1> HIDE DEF n, flags
<1>8. u \in REP
  BY <1>4, <1>5, <1>6 DEF REP
<1>9. /\ u.egen = m.egen /\ u.winner = r.winner /\ u.master = r.master
      /\ u.masterelect = r.masterelect /\ u.takeover = r.takeover
      /\ u.notified_egen = r.notified_egen
      /\ u.sites = t.sites /\ u.votes = t.votes /\ u.elect_flags = flags
  BY <1>4 DEF REP
<1> HIDE DEF u
<1>10. MasterOK(u, thread[s])
  BY <1>2, <1>9 DEF SiteOK, MasterOK
<1>11. SiteOK(s, u, thread[s], disk[s], cast)
  <2>1. CASE m.egen > r.egen /\ t.elect_flags = {} /\ t.sites = {} /\ t.votes = {}
    <3>1. u.elect_flags \subseteq {"TALLY"} /\ u.egen >= r.egen /\ u.egen > r.egen
      BY <1>3, <1>7, <1>9, <2>1
    <3> QED  BY <1>2, <1>3, <1>8, <1>9, <1>10, <2>1, <3>1, Ended
  <2>2. CASE t = r
    <3>1. u.egen = r.egen /\ u.sites = r.sites /\ u.votes = r.votes
      BY <1>4, <1>9, <2>2
    <3> QED  BY <1>2, <1>3, <1>7, <1>8, <1>9, <1>10, <2>2, <3>1, Same
  <2> QED  BY <1>4, <2>1, <2>2
<1> QED  BY <1>1, <1>2, <1>8, <1>9, <1>11

(* A site that has not voted may prefer another one when it hears of it.   *)
Hears(r, m) == [r EXCEPT !.sites = Tally(@, m.from, m.egen)]

Chooses(r, m, w) == [Hears(r, m) EXCEPT !.winner = w]

HeardOK(s, r, u) ==
  /\ u \in REP /\ u.egen = r.egen /\ u.elect_flags = r.elect_flags
  /\ u.master = r.master /\ u.sites /= {}
  /\ SiteOK(s, u, thread[s], disk[s], cast)

LEMMA HeardSite ==
  ASSUME IInv, NEW s \in Site, NEW m \in network, m.type = "VOTE1", m.from /= s,
         NEW r \in REP, r.egen = m.egen, SiteOK(s, r, thread[s], disk[s], cast),
         "PHASE2" \notin r.elect_flags, ~Ignored(r.sites, m.from, m.egen),
         NEW w \in CmpVote(Hears(r, m), m.from)
  PROVE  HeardOK(s, r, Chooses(r, m, w))
<1> DEFINE q == m.from  th == thread[s]  d == disk[s]  t == Hears(r, m)  u == Chooses(r, m, w)
<1>1. /\ q \in Site /\ m.egen \in Nat /\ th \in Threads /\ d \in Files
  BY Here DEF TypeOK, Messages
<1>2. r.sites \in Tallies /\ OneEach(r.sites) /\ IsFiniteSet(r.sites)
  BY DEF REP, SiteOK, SitesOK
<1>3. Tallied(r.sites, q, m.egen, Tally(r.sites, q, m.egen))
  BY <1>1, <1>2, TallyFields
<1> DEFINE tally == Tally(r.sites, q, m.egen)
<1>4. t = [r EXCEPT !.sites = tally] /\ u = [t EXCEPT !.winner = w] /\ tally \in Tallies
  BY <1>3 DEF Tallied, Hears, Chooses
<1>5. tally = Tally(r.sites, q, r.egen) /\ w \in CmpVote(t, q)
  OBVIOUS
<1> HIDE DEF tally, t, u
<1>6. t \in REP /\ t.sites = tally /\ t.winner = r.winner
  BY <1>4 DEF REP
<1>7. /\ OneEach(t.sites) /\ IsFiniteSet(t.sites)
      /\ \A v \in t.sites : (v.eid = q /\ v.egen = r.egen) \/ v \in r.sites
      /\ Eids(t.sites) = Eids(r.sites) \cup {q}
      /\ w \in Eids(t.sites) /\ \A v \in t.sites : Rank(v.eid) <= Rank(w)
  <2>1. /\ r.sites /= {} => r.winner \in Eids(r.sites)
        /\ \A v \in r.sites : Rank(v.eid) <= Rank(r.winner)
    BY DEF SiteOK, SitesOK, RankOK
  <2>2. ~Ignored(r.sites, q, r.egen) /\ t.sites = Tally(r.sites, q, r.egen) /\ w \in CmpVote(t, q)
    BY <1>6, <1>5
  <2> HIDE DEF q
  <2>3. Prefers(r, q, t, w)
    BY <1>1, <1>2, <1>6, <2>1, <2>2, Heard
  <2> QED  BY <2>3 DEF Prefers
<1>8. w \in Site
  <2>1. PICK v \in t.sites : v.eid = w
    BY <1>7 DEF Eids
  <2> QED  BY <1>6, <2>1 DEF REP, Tallies
<1>9. u \in REP
  BY <1>4, <1>6, <1>8 DEF REP
<1>10. /\ u.egen = r.egen /\ u.elect_flags = r.elect_flags /\ u.winner = w /\ u.votes = r.votes
      /\ u.sites = t.sites /\ u.master = r.master /\ u.masterelect = r.masterelect
      /\ u.takeover = r.takeover /\ u.notified_egen = r.notified_egen
  BY <1>4, <1>6 DEF REP
<1>11. u.sites /= {}
  BY <1>7, <1>10 DEF Eids
<1> HIDE DEF q, th, d
<1>12. AtEgen(u, th) <=> AtEgen(r, th)
  BY <1>10 DEF AtEgen
<1>13. EgenOK(u, th, d) /\ MasterOK(u, th) /\ FlagsOK(s, u, th)
  BY <1>7, <1>10, <1>12 DEF SiteOK, EgenOK, MasterOK, FlagsOK, InElection, th, d
<1>14. SitesOK(s, u, d)
  <2>1. disk[q].egen > m.egen /\ rep[q].egen >= m.egen
    BY DEF IInv, NetInv, MessageOK, q
  <2>2. ASSUME NEW v \in u.sites
        PROVE  /\ v.egen = u.egen
               /\ v.eid = s => d.egen > v.egen
               /\ v.eid /= s => disk[v.eid].egen > v.egen /\ rep[v.eid].egen >= v.egen
    <3>1. CASE v.eid = q /\ v.egen = r.egen
      BY <1>10, <2>1, <3>1 DEF q
    <3>2. CASE v \in r.sites
      BY <1>10, <3>2 DEF SiteOK, SitesOK, d
    <3> QED  BY <1>7, <1>10, <3>1, <3>2
  <2> QED  BY <1>7, <1>10, <2>2 DEF SitesOK
<1>15. VotesOK(s, u, d, cast)
  <2>1. s \notin Voters(r)
    BY DEF SiteOK, VotesOK
  <2> QED  BY <1>10, <2>1 DEF SiteOK, VotesOK, Voters, d
<1>16. BallotOK(s, u, th, cast)
  <2>1. w /= s => disk[w].egen > r.egen /\ rep[w].egen >= r.egen
    BY <1>9, <1>10, <1>11, <1>14, WinnerIsAt
  <2>2. /\ r.egen \in Nat /\ th.egen \in Nat
        /\ disk[w].egen \in Nat /\ rep[w].egen \in Nat
    BY <1>1, <1>8, Here DEF REP, Threads, Files
  <2>3. th.pc = "vote" => th.egen <= r.egen /\ th.pc \in Active
    BY DEF SiteOK, EgenOK, Active, th
  <2>4. (th.pc \in {"phase1", "vote"} /\ AtEgen(r, th)) => NoBallot(cast, s, r.egen)
    BY DEF SiteOK, BallotOK, th
  <2>5. AtEgen(r, th) => th.egen = r.egen
    BY DEF AtEgen
  <2>6. th.pc = "vote" /\ th.egen = r.egen => AtEgen(r, th)
    BY <2>3 DEF AtEgen
  <2>7. ASSUME th.pc = "vote"
        PROVE  /\ AtEgen(r, th) => OnlyBallot(cast, s, th.egen, w)
               /\ w /= s =>
                    /\ disk[w].egen > th.egen
                    /\ rep[w].egen > th.egen \/ OnlyBallot(cast, s, th.egen, w)
    <3>1. AtEgen(r, th) => OnlyBallot(cast, s, th.egen, w)
      BY <2>4, <2>5, <2>7 DEF NoBallot, OnlyBallot
    <3> QED  BY <2>1, <2>2, <2>3, <2>6, <2>7, <3>1
  <2> QED  BY <1>8, <1>10, <1>12, <2>4, <2>7 DEF BallotOK
<1>17. RankOK(s, u, th)
  <2>1. ASSUME th.pc = "vote"
        PROVE  Follows(s, w, th.egen)
    <3>1. CASE AtEgen(u, th)
      <4>1. s \in Eids(t.sites)
        BY <1>10, <1>13, <3>1 DEF FlagsOK
      <4> QED  BY <1>7, <4>1 DEF Eids, Follows
    <3>2. CASE ~AtEgen(u, th) /\ w /= s
      <4>1. disk[w].egen > r.egen /\ rep[w].egen >= r.egen
        BY <1>9, <1>10, <1>11, <1>14, <3>2, WinnerIsAt
      <4>2. /\ r.egen \in Nat /\ th.egen \in Nat
            /\ disk[w].egen \in Nat /\ rep[w].egen \in Nat
        BY <1>1, <1>8, Here DEF REP, Threads, Files, th
      <4>3. th.egen <= r.egen /\ th.egen /= r.egen
        BY <1>10, <2>1, <3>2 DEF SiteOK, EgenOK, AtEgen, Active, th
      <4> QED  BY <4>1, <4>2, <4>3 DEF Follows
    <3>3. CASE w = s
      BY <3>3, ElectionAssumption DEF Follows
    <3> QED  BY <3>1, <3>2, <3>3
  <2> QED  BY <1>7, <1>10, <2>1 DEF RankOK
<1> QED  BY <1>9, <1>10, <1>11, <1>13, <1>14, <1>15, <1>16, <1>17 DEF SiteOK, HeardOK, th, d, u

(* A site votes for another one, or is elected, when a message makes it.   *)
LEMMA MessageVoteStep ==
  ASSUME IInv, NEW s \in Site, NEW r \in REP, NEW ms, NEW cs,
         rep' = [rep EXCEPT ![s] = r], UNCHANGED <<thread, disk, plan>>,
         network' = network \cup ms, cast' = cs,
         MessagesOK(ms, s, r, disk[s], cs), r.egen >= rep[s].egen,
         NEW e \in Nat, NEW c \in Site, e < disk[s].egen, Follows(s, c, e),
         cs = cast \/ (NoBallot(cast, s, e) /\ cs = cast \cup {Ballot(e, s, c)}),
         SiteOK(s, r, thread[s], disk[s], cs),
         \A w \in elected' : w \in elected \/ (w \in Winners /\ WinnerOK(w, cs))
  PROVE  IInv'
<1>1. /\ thread[s] \in Threads /\ disk[s] \in Files /\ disk[s].egen >= disk[s].egen
      /\ plan' \in Bounds
      /\ thread' = [thread EXCEPT ![s] = thread[s]] /\ disk' = [disk EXCEPT ![s] = disk[s]]
  BY Here DEF TypeOK, Files
<1>2. Frame(s, r, thread[s], disk[s], ms)
  BY <1>1 DEF Frame
<1>3. ms \in SUBSET Messages /\ \A m \in ms : m.from = s /\ MessageOK(r, disk[s], cast', m)
  BY DEF MessagesOK
<1>4. SiteOK(s, r, thread[s], disk[s], cast')
  OBVIOUS
<1>5. \A w \in elected' : w \in elected \/ (w \in Winners /\ WinnerOK(w, cast'))
  OBVIOUS
<1> QED  BY <1>1, <1>2, <1>3, <1>4, <1>5, Step

(* The last site that was waited for makes a site vote, which may elect it.*)
LEMMA LastHeardStep ==
  ASSUME IInv, NEW s \in Site, NEW u \in REP, SiteOK(s, u, thread[s], disk[s], cast),
         "PHASE1" \in u.elect_flags, "PHASE2" \notin u.elect_flags, u.sites /= {},
         ~u.master, u.egen >= rep[s].egen, CastVote(s, u.egen, u),
         UNCHANGED <<thread, disk, plan>>,
         NEW v, v = Voted(s, u.egen, u),
         IF IHaveWon(s, v)
         THEN /\ Set(s, FireElected(ElectMaster(v), v.egen))
              /\ elected' = Elected(s, v.egen, v)
         ELSE Set(s, v) /\ UNCHANGED elected
  PROVE  IInv'
<1> DEFINE t == thread[s]  d == disk[s]  e == u.egen  c == u.winner
           ms == VoteMessages(s, c, u, e)  cs == FirstVote(s, e, c)
<1>1. /\ t \in Threads /\ d \in Files /\ e \in Nat /\ d.egen \in Nat
      /\ \A b \in cast : b.voter = s => b.egen < d.egen
      /\ cast \subseteq FirstVotes
  BY Here DEF REP, Files, TypeOK, FirstVotes
<1>2. network' = network \cup ms /\ cast' = cs
  BY DEF CastVote, Send, VoteMessages
<1> HIDE DEF t, d
<1>3. AtEgen(u, t) /\ t.egen = e /\ t.pc \in Active /\ d.egen = e + 1
  BY DEF SiteOK, FlagsOK, AtEgen, EgenOK, t, d
<1>4. c \in Site /\ (c /= s => disk[c].egen > e)
  BY WinnerIsAt DEF SiteOK
<1>5. NoBallot(cast, s, e)
  <2>1. t.pc \in {"phase1", "vote"}
    BY <1>3 DEF SiteOK, FlagsOK, Active, t
  <2> QED  BY <1>3, <2>1 DEF SiteOK, BallotOK, t
<1>6. OnlyBallot(cast, s, e, c)
  BY <1>5 DEF NoBallot, OnlyBallot
<1>7. /\ v \in REP /\ v.egen = e /\ v.winner = c /\ v.master = u.master
      /\ SiteOK(s, v, t, d, cs)
  <2>1. /\ SiteOK(s, u, t, d, cast) /\ v = Voted(s, t.egen, u) /\ cs = FirstVote(s, t.egen, c)
        /\ (AtEgen(u, t) => OnlyBallot(cast, s, t.egen, c))
    BY <1>3, <1>6 DEF t, d
  <2> HIDE DEF cs, e
  <2> QED  BY <1>1, <1>3, <1>4, <2>1, Votes DEF e
<1>8. /\ cs = cast \/ (NoBallot(cast, s, e) /\ cs = cast \cup {Ballot(e, s, c)})
      /\ Ballot(e, s, c) \in cs /\ cs \subseteq FirstVotes
  <2>1. /\ cs = cast \/ (NoBallot(cast, s, e) /\ cs = cast \cup {Ballot(e, s, c)})
        /\ Ballot(e, s, c) \in cs
    BY <1>1, <1>4, <1>6, FirstVoteFields
  <2>2. Ballot(e, s, c) \in FirstVotes
    BY <1>1, <1>4 DEF Ballot, FirstVotes
  <2> HIDE DEF cs
  <2> QED  BY <1>1, <2>1, <2>2
<1>9. e < d.egen
  BY <1>1, <1>3
<1>10. Follows(s, c, e)
  BY <1>3, FollowsWinner DEF t
<1>11. \A x : MessagesOK(ms, s, x, d, cs)
  <2> HIDE DEF cs, e, c, ms
  <2>1. c /= s => disk[c].egen > e /\ (Ballot(e, s, c) \in cs \/ rep[c].egen > e)
    BY <1>4, <1>8
  <2> QED  BY <1>1, <1>4, <2>1, VoteMessage DEF ms
<1> HIDE DEF ms, cs, c
<1>12. CASE ~IHaveWon(s, v)
  <2>1. rep' = [rep EXCEPT ![s] = v] /\ elected' = elected
    BY <1>12 DEF Set
  <2>2. /\ MessagesOK(ms, s, v, disk[s], cs) /\ e < disk[s].egen /\ v.egen >= rep[s].egen
        /\ SiteOK(s, v, thread[s], disk[s], cs)
    BY <1>7, <1>9, <1>11 DEF t, d, e
  <2>3. \A w \in elected' : w \in elected \/ (w \in Winners /\ WinnerOK(w, cs))
    BY <2>1
  <2> HIDE DEF e
  <2> QED  BY <1>1, <1>2, <1>4, <1>7, <1>8, <1>10, <2>1, <2>2, <2>3, MessageVoteStep
<1>13. CASE IHaveWon(s, v)
  <2> DEFINE p == FireElected(ElectMaster(v), v.egen)
             w == [egen |-> e, site |-> s, by |-> Voters(v)]
  <2>1. rep' = [rep EXCEPT ![s] = p] /\ elected' = elected \cup {w}
    BY <1>7, <1>13 DEF Set, Elected
  <2>2. p \in REP /\ p.egen = v.egen /\ SiteOK(s, p, t, d, cs)
    BY <1>1, <1>7, FireElectedSite
  <2>3. c = s
    BY <1>7, <1>13 DEF IHaveWon
  <2>4. w \in Winners /\ WinnerOK(w, cs)
    <3>1. OneEach(v.votes) /\ \A q \in v.votes : q.eid /= s => Ballot(e, q.eid, s) \in cs
      BY <1>7 DEF SiteOK, VotesOK
    <3>2. Voters(v) \in SUBSET Site /\ Cardinality(Voters(v)) >= NVotes
      BY <1>7, <1>13, <3>1, EnoughVoters
    <3>3. \A q \in Voters(v) : Ballot(e, q, s) \in cs
      BY <1>8, <2>3, <3>1 DEF Voters
    <3>4. ASSUME NEW q \in Voters(v)
          PROVE  Rank(q) <= Rank(s)
      <4> DEFINE b == Ballot(e, q, s)
      <4>1. b.voter = q /\ b.candidate = s /\ b.egen = e
        BY DEF Ballot
      <4>2. q = s \/ b \in cast
        BY <1>8, <3>3 DEF Ballot
      <4> HIDE DEF b
      <4>3. CastInv /\ ~(rep[s].egen > e)
        <5>1. rep[s].egen \in Nat
          BY Here DEF REP
        <5> QED  BY <1>1, <5>1 DEF IInv, e
      <4>4. b \in cast => Rank(q) <= Rank(s)
        BY <4>1, <4>3 DEF CastInv, Follows
      <4> QED  BY <4>2, <4>4, ElectionAssumption
    <3> QED  BY <1>1, <3>2, <3>3, <3>4 DEF Winners, WinnerOK
  <2> HIDE DEF p, w
  <2>5. /\ MessagesOK(ms, s, p, disk[s], cs) /\ e < disk[s].egen /\ p.egen >= rep[s].egen
        /\ SiteOK(s, p, thread[s], disk[s], cs)
    BY <1>7, <1>9, <1>11, <2>2 DEF t, d, e
  <2>6. \A x \in elected' : x \in elected \/ (x \in Winners /\ WinnerOK(x, cs))
    BY <2>1, <2>4
  <2> HIDE DEF e
  <2> QED  BY <1>1, <1>2, <1>4, <1>8, <1>10, <2>1, <2>2, <2>5, <2>6, MessageVoteStep
<1> QED  BY <1>12, <1>13

LEMMA ReceiveVote1Step ==
  ASSUME IInv, NEW s \in Site, NEW m \in network, ReceiveVote1(s, m)
  PROVE  IInv'
<1> DEFINE r == Counting(s, m)  q == m.from
           t == [r EXCEPT !.sites = Tally(@, q, m.egen)]
           quiet == UNCHANGED <<network, cast, elected>>
<1>1. /\ m.type = "VOTE1" /\ q /= s /\ ~rep[s].master /\ m.egen >= rep[s].egen
      /\ UNCHANGED <<thread, disk, plan>>
  BY DEF ReceiveVote1, For
<1>2. r \in REP /\ r.egen = m.egen /\ ~r.master /\ SiteOK(s, r, thread[s], disk[s], cast)
  BY <1>1, CountingSite
<1>3. m.egen \in Nat /\ rep[s].egen \in Nat
  BY Here DEF TypeOK, Messages, REP
<1>4. {} \in SUBSET Messages /\ \A n \in {} : n.from = s /\ n.type \notin {"VOTE1", "VOTE2"}
  OBVIOUS
<1>5. ASSUME NEW x \in REP, x.egen >= rep[s].egen, SiteOK(s, x, thread[s], disk[s], cast),
             Set(s, x), quiet
      PROVE  IInv'
  <2>1. rep' = [rep EXCEPT ![s] = x] /\ network' = network \cup {}
    BY <1>5 DEF Set
  <2> HIDE DEF r, t, q
  <2> QED  BY <1>1, <1>4, <1>5, <2>1, RegionStep
<1>6. CASE "PHASE2" \in r.elect_flags \/ Ignored(r.sites, q, m.egen)
  <2>1. Set(s, r) /\ quiet
    BY <1>6 DEF ReceiveVote1
  <2> HIDE DEF r, quiet
  <2> QED  BY <1>1, <1>2, <1>3, <1>5, <2>1
<1>7. CASE ~("PHASE2" \in r.elect_flags \/ Ignored(r.sites, q, m.egen))
  <2>1. PICK w \in CmpVote(t, q) :
          LET u == [t EXCEPT !.winner = w]  v == Voted(s, u.egen, u) IN
          IF InElection(u) /\ Phase1Done(u)
          THEN /\ CastVote(s, u.egen, u)
               /\ IF IHaveWon(s, v)
                  THEN /\ Set(s, FireElected(ElectMaster(v), v.egen))
                       /\ elected' = Elected(s, v.egen, v)
                  ELSE Set(s, v) /\ UNCHANGED elected
          ELSE Set(s, u) /\ UNCHANGED <<network, cast, elected>>
    BY <1>7 DEF ReceiveVote1
  <2> DEFINE u == [t EXCEPT !.winner = w]  v == Voted(s, u.egen, u)
  <2>2. /\ u \in REP /\ u.egen = r.egen /\ u.elect_flags = r.elect_flags
        /\ u.master = r.master /\ u.sites /= {}
        /\ SiteOK(s, u, thread[s], disk[s], cast)
    <3>1. /\ u = Chooses(r, m, w) /\ w \in CmpVote(Hears(r, m), m.from) /\ m.from /= s
          /\ "PHASE2" \notin r.elect_flags /\ ~Ignored(r.sites, m.from, m.egen)
      BY <1>1, <1>7 DEF Hears, Chooses
    <3> HIDE DEF r, t, u, q
    <3>2. HeardOK(s, r, u)
      BY <1>1, <1>2, <3>1, HeardSite
    <3> QED  BY <3>2 DEF HeardOK
  <2>3. u.egen >= rep[s].egen
    BY <1>1, <1>2, <1>3, <2>2
  <2>4. CASE ~(InElection(u) /\ Phase1Done(u))
    <3>1. Set(s, u) /\ quiet
      BY <2>1, <2>4
    <3> HIDE DEF u, quiet
    <3> QED  BY <1>5, <2>2, <2>3, <3>1
  <2>5. CASE InElection(u) /\ Phase1Done(u)
    <3>1. /\ CastVote(s, u.egen, u)
          /\ IF IHaveWon(s, v)
             THEN /\ Set(s, FireElected(ElectMaster(v), v.egen))
                  /\ elected' = Elected(s, v.egen, v)
             ELSE Set(s, v) /\ UNCHANGED elected
      BY <2>1, <2>5
    <3>2. "PHASE2" \notin u.elect_flags /\ "PHASE1" \in u.elect_flags
      BY <1>7, <2>2, <2>5 DEF InElection
    <3>3. v = Voted(s, u.egen, u)
      OBVIOUS
    <3> HIDE DEF u, v, r
    <3> QED  BY <1>1, <1>2, <2>2, <2>3, <3>1, <3>2, <3>3, LastHeardStep
  <2> QED  BY <2>4, <2>5
<1> QED  BY <1>6, <1>7

-----------------------------------------------------------------------------
(* The theorems.                                                           *)

LEMMA InitInv == Init => IInv
<1> SUFFICES ASSUME Init PROVE IInv
  OBVIOUS
<1>1. plan \in Bounds /\ cast = {} /\ elected = {}
  BY ElectionAssumption DEF Init
<1>2. ASSUME NEW s \in Site
      PROVE  /\ rep[s] \in REP /\ rep[s].egen >= disk[s].egen /\ rep[s].elect_flags = {}
             /\ rep[s].sites = {} /\ rep[s].votes = {} /\ ~rep[s].takeover
             /\ thread[s] = Idle /\ disk[s] \in Files
  <2>1. disk[s] \in Files /\ disk[s].egen = 1 /\ thread[s] = Idle
    BY DEF Init, Files
  <2>2. CASE s = plan.master
    <3>1. rep[s] = Appointed(s)
      BY <2>2 DEF Init
    <3>2. /\ Appointed(s) \in REP /\ Appointed(s).egen = 2 /\ Appointed(s).elect_flags = {}
          /\ Appointed(s).sites = {} /\ Appointed(s).votes = {} /\ ~Appointed(s).takeover
      BY DEF Appointed, Region, REP, Tallies
    <3> QED  BY <2>1, <3>1, <3>2
  <2>3. CASE s /= plan.master
    <3>1. rep[s] = Region(disk[s])
      BY <2>3 DEF Init
    <3>2. /\ Region(disk[s]) \in REP /\ Region(disk[s]).egen = 1
          /\ Region(disk[s]).elect_flags = {} /\ Region(disk[s]).sites = {}
          /\ Region(disk[s]).votes = {} /\ ~Region(disk[s]).takeover
      BY <2>1 DEF Region, REP, Tallies, Files
    <3> QED  BY <2>1, <3>1, <3>2
  <2> QED  BY <2>2, <2>3
<1>3. ASSUME NEW m \in network
      PROVE  m \in Messages /\ m.type = "NEWMASTER"
  <2>1. PICK s \in Site : m = Message("NEWMASTER", s, None, Appointed(s), 0, 0)
    BY DEF Init
  <2>2. Appointed(s).gen = 1
    BY DEF Appointed, Region
  <2> QED  BY <2>1, <2>2 DEF Message, Messages
<1>4. TypeOK
  <2>1. rep \in [Site -> REP] /\ thread \in [Site -> Threads] /\ disk \in [Site -> Files]
    <3>1. /\ rep = [s \in Site |-> rep[s]] /\ thread = [s \in Site |-> thread[s]]
          /\ disk = [s \in Site |-> disk[s]]
      BY DEF Init
    <3> QED  BY <1>2, <3>1, LeaveTypes
  <2> QED  BY <1>1, <1>3, <2>1 DEF TypeOK
<1>5. SitesInv
  <2> SUFFICES ASSUME NEW s \in Site PROVE SiteOK(s, rep[s], thread[s], disk[s], cast)
    BY DEF SitesInv
  <2>1. thread[s].pc = "idle" /\ thread[s].pc \notin Active
    BY <1>2, LeaveTypes DEF Active
  <2>2. disk[s].egen \in Nat /\ rep[s].egen \in Nat
    BY <1>2 DEF REP, Files
  <2>3. EgenOK(rep[s], thread[s], disk[s]) /\ MasterOK(rep[s], thread[s])
    BY <1>2, <2>1, <2>2 DEF EgenOK, MasterOK
  <2>4. FlagsOK(s, rep[s], thread[s]) /\ BallotOK(s, rep[s], thread[s], cast)
    BY <1>2, <2>1 DEF FlagsOK, BallotOK, AtEgen
  <2>5. /\ SitesOK(s, rep[s], disk[s]) /\ VotesOK(s, rep[s], disk[s], cast)
        /\ RankOK(s, rep[s], thread[s])
    BY <1>2, <2>1, FS_EmptySet DEF SitesOK, VotesOK, RankOK, OneEach, Voters
  <2> QED  BY <2>3, <2>4, <2>5 DEF SiteOK
<1>6. CastInv /\ ElectedInv
  BY <1>1 DEF CastInv, ElectedInv
<1>7. NetInv
  BY <1>3 DEF NetInv, MessageOK
<1> QED  BY <1>4, <1>5, <1>6, <1>7 DEF IInv

LEMMA NextInv == IInv /\ [Next]_vars => IInv'
<1> SUFFICES ASSUME IInv, [Next]_vars PROVE IInv'
  OBVIOUS
<1>1. CASE Next
  <2>1. PICK s \in plan.up :
          \/ Elect(s) \/ TooLate(s) \/ Participate(s) \/ Vote(s) \/ Overtaken(s)
          \/ HasVoted(s) \/ Look(s) \/ Win(s) \/ Unavailable(s)
          \/ \E m \in network :
               \/ AnswerAlive(s, m) \/ ReceiveVote1(s, m) \/ ReceiveVote2(s, m)
               \/ ReceiveAlive(s, m) \/ ReceiveNewMaster(s, m) \/ DupMaster(s, m)
          \/ TakeOver(s) \/ Crash(s)
    BY <1>1 DEF Next
  <2>2. s \in Site
    BY DEF IInv, TypeOK, Bounds
  <2>3. CASE Elect(s) \/ TooLate(s) \/ Unavailable(s)
    BY <2>2, <2>3, ElectStep, TooLateStep
  <2>4. CASE Participate(s) \/ Vote(s)
    BY <2>2, <2>4, ParticipateStep, VoteStep
  <2>5. CASE Overtaken(s) \/ HasVoted(s)
    BY <2>2, <2>5, OvertakenStep, HasVotedStep
  <2>6. CASE Look(s) \/ Win(s)
    BY <2>2, <2>6, LookStep, WinStep
  <2>7. ASSUME NEW m \in network,
               \/ AnswerAlive(s, m) \/ ReceiveVote1(s, m) \/ ReceiveVote2(s, m)
               \/ ReceiveAlive(s, m) \/ ReceiveNewMaster(s, m) \/ DupMaster(s, m)
        PROVE  IInv'
    <3>1. CASE AnswerAlive(s, m) \/ ReceiveVote1(s, m) \/ ReceiveVote2(s, m)
      BY <2>2, <3>1, AnswerAliveStep, ReceiveVote1Step, ReceiveVote2Step
    <3>2. CASE ReceiveAlive(s, m) \/ ReceiveNewMaster(s, m) \/ DupMaster(s, m)
      BY <2>2, <3>2, ReceiveAliveStep, ReceiveNewMasterStep, DupMasterStep
    <3> QED  BY <2>7, <3>1, <3>2
  <2>8. CASE TakeOver(s) \/ Crash(s)
    BY <2>2, <2>8, TakeOverStep, CrashStep
  <2> QED  BY <2>1, <2>3, <2>4, <2>5, <2>6, <2>7, <2>8
<1>2. CASE UNCHANGED vars
  BY <1>2 DEF vars, IInv, TypeOK, SitesInv, SiteOK, EgenOK, FlagsOK, SitesOK, VotesOK,
       BallotOK, RankOK, Follows, MasterOK, AtEgen, CastInv, OnlyBallot, NetInv, MessageOK,
       ElectedInv, WinnerOK
<1> QED  BY <1>1, <1>2

THEOREM Invariance == Spec => []IInv
BY InitInv, NextInv, PTL DEF Spec

(* The regions, election threads, files and messages of a group are what   *)
(* they should be: rep/rep_elect.c keeps tallies of votes of sites.        *)
THEOREM ElectionTypes == Spec => []TypeOK
<1>1. IInv => TypeOK
  BY DEF IInv
<1> QED  BY <1>1, Invariance, PTL

(* Two sites are never elected in the same election, however many sites,   *)
(* elections, crashes, lost, late and repeated messages and changes of the *)
(* master there are, if votes of more than half of the sites elect.        *)
THEOREM ElectsOne == Spec => []OneWinner
<1>1. IInv => OneWinner
  <2> SUFFICES ASSUME IInv, NEW v \in elected, NEW w \in elected, v.egen = w.egen
               PROVE  v.site = w.site
    BY DEF OneWinner
  <2>1. /\ v.by \in SUBSET Site /\ w.by \in SUBSET Site
        /\ Cardinality(v.by) >= NVotes /\ Cardinality(w.by) >= NVotes
    BY DEF IInv, TypeOK, ElectedInv, WinnerOK
  <2>2. PICK q \in v.by \cap w.by : TRUE
    <3>1. /\ Cardinality(v.by) \in Nat /\ Cardinality(w.by) \in Nat
          /\ Cardinality(Site) \in Nat /\ IsFiniteSet(Site)
      BY <2>1, ElectionAssumption, FS_Subset, FS_CardinalityType
    <3>2. Cardinality(v.by) + Cardinality(w.by) > Cardinality(Site)
      BY <2>1, <3>1, ElectionAssumption
    <3> QED  BY <2>1, <3>1, <3>2, FS_MajoritiesIntersect
  <2> DEFINE a == Ballot(v.egen, q, v.site)  b == Ballot(w.egen, q, w.site)
  <2>3. a \in cast /\ b \in cast
    BY <2>2 DEF IInv, ElectedInv, WinnerOK
  <2>4. b.egen = a.egen /\ b.voter = a.voter /\ a.candidate = v.site /\ b.candidate = w.site
    BY DEF Ballot
  <2> HIDE DEF a, b
  <2>5. b.candidate = a.candidate
    BY <2>3, <2>4 DEF IInv, CastInv, OnlyBallot
  <2> QED  BY <2>4, <2>5
<1> QED  BY <1>1, Invariance, PTL

(* No site whose vote was counted for the winner has a more recent log,    *)
(* though a site can vote after it has left an election, for whom it hears *)
(* of in the next one: such votes come too late to be counted.             *)
THEOREM ElectsMostRecent == Spec => []WinnerIsMostRecent
<1>1. IInv => WinnerIsMostRecent
  BY DEF IInv, ElectedInv, WinnerOK, WinnerIsMostRecent
<1> QED  BY <1>1, Invariance, PTL

-----------------------------------------------------------------------------
(* Elections implement those of Ballots.                                   *)

(* What any step may do with the votes and with who is elected.            *)
LEMMA History ==
  ASSUME TypeOK, Next
  PROVE  /\ elected \subseteq elected'
         /\ cast' = cast \/ \E s \in Site : \E e, c : cast' = FirstVote(s, e, c)
<1>1. PICK s \in plan.up :
        \/ Elect(s) \/ TooLate(s) \/ Participate(s) \/ Vote(s) \/ Overtaken(s)
        \/ HasVoted(s) \/ Look(s) \/ Win(s) \/ Unavailable(s)
        \/ \E m \in network :
             \/ AnswerAlive(s, m) \/ ReceiveVote1(s, m) \/ ReceiveVote2(s, m)
             \/ ReceiveAlive(s, m) \/ ReceiveNewMaster(s, m) \/ DupMaster(s, m)
        \/ TakeOver(s) \/ Crash(s)
  BY DEF Next
<1>2. s \in Site
  BY DEF TypeOK, Bounds
<1>3. CASE \/ Elect(s) \/ TooLate(s) \/ Participate(s) \/ Overtaken(s) \/ HasVoted(s)
           \/ Unavailable(s) \/ TakeOver(s) \/ Crash(s)
  BY <1>3 DEF Elect, TooLate, Participate, Overtaken, HasVoted, Unavailable, TakeOver, Crash
<1>4. CASE Vote(s)
  BY <1>2, <1>4 DEF Vote, CastVote
<1>5. CASE Look(s) \/ Win(s)
  BY <1>2, <1>5 DEF Look, Win, Wins, Elected
<1>6. ASSUME NEW m \in network,
             \/ AnswerAlive(s, m) \/ ReceiveAlive(s, m) \/ ReceiveNewMaster(s, m)
             \/ DupMaster(s, m)
      PROVE  UNCHANGED <<cast, elected>>
  BY <1>6 DEF AnswerAlive, ReceiveAlive, ReceiveNewMaster, DupMaster
<1>7. ASSUME NEW m \in network, ReceiveVote1(s, m)
      PROVE  /\ elected \subseteq elected'
             /\ cast' = cast \/ \E e, c : cast' = FirstVote(s, e, c)
  BY <1>7 DEF ReceiveVote1, CastVote, Elected
<1>8. ASSUME NEW m \in network, ReceiveVote2(s, m)
      PROVE  /\ elected \subseteq elected'
             /\ cast' = cast \/ \E e, c : cast' = FirstVote(s, e, c)
  BY <1>8 DEF ReceiveVote2, Wins, Elected
<1> QED  BY <1>1, <1>2, <1>3, <1>4, <1>5, <1>6, <1>7, <1>8

(* Every election of rep/rep_elect.c is a fair ballot: who is elected has  *)
(* the first votes of NVotes sites, though a site may vote again.          *)
THEOREM ElectionsAreFair == Spec => FairBallot
<1> DEFINE winners == {[egen |-> w.egen, site |-> w.site] : w \in elected}
<1>1. Init => Group!Init
  BY DEF Init, Group!Init
<1>2. IInv /\ IInv' /\ [Next]_vars => [Group!Next]_(Group!vars)
  <2> SUFFICES ASSUME IInv, IInv', [Next]_vars
               PROVE  [Group!Next]_(Group!vars)
    OBVIOUS
  <2>1. CASE UNCHANGED vars
    BY <2>1 DEF vars, Group!vars
  <2>2. CASE Next
    <3>1. /\ elected \subseteq elected'
          /\ cast' = cast \/ \E s \in Site : \E e, c : cast' = FirstVote(s, e, c)
      BY <2>2, History DEF IInv
    <3>2. winners \subseteq winners'
      BY <3>1
    <3>3. ASSUME NEW n \in winners'
          PROVE  n \in Group!Winner /\ Group!Chosen(cast', n)
      <4>1. PICK w \in elected' : n = [egen |-> w.egen, site |-> w.site]
        BY <3>3
      <4>2. /\ w.egen \in Nat /\ w.site \in Site /\ w.by \in SUBSET Site
            /\ Cardinality(w.by) >= NVotes
            /\ \A q \in w.by : Ballot(w.egen, q, w.site) \in cast'
        BY DEF IInv, TypeOK, ElectedInv, WinnerOK
      <4> QED  BY <4>1, <4>2 DEF Group!Winner, Group!Chosen, Ballot
    <3>4. CASE cast' = cast
      BY <3>2, <3>3, <3>4 DEF Group!Next, Group!Win
    <3>5. CASE cast' /= cast
      <4>1. PICK s \in Site : \E e, c : cast' = FirstVote(s, e, c)
        BY <3>1, <3>5
      <4>2. PICK e, c : cast' = FirstVote(s, e, c)
        BY <4>1
      <4> DEFINE b == Ballot(e, s, c)
      <4>3. /\ ~\E v \in cast : v.egen = e /\ v.voter = s
            /\ cast' = cast \cup {b} /\ b \in cast' \ cast
        BY <3>5, <4>2 DEF FirstVote
      <4>4. b \in Group!Vote
        BY <4>3 DEF IInv, TypeOK, Group!Vote
      <4>5. b.egen = e /\ b.voter = s
        BY DEF Ballot
      <4> HIDE DEF b
      <4>6. Group!MayCast(b)
        BY <4>3, <4>5 DEF Group!MayCast
      <4>7. Group!Cast
        BY <3>2, <3>3, <4>3, <4>4, <4>6 DEF Group!Cast
      <4> QED  BY <4>7 DEF Group!Next
    <3> QED  BY <3>4, <3>5
  <2> QED  BY <2>1, <2>2
<1> QED  BY <1>1, <1>2, Invariance, PTL DEF Spec, FairBallot, Group!Spec
=============================================================================
