------------------------------- MODULE Election -------------------------------
(***************************************************************************)
(* Elections between the sites of a replication group (rep/rep_elect.c),   *)
(* with what messages do to generations (rep/rep_record.c, rep/rep_util.c),*)
(* how the elected site becomes master (rep/rep_method.c, repmgr/), and    *)
(* what survives a crash in the files of rep/rep_region.c.                 *)
(*                                                                         *)
(* Messages are lost, delayed, repeated and overtake one another: whatever *)
(* was sent may arrive at any time, or never.  Each site has one election  *)
(* thread, and threads that process messages.                              *)
(***************************************************************************)
EXTENDS Integers, FiniteSets

CONSTANTS
  Site, None,
  Rank(_),              \* how recent a site's log is (data generation, LSN, priority)
  NVotes,               \* how many votes elect
  Plans                 \* bounds: what may happen, see ElectionAssumption

(* A plan says which site was started as master, if any, which sites are   *)
(* up, with which nsites elections are called, how often each site calls   *)
(* or joins one and crashes, and how many times a site that is elected     *)
(* goes on to become master.                                               *)
Bounds ==
  [master : Site \cup {None}, up : SUBSET Site, nsites : SUBSET Nat,
   elections : [Site -> Nat], crashes : [Site -> Nat], takeovers : Nat]

ASSUME ElectionAssumption ==
  /\ None \notin Site
  /\ \A s \in Site : Rank(s) \in Nat
  /\ IsFiniteSet(Site)
  /\ NVotes \in Nat /\ NVotes > 1 /\ 2 * NVotes > Cardinality(Site)
  /\ Plans \subseteq Bounds

VARIABLES
  rep,                  \* the replication region of each site
  thread,               \* its election thread
  disk,                 \* its files __db.rep.gen and __db.rep.egen
  network,              \* every message ever sent
  plan,                 \* what may still happen
  cast,                 \* history: the first vote of each site in each election,
  elected               \* and the sites elected, with those whose votes were counted

vars == <<rep, thread, disk, network, plan, cast, elected>>

-----------------------------------------------------------------------------
(* The region.                                                             *)

(* Mutant: the egen file is not read.                                      *)
RegionFromGen(d) ==
  [gen |-> d.gen, egen |-> d.gen + 1, spent_egen |-> 0, notified_egen |-> 0,
   elect_flags |-> {}, nsites |-> 0, sites |-> {}, votes |-> {}, winner |-> None,
   master |-> FALSE, masterelect |-> FALSE, master_id |-> None, takeover |-> FALSE]

(* A region as it is set up when an environment is opened, as a client.    *)
Region(d) ==
  [gen |-> d.gen, egen |-> d.egen, spent_egen |-> 0, notified_egen |-> 0,
   elect_flags |-> {}, nsites |-> 0, sites |-> {}, votes |-> {}, winner |-> None,
   master |-> FALSE, masterelect |-> FALSE, master_id |-> None, takeover |-> FALSE]

Idle == [pc |-> "idle", egen |-> 0]

InElection(r) == r.elect_flags \cap {"PHASE1", "PHASE2"} /= {}

Phase1Done(r) == Cardinality(r.sites) >= r.nsites /\ r.winner /= None

IHaveWon(s, r) == Cardinality(r.votes) >= NVotes /\ r.winner = s

(* All that is known of an election is forgotten, and the election that    *)
(* this site took part in is over.                                         *)
ElectDone(r) ==
  [r EXCEPT !.elect_flags = {}, !.sites = {}, !.votes = {},
            !.egen = IF InElection(r) THEN @ + 1 ELSE @]

(* A tally holds one entry for each site, with the last egen it was heard  *)
(* of; a vote is ignored unless it is a later one.                         *)
Ignored(tally, eid, egen) == \E v \in tally : v.eid = eid /\ v.egen >= egen

Tally(tally, eid, egen) ==
  IF Ignored(tally, eid, egen) THEN tally
  ELSE {v \in tally : v.eid /= eid} \cup {[eid |-> eid, egen |-> egen]}

(* Mutant: the less recent one is preferred.                               *)
CmpVoteReversed(r, eid) ==
  IF Cardinality(r.sites) = 1 THEN {eid}
  ELSE {c \in {eid, r.winner} : Rank(c) <= Rank(eid) /\ Rank(c) <= Rank(r.winner)}

(* Mutant: the candidate is not noted.                                     *)
CmpVoteForgets(r, eid) == {r.winner}

(* Whom a site prefers once it has tallied eid.  Between equals a random   *)
(* number in their votes decides.                                          *)
CmpVote(r, eid) ==
  IF Cardinality(r.sites) = 1 THEN {eid}
  ELSE {c \in {eid, r.winner} : Rank(c) >= Rank(eid) /\ Rank(c) >= Rank(r.winner)}

(* The first to ask sets how many sites are waited for, others raise it.   *)
Nsites(r, n) == IF r.elect_flags = {} \/ n > r.nsites THEN n ELSE r.nsites

ElectMaster(r) == [r EXCEPT !.masterelect = @ \/ ~r.master]

(* The event that makes the replication manager take over as master.       *)
FireElected(r, egen) ==
  IF r.notified_egen < egen THEN [r EXCEPT !.takeover = TRUE, !.notified_egen = egen] ELSE r

BecomeClient(r) == [r EXCEPT !.master = FALSE, !.masterelect = FALSE, !.master_id = None]

-----------------------------------------------------------------------------
(* Messages, with the generation of the sender.                            *)

Message(type, s, to, r, egen, n) ==
  [type |-> type, from |-> s, to |-> to, gen |-> r.gen, egen |-> egen, nsites |-> n]

Send(ms) == network' = network \cup ms

Ballot(e, s, c) == [egen |-> e, voter |-> s, candidate |-> c]

(* A site can vote again for an election that it has left, see Vote.  Only *)
(* its first vote is to count.                                             *)
FirstVote(s, e, c) ==
  IF \E b \in cast : b.egen = e /\ b.voter = s THEN cast ELSE cast \cup {Ballot(e, s, c)}

(* The vote of s, at e, for the winner in its region: its own vote is      *)
(* tallied, for another site a VOTE2 is sent.                              *)
CastVote(s, e, r) ==
  /\ cast' = FirstVote(s, e, r.winner)
  /\ Send(IF r.winner = s THEN {} ELSE {Message("VOTE2", s, r.winner, r, e, 0)})

Voted(s, e, r) ==
  [r EXCEPT !.votes = IF r.winner = s THEN Tally(@, s, e) ELSE @,
            !.elect_flags = (@ \ {"PHASE1"}) \cup {"PHASE2"}]

Voters(r) == {v.eid : v \in r.votes}

(* s is elected at e by the votes in r.  The one it has tallied for itself *)
(* may be left from an earlier election, and counts in this one.           *)
Elected(s, e, r) == elected \cup {[egen |-> e, site |-> s, by |-> Voters(r)]}

Wins(s, e, r) ==
  /\ elected' = Elected(s, e, r)
  /\ cast' = IF s \in Voters(r) THEN FirstVote(s, e, s) ELSE cast

Set(s, r) == rep' = [rep EXCEPT ![s] = r]

Goto(s, pc, e) == thread' = [thread EXCEPT ![s] = [pc |-> pc, egen |-> e]]

Leave(s) == thread' = [thread EXCEPT ![s] = Idle]

-----------------------------------------------------------------------------
(* The election thread (rep_elect).                                        *)

(* It claims the election at the site's egen, unless one thread has.  When *)
(* the site is elected it takes over before it calls another election.     *)
Elect(s) ==
  LET r == rep[s] IN
  /\ thread[s].pc = "idle" /\ ~r.master /\ ~r.takeover
  /\ r.spent_egen /= r.egen
  /\ plan.elections[s] > 0 /\ plan' = [plan EXCEPT !.elections[s] = @ - 1]
  /\ \E n \in plan.nsites : Set(s, [r EXCEPT !.spent_egen = r.egen, !.nsites = Nsites(r, n)])
  /\ Goto(s, "lockout", r.egen)
  /\ UNCHANGED <<disk, network, cast, elected>>

(* It had to wait until no log records were being applied, and meanwhile   *)
(* that election has ended.                                                *)
TooLate(s) ==
  /\ thread[s].pc = "lockout" /\ rep[s].egen /= thread[s].egen
  /\ Set(s, ElectDone(rep[s]))
  /\ Leave(s)
  /\ UNCHANGED <<disk, network, plan, cast, elected>>

(* It takes part, once a crash can no longer make it do so again, and      *)
(* tells everybody what it has.                                            *)
Participate(s) ==
  LET r == rep[s]  e == thread[s].egen IN
  /\ thread[s].pc = "lockout" /\ r.egen = e
  /\ disk' = [disk EXCEPT ![s].egen = e + 1]
  /\ LET t == [r EXCEPT !.elect_flags = (@ \ {"TALLY"}) \cup {"PHASE1"},
                        !.sites = Tally(@, s, e)] IN
       \E w \in CmpVote(t, s) :
         /\ Set(s, [t EXCEPT !.winner = w])
         /\ Goto(s, IF Phase1Done([t EXCEPT !.winner = w]) THEN "vote" ELSE "phase1", e)
         /\ Send({Message("VOTE1", s, None, t, e, t.nsites)})
  /\ UNCHANGED <<plan, cast, elected>>

(* It votes for whom it prefers: at once if everybody had been heard of    *)
(* when it sent its VOTE1, without looking at the egen again, or when the  *)
(* first phase times out and enough have been heard of.                    *)
Vote(s) ==
  LET r == rep[s]  e == thread[s].egen IN
  /\ \/ thread[s].pc = "vote"
     \/ /\ thread[s].pc = "phase1" /\ r.egen <= e /\ "PHASE2" \notin r.elect_flags
        /\ Cardinality(r.sites) >= NVotes
  /\ CastVote(s, e, r)
  /\ Set(s, Voted(s, e, r))
  /\ Goto(s, "voted", e)
  /\ UNCHANGED <<disk, plan, elected>>

(* It was cut short: a later egen is known.                                *)
Overtaken(s) ==
  /\ thread[s].pc \in {"phase1", "phase2"}
  /\ \/ rep[s].egen > thread[s].egen
     \/ thread[s].pc = "phase2" /\ ~InElection(rep[s])
  /\ Leave(s)
  /\ UNCHANGED <<rep, disk, network, plan, cast, elected>>

(* Messages made it vote while it waited.                                  *)
HasVoted(s) ==
  /\ thread[s].pc = "phase1" /\ rep[s].egen <= thread[s].egen
  /\ "PHASE2" \in rep[s].elect_flags
  /\ Goto(s, "voted", thread[s].egen)
  /\ UNCHANGED <<rep, disk, network, plan, cast, elected>>

(* It looks, without the mutex, whether it need not wait for votes.        *)
Look(s) ==
  LET r == rep[s]  e == thread[s].egen IN
  /\ thread[s].pc = "voted"
  /\ IF IHaveWon(s, r) THEN Goto(s, "won", e) /\ Wins(s, e, r)
     ELSE Goto(s, "phase2", e) /\ UNCHANGED <<cast, elected>>
  /\ UNCHANGED <<rep, disk, network, plan>>

(* It has enough votes, or finds them when the second phase times out.     *)
Win(s) ==
  LET r == rep[s]  e == thread[s].egen IN
  /\ \/ thread[s].pc = "won" /\ UNCHANGED <<cast, elected>>
     \/ /\ thread[s].pc = "phase2" /\ r.egen <= e /\ InElection(r) /\ IHaveWon(s, r)
        /\ Wins(s, e, r)
  /\ Set(s, FireElected(ElectDone(ElectMaster(r)), e))
  /\ Leave(s)
  /\ UNCHANGED <<disk, network, plan>>

(* Nobody was elected in time (DB_REP_UNAVAIL).                            *)
Unavailable(s) ==
  LET r == rep[s] IN
  /\ r.egen <= thread[s].egen
  /\ \/ thread[s].pc = "phase1" /\ "PHASE2" \notin r.elect_flags /\ Cardinality(r.sites) < NVotes
     \/ thread[s].pc = "phase2" /\ InElection(r) /\ ~IHaveWon(s, r)
  /\ Set(s, ElectDone(r))
  /\ Leave(s)
  /\ UNCHANGED <<disk, network, plan, cast, elected>>

-----------------------------------------------------------------------------
(* Messages.                                                               *)

For(s, m) == m.from /= s /\ m.to \in {s, None}

(* Messages of older generations are ignored, but for VOTE1 and DUPMASTER. *)
(* A client takes over the generation of votes and of ALIVE.               *)
Current(s, m) == For(s, m) /\ (m.gen >= rep[s].gen \/ m.type \in {"VOTE1", "DUPMASTER"})

CaughtUp(s, m) ==
  IF m.gen > rep[s].gen THEN [rep[s] EXCEPT !.gen = m.gen, !.master_id = None] ELSE rep[s]

(* A VOTE1 of an earlier election is answered with what the egen is.       *)
AnswerAlive(s, m) ==
  LET r == CaughtUp(s, m) IN
  /\ m.type = "VOTE1" /\ For(s, m) /\ ~r.master /\ m.egen < r.egen
  /\ Set(s, r)
  /\ Send({Message("ALIVE", s, m.from, r, r.egen, 0)})
  /\ UNCHANGED <<thread, disk, plan, cast, elected>>

(* What a VOTE1 of this election, or of one that replaces it, begins with. *)
Counting(s, m) ==
  LET r == CaughtUp(s, m)
      t == IF m.egen > r.egen THEN [ElectDone(r) EXCEPT !.egen = m.egen] ELSE r
  IN  [t EXCEPT !.nsites = Nsites(t, m.nsites),
                !.elect_flags = IF @ = {} THEN {"TALLY"} ELSE @]

(* A VOTE1 is tallied, unless this site has voted.  If it takes part, and  *)
(* this was the last site to be waited for, it votes.                      *)
ReceiveVote1(s, m) ==
  /\ m.type = "VOTE1" /\ For(s, m) /\ ~rep[s].master /\ m.egen >= rep[s].egen
  /\ LET r == Counting(s, m) IN
     IF "PHASE2" \in r.elect_flags \/ Ignored(r.sites, m.from, m.egen)
     THEN Set(s, r) /\ UNCHANGED <<network, cast, elected>>
     ELSE LET t == [r EXCEPT !.sites = Tally(@, m.from, m.egen)] IN
          \E w \in CmpVote(t, m.from) :
            LET u == [t EXCEPT !.winner = w]  v == Voted(s, u.egen, u) IN
            IF InElection(u) /\ Phase1Done(u)
            THEN /\ CastVote(s, u.egen, u)
                 /\ IF IHaveWon(s, v)
                    THEN /\ Set(s, FireElected(ElectMaster(v), v.egen))
                         /\ elected' = Elected(s, v.egen, v)
                    ELSE Set(s, v) /\ UNCHANGED elected
            ELSE Set(s, u) /\ UNCHANGED <<network, cast, elected>>
  /\ UNCHANGED <<thread, disk, plan>>

(* Mutant: one for an earlier election counts too.                         *)
CountsLate(r, m) ==
  r.elect_flags /= {} /\ m.egen <= r.egen /\ ~Ignored(r.votes, m.from, m.egen)

(* Does a VOTE2 count?                                                     *)
Counts(r, m) ==
  r.elect_flags /= {} /\ m.egen = r.egen /\ ~Ignored(r.votes, m.from, m.egen)

(* A VOTE2 for the election at hand is tallied, and may decide it.         *)
ReceiveVote2(s, m) ==
  /\ m.type = "VOTE2" /\ Current(s, m) /\ ~rep[s].master
  /\ LET r == CaughtUp(s, m)
         t == [r EXCEPT !.votes = Tally(@, m.from, m.egen)]
     IN  IF ~Counts(r, m)
         THEN Set(s, r) /\ UNCHANGED <<cast, elected>>
         ELSE IF IHaveWon(s, t)
         THEN Set(s, FireElected(ElectMaster(t), t.egen)) /\ Wins(s, t.egen, t)
         ELSE Set(s, t) /\ UNCHANGED <<cast, elected>>
  /\ UNCHANGED <<thread, disk, network, plan>>

(* An ALIVE with a later egen ends the election at hand.                   *)
ReceiveAlive(s, m) ==
  LET r == CaughtUp(s, m) IN
  /\ m.type = "ALIVE" /\ Current(s, m) /\ (m.gen > rep[s].gen => ~rep[s].master)
  /\ Set(s, IF m.egen > r.egen THEN [ElectDone(r) EXCEPT !.egen = m.egen] ELSE r)
  /\ UNCHANGED <<thread, disk, network, plan, cast, elected>>

(* A client hears of its master; if that is another one, or its generation *)
(* is, this ends the election at hand and is noted on disk.                *)
ReceiveNewMaster(s, m) ==
  LET r == rep[s]  t == ElectDone(r) IN
  /\ m.type = "NEWMASTER" /\ Current(s, m) /\ ~r.master
  /\ IF r.gen /= m.gen \/ r.master_id /= m.from
     THEN /\ Set(s, [t EXCEPT !.gen = m.gen, !.master_id = m.from,
                              !.egen = IF @ <= m.gen THEN m.gen + 1 ELSE @])
          /\ disk' = [disk EXCEPT ![s].gen = m.gen]
     ELSE Set(s, t) /\ UNCHANGED disk
  /\ UNCHANGED <<thread, network, plan, cast, elected>>

(* A master that hears of another master, or of a later generation, says   *)
(* so and becomes a client.                                                *)
DupMaster(s, m) ==
  /\ For(s, m) /\ rep[s].master
  /\ \/ m.gen > rep[s].gen
     \/ m.type = "NEWMASTER" /\ m.gen = rep[s].gen
     \/ m.type = "DUPMASTER"
  /\ Set(s, BecomeClient(rep[s]))
  /\ Send(IF m.type = "DUPMASTER" THEN {} ELSE {Message("DUPMASTER", s, None, rep[s], 0, 0)})
  /\ UNCHANGED <<thread, disk, plan, cast, elected>>

-----------------------------------------------------------------------------
(* The elected site becomes master, with a generation of its own: the next *)
(* one, or the egen.                                                       *)
TakeOver(s) ==
  LET r == rep[s]
      g == IF r.egen > r.gen THEN r.egen ELSE r.gen + 1
      t == IF r.masterelect THEN ElectDone(r) ELSE r
      u == [t EXCEPT !.gen = g, !.egen = IF @ <= g THEN g + 1 ELSE @, !.master = TRUE,
                     !.masterelect = FALSE, !.master_id = s, !.takeover = FALSE]
  IN  /\ r.takeover /\ ~r.master
      /\ plan.takeovers > 0 /\ plan' = [plan EXCEPT !.takeovers = @ - 1]
      /\ Set(s, u)
      /\ disk' = [disk EXCEPT ![s].gen = g]
      /\ Send({Message("NEWMASTER", s, None, u, 0, 0)})
      /\ UNCHANGED <<thread, cast, elected>>

(* A site crashes and comes back as a client.                              *)
Crash(s) ==
  /\ plan.crashes[s] > 0 /\ plan' = [plan EXCEPT !.crashes[s] = @ - 1]
  /\ Set(s, Region(disk[s]))
  /\ Leave(s)
  /\ UNCHANGED <<disk, network, cast, elected>>

-----------------------------------------------------------------------------
(* The master that a group is started with, if any, has told the others.   *)
Appointed(s) ==
  [Region([gen |-> 1, egen |-> 2]) EXCEPT !.master = TRUE, !.master_id = s]

Init ==
  /\ plan \in Plans
  /\ disk = [s \in Site |-> [gen |-> IF s = plan.master THEN 1 ELSE 0, egen |-> 1]]
  /\ rep = [s \in Site |-> IF s = plan.master THEN Appointed(s) ELSE Region(disk[s])]
  /\ thread = [s \in Site |-> Idle]
  /\ network = {Message("NEWMASTER", s, None, Appointed(s), 0, 0) : s \in Site \cap {plan.master}}
  /\ cast = {} /\ elected = {}

Next ==
  \E s \in plan.up :
    \/ Elect(s) \/ TooLate(s) \/ Participate(s) \/ Vote(s) \/ Overtaken(s)
    \/ HasVoted(s) \/ Look(s) \/ Win(s) \/ Unavailable(s)
    \/ \E m \in network :
         \/ AnswerAlive(s, m) \/ ReceiveVote1(s, m) \/ ReceiveVote2(s, m)
         \/ ReceiveAlive(s, m) \/ ReceiveNewMaster(s, m) \/ DupMaster(s, m)
    \/ TakeOver(s) \/ Crash(s)

Spec == Init /\ [][Next]_vars

-----------------------------------------------------------------------------
(* What the variables hold.                                                *)
Tallies == SUBSET [eid : Site, egen : Nat]

REP ==
  [gen : Nat, egen : Nat, spent_egen : Nat, notified_egen : Nat,
   elect_flags : SUBSET {"TALLY", "PHASE1", "PHASE2"}, nsites : Nat, sites : Tallies,
   votes : Tallies, winner : Site \cup {None}, master : BOOLEAN, masterelect : BOOLEAN,
   master_id : Site \cup {None}, takeover : BOOLEAN]

Threads ==
  [pc : {"idle", "lockout", "phase1", "vote", "voted", "phase2", "won"}, egen : Nat]

Files == [gen : Nat, egen : Nat]

Messages ==
  [type : {"VOTE1", "VOTE2", "ALIVE", "NEWMASTER", "DUPMASTER"}, from : Site,
   to : Site \cup {None}, gen : Nat, egen : Nat, nsites : Nat]

TypeOK ==
  /\ rep \in [Site -> REP]
  /\ thread \in [Site -> Threads]
  /\ disk \in [Site -> Files]
  /\ network \subseteq Messages
  /\ plan \in Bounds
  /\ cast \subseteq [egen : Nat, voter : Site, candidate : Site]
  /\ elected \subseteq [egen : Nat, site : Site, by : SUBSET Site]

(* The abstract election of Ballots: whatever messages and crashes do, who *)
(* is elected has the first votes of a majority of the group.              *)
Group == INSTANCE Ballots WITH
  Quorum <- {Q \in SUBSET Site : Cardinality(Q) >= NVotes},
  votes <- cast,
  winners <- {[egen |-> w.egen, site |-> w.site] : w \in elected}

FairBallot == Group!Spec

(* No two sites are elected in the same election.                          *)
OneWinner == \A v, w \in elected : v.egen = w.egen => v.site = w.site

(* No site whose vote was counted for the winner has a more recent log.    *)
WinnerIsMostRecent == \A w \in elected : \A s \in w.by : Rank(s) <= Rank(w.site)
=============================================================================
