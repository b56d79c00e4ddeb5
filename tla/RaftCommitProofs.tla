-------------------------- MODULE RaftCommitProofs --------------------------
(***************************************************************************)
(* Proofs about committed entries of Raft: leaders have them, no two nodes *)
(* disagree about them, and no step, crash or late request takes them      *)
(* away; hence Raft implements ReplicatedLog, under the refinement mapping *)
(* of RaftContract: what is chosen is what the node furthest ahead has     *)
(* committed.                                                              *)
(***************************************************************************)
EXTENDS RaftContract, RaftLogProofs

-----------------------------------------------------------------------------
(* The inductive invariant *)

\* A log has an entry of term t at index i.
Holds(lg, i, t) == i <= Len(lg) /\ lg[i] = t

\* The leader of term t wrote an entry of its own at index i.
Written(i, t) == i > 0 /\ t \in DOMAIN leader_log /\ Holds(leader_log[t], i, t)

\* The nodes of S have that entry, every later leader has it, and so has
\* every candidate of a later term that one of S voted for.
SafeEntry(i, t, S) ==
    /\ \A u \in DOMAIN leader_log : u > t => Holds(leader_log[u], i, t)
    /\ \A p \in S : Holds(log[p], i, t) /\ t <= current_term[p]
    /\ \A c \in Node : \A p \in S :
        (/\ role[c] = "Candidate"
         /\ current_term[c] > t
         /\ <<p, current_term[c], c>> \in ballots) => Holds(log[c], i, t)

\* S can no longer grow to a quorum within term t: every quorum has a node
\* outside S that has moved on.
Lapsed(t, S) ==
    \A Q \in SUBSET Node : Cardinality(Q) >= Quorum =>
        \E p \in Q : p \notin S /\ current_term[p] > t

Backed(i, t, S) == Lapsed(t, S) \/ SafeEntry(i, t, S)

\* The nodes that n, leading its current term, has reason to believe have
\* its log up to index i: itself, and those that said so.
Acks(n, i) ==
    {p \in Node : \/ p = n
                  \/ match_index[n][p] >= i
                  \/ \E m \in rpcs : /\ m.type = "AppendEntriesResponse"
                                     /\ m.success
                                     /\ m.src = p
                                     /\ m.dst = n
                                     /\ m.round = current_term[n]
                                     /\ m.sent_prev_index + m.sent_len >= i}

\* An entry a leader wrote in its own term is backed by those that
\* acknowledged it, unless they can no longer become a quorum.
LeaderSafe(n) ==
    role[n] = "Leader" =>
        \A i \in 1..Len(log[n]) : log[n][i] = current_term[n] =>
            Backed(i, current_term[n], Acks(n, i))

EntriesSafe == \A n \in Node : LeaderSafe(n)

\* A committed entry is backed by a quorum.
DecidedSafe ==
    \A d \in decided :
        /\ Written(d[1], d[2])
        /\ \E Q \in SUBSET Node : Cardinality(Q) >= Quorum /\ SafeEntry(d[1], d[2], Q)

\* A node's committed prefix lies before an entry that a leader of no later
\* term committed, and is the prefix of that leader's log.
CommitBacked ==
    \A n \in Node :
        /\ last_committed[n] <= Len(log[n])
        /\ last_committed[n] > 0 =>
            \E d \in decided : /\ last_committed[n] <= d[1]
                               /\ d[2] <= current_term[n]
                               /\ Agree(log[n], leader_log[d[2]], last_committed[n])

\* So does the commit index captured for a round,
RoundsBacked ==
    \A m \in rpcs : m.type = "ReplicationRound" =>
        /\ m.last_committed <= last_committed[m.src]
        /\ m.last_committed > 0 =>
            \E d \in decided : m.last_committed <= d[1] /\ d[2] <= m.term

\* and the one an AppendEntries states, which lies within what it sends.
RequestsBacked ==
    \A m \in rpcs : m.type = "AppendEntriesRequest" =>
        /\ m.leader_commit <= m.prev_index + Len(m.entries)
        /\ m.leader_commit > 0 =>
            \E d \in decided : m.leader_commit <= d[1] /\ d[2] <= m.term

CommitInv == EntriesSafe /\ DecidedSafe /\ CommitBacked /\ RoundsBacked /\ RequestsBacked

-----------------------------------------------------------------------------
(* Entries that are backed *)

\* Fewer nodes are as good.
LEMMA FewerBack ==
    ASSUME NEW i, NEW t, NEW S \in SUBSET Node, NEW R \in SUBSET S, Backed(i, t, S)
    PROVE  Backed(i, t, R)
<1>1. CASE Lapsed(t, S)
  BY <1>1 DEF Lapsed, Backed
<1>2. CASE SafeEntry(i, t, S)
  BY <1>2 DEF SafeEntry, Backed
<1> QED
  BY <1>1, <1>2 DEF Backed

\* A quorum never lapses.
LEMMA QuorumBacks ==
    ASSUME NEW i, NEW t, NEW S \in SUBSET Node, Cardinality(S) >= Quorum, Backed(i, t, S)
    PROVE  SafeEntry(i, t, S)
<1>1. ~ Lapsed(t, S)
  BY DEF Lapsed
<1> QED
  BY <1>1 DEF Backed

\* Those that moved on have moved on.
LEMMA LapsedKept ==
    ASSUME TypeOK, TypeOK', TermsGrow, NEW t \in Nat, NEW S \in SUBSET Node, Lapsed(t, S)
    PROVE  Lapsed(t, S)'
<1> SUFFICES ASSUME NEW Q \in SUBSET Node, Cardinality(Q) >= Quorum
             PROVE  \E p \in Q : p \notin S /\ current_term'[p] > t
  BY DEF Lapsed
<1>1. PICK p \in Q : p \notin S /\ current_term[p] > t
  BY DEF Lapsed
<1>2. /\ current_term[p] \in Nat /\ current_term'[p] \in Nat
      /\ current_term[p] <= current_term'[p]
  BY LogTypes, LogTypesAfter DEF TermsGrow
<1> QED
  BY <1>1, <1>2

\* What a log holds, every log that agrees with it so far holds.
LEMMA HoldsShared ==
    ASSUME NEW r \in Seq(Nat), NEW s \in Seq(Nat), NEW i \in Nat, i > 0, NEW t, NEW k \in Nat,
           i <= k, Agree(s, r, k), Holds(r, i, t)
    PROVE  Holds(s, i, t)
<1>1. i \in 1..k /\ k <= Len(s) /\ Len(s) \in Nat
  BY LenProperties DEF Agree
<1> QED
  BY <1>1 DEF Agree, Holds

\* What a leader's log holds, it goes on holding.
LEMMA LeaderHolds ==
    ASSUME TypeOK, TypeOK', LeaderLogsGrow, NEW u \in DOMAIN leader_log,
           NEW i \in Nat, i > 0, NEW t, Holds(leader_log[u], i, t)
    PROVE  Holds(leader_log'[u], i, t)
<1>1. u \in DOMAIN leader_log' /\ Agree(leader_log'[u], leader_log[u], Len(leader_log[u]))
  BY DEF LeaderLogsGrow
<1>2. /\ leader_log[u] \in Seq(Nat) /\ leader_log'[u] \in Seq(Nat)
      /\ Len(leader_log[u]) \in Nat /\ i <= Len(leader_log[u])
  BY <1>1, LogTypes, LogTypesAfter DEF Holds
<1> QED
  BY <1>1, <1>2, HoldsShared

\* What a leader wrote in its term stays written.
LEMMA WrittenKept ==
    ASSUME TypeOK, TypeOK', LeaderLogsGrow, NEW i \in Nat, NEW t, Written(i, t)
    PROVE  Written(i, t)'
<1>1. i > 0 /\ t \in DOMAIN leader_log /\ Holds(leader_log[t], i, t)
  BY DEF Written
<1>2. t \in DOMAIN leader_log' /\ Holds(leader_log'[t], i, t)
  BY <1>1, LeaderHolds DEF LeaderLogsGrow
<1> QED
  BY <1>1, <1>2 DEF Written, Holds

\* Candidates keep their term and log, and there are no new ones.
RunnersKept ==
    \A c \in Node : role'[c] = "Candidate" =>
        /\ role[c] = "Candidate"
        /\ current_term'[c] = current_term[c]
        /\ log'[c] = log[c]

\* A step without a vote, a campaign or a win keeps a backed entry backed, if
\* those that have the entry keep it.
LEMMA BackedKept ==
    ASSUME TypeOK, TypeOK', TermsGrow, LeaderLogsGrow, RunnersKept,
           DOMAIN leader_log' = DOMAIN leader_log, UNCHANGED ballots,
           NEW i \in Nat, i > 0, NEW t \in Nat, NEW S \in SUBSET Node, Backed(i, t, S),
           SafeEntry(i, t, S) => \A p \in S : Holds(log'[p], i, t)
    PROVE  Backed(i, t, S)'
<1>1. CASE Lapsed(t, S)
  BY <1>1, LapsedKept DEF Backed
<1>2. CASE SafeEntry(i, t, S)
  <2>1. ASSUME NEW u \in DOMAIN leader_log', u > t PROVE Holds(leader_log'[u], i, t)
    <3>1. u \in DOMAIN leader_log /\ Holds(leader_log[u], i, t)
      BY <1>2, <2>1 DEF SafeEntry
    <3> QED
      BY <3>1, LeaderHolds
  <2>2. ASSUME NEW p \in S PROVE Holds(log'[p], i, t) /\ t <= current_term'[p]
    <3>1. /\ current_term[p] \in Nat /\ current_term'[p] \in Nat
          /\ current_term[p] <= current_term'[p] /\ t <= current_term[p]
      BY <1>2, LogTypes, LogTypesAfter DEF TermsGrow, SafeEntry
    <3> QED
      BY <1>2, <3>1
  <2>3. ASSUME NEW c \in Node, NEW p \in S, role'[c] = "Candidate", current_term'[c] > t,
               <<p, current_term'[c], c>> \in ballots'
        PROVE  Holds(log'[c], i, t)
    <3>1. /\ role[c] = "Candidate" /\ current_term'[c] = current_term[c] /\ log'[c] = log[c]
      BY <2>3 DEF RunnersKept
    <3> QED
      BY <1>2, <2>3, <3>1 DEF SafeEntry
  <2>4. SafeEntry(i, t, S)'
    BY <2>1, <2>2, <2>3 DEF SafeEntry, Holds
  <2> QED
    BY <2>4 DEF Backed
<1> QED
  BY <1>1, <1>2 DEF Backed

\* Logs and leaderships untouched.
LEMMA SteadyBacked ==
    ASSUME TypeOK, TypeOK', TermsGrow, RunnersKept, UNCHANGED <<log, leader_log, ballots>>,
           NEW i \in Nat, i > 0, NEW t \in Nat, NEW S \in SUBSET Node, Backed(i, t, S)
    PROVE  Backed(i, t, S)'
<1>1. LeaderLogsGrow
  BY LeaderLogsSame
<1>2. SafeEntry(i, t, S) => \A p \in S : Holds(log'[p], i, t)
  BY DEF SafeEntry
<1> QED
  BY <1>1, <1>2, BackedKept

\* A campaign: only n has voted for n in its new term.
LEMMA CampaignBacked ==
    ASSUME TypeOK, TypeOK', VotingInv, LineageInv, NEW n \in Node, Campaigns(n),
           NEW i \in Nat, i > 0, NEW t \in Nat, NEW S \in SUBSET Node, Backed(i, t, S)
    PROVE  Backed(i, t, S)'
<1> USE DEF LineageInv
<1>1. /\ current_term' = [current_term EXCEPT ![n] = current_term[n] + 1]
      /\ role' = [role EXCEPT ![n] = "Candidate"]
      /\ ballots' = ballots \cup {<<n, current_term[n] + 1, n>>}
      /\ UNCHANGED <<log, leader_log>>
  BY DEF Campaigns, into_candidate
<1>2. /\ current_term[n] \in Nat /\ current_term'[n] = current_term[n] + 1
      /\ \A p \in Node \ {n} : current_term'[p] = current_term[p] /\ role'[p] = role[p]
  BY <1>1 DEF TypeOK
<1>3. TermsGrow
  BY <1>2, LogTypes DEF TermsGrow
<1>4. CASE Lapsed(t, S)
  BY <1>3, <1>4, LapsedKept DEF Backed
<1>5. CASE SafeEntry(i, t, S)
  <2>1. ASSUME NEW p \in S PROVE Holds(log[p], i, t) /\ t <= current_term'[p]
    <3>1. /\ current_term[p] \in Nat /\ current_term'[p] \in Nat
          /\ current_term[p] <= current_term'[p] /\ t <= current_term[p]
      BY <1>3, <1>5, LogTypes, LogTypesAfter DEF TermsGrow, SafeEntry
    <3> QED
      BY <1>5, <3>1 DEF SafeEntry
  <2>2. ASSUME NEW c \in Node, NEW p \in S, role'[c] = "Candidate", current_term'[c] > t,
               <<p, current_term'[c], c>> \in ballots'
        PROVE  Holds(log[c], i, t)
    <3>1. CASE c # n
      <4>1. <<p, current_term[c], c>> \in ballots /\ role[c] = "Candidate" /\ current_term[c] > t
        BY <1>1, <1>2, <2>2, <3>1
      <4> QED
        BY <1>5, <4>1 DEF SafeEntry
    <3>2. CASE c = n
      <4>1. <<p, current_term[n] + 1, n>> \notin ballots
        BY <1>2 DEF VotesReached
      <4>2. p = n
        BY <1>1, <1>2, <2>2, <3>2, <4>1
      <4> QED
        BY <2>1, <3>2, <4>2
    <3> QED
      BY <3>1, <3>2
  <2>3. SafeEntry(i, t, S)'
    BY <1>1, <1>5, <2>1, <2>2 DEF SafeEntry, Holds
  <2> QED
    BY <2>3 DEF Backed
<1> QED
  BY <1>4, <1>5 DEF Backed

\* A candidate whose log is up to date by the standard of a node that has a
\* safe entry has it too.
LEMMA UpToDateHolds ==
    ASSUME TypeOK, LineageInv, NEW p \in Node, NEW c \in Node, NEW m,
           m.last_index = Len(log[c]), m.last_term = last_log_term(log[c]),
           is_log_up_to_date(log[p], m),
           NEW i \in Nat, i > 0, NEW t \in Nat, Holds(log[p], i, t),
           \A u \in DOMAIN leader_log : u > t => Holds(leader_log[u], i, t)
    PROVE  Holds(log[c], i, t)
<1> USE DEF LineageInv
<1> DEFINE a == log[p]
           b == log[c]
           k == Len(a)
           j == Len(b)
<1>1. a \in Seq(Nat) /\ b \in Seq(Nat) /\ k \in Nat /\ j \in Nat
  BY LogTypes
<1>2. i \in 1..k /\ a[i] = t
  BY <1>1 DEF Holds
<1>3. k \in 1..k /\ FromLeader(a, k) /\ a # << >>
  BY <1>1, <1>2 DEF LogsFromLeaders
<1>4. a[k] \in Nat /\ t <= a[k]
  BY <1>1, <1>2, <1>3, TermsAscend
<1>5. last_log_term(a) = a[k]
  BY <1>3 DEF last_log_term
<1>6. /\ m.last_term = IF b = << >> THEN 0 ELSE b[j]
      /\ m.last_term > a[k] \/ (m.last_term = a[k] /\ j >= k)
  BY <1>5 DEF is_log_up_to_date, last_log_term
<1>7. b # << >>
  <2> SUFFICES ASSUME b = << >> PROVE FALSE
    OBVIOUS
  <2>1. j = 0
    OBVIOUS
  <2>2. m.last_term = 0
    BY <1>6
  <2> QED
    BY <1>1, <1>2, <1>4, <1>6, <2>1, <2>2
<1>8. j \in 1..j
  BY <1>1, <1>7
<1>9. FromLeader(b, j) /\ b[j] \in Nat /\ m.last_term = b[j]
  BY <1>1, <1>6, <1>7, <1>8 DEF LogsFromLeaders
<1> DEFINE u == b[j]
<1>10. /\ u \in DOMAIN leader_log /\ Agree(b, leader_log[u], j)
       /\ leader_log[u] \in Seq(Nat) /\ Len(leader_log[u]) \in Nat
  BY <1>9, LogTypes DEF FromLeader
<1> HIDE DEF a, b
<1>11. CASE u > a[k]
  <2>1. Holds(leader_log[u], i, t) /\ u > t
    BY <1>4, <1>9, <1>10, <1>11
  <2>2. i \in 1..Len(leader_log[u]) /\ leader_log[u][i] = t
    BY <1>10, <2>1 DEF Holds
  <2>3. FromLeader(leader_log[u], i)
    BY <1>10, <2>2 DEF LeadersFromLeaders
  <2>4. leader_log[u][j] = u
    BY <1>8, <1>10 DEF Agree
  <2>5. i < j
    <3> SUFFICES ASSUME ~ (i < j) PROVE FALSE
      OBVIOUS
    <3>1. j \in 1..i
      BY <1>1, <1>8
    <3>2. leader_log[u][j] <= leader_log[u][i]
      BY <1>10, <2>2, <2>3, <3>1, TermsAscend
    <3> QED
      BY <1>9, <2>1, <2>2, <2>4, <3>2
  <2>6. i \in 1..j /\ i <= j
    BY <1>1, <2>5
  <2> QED
    BY <1>1, <1>10, <2>1, <2>6, HoldsShared DEF b
<1>12. CASE u = a[k] /\ j >= k
  <2>1. Agree(a, leader_log[u], k)
    BY <1>3, <1>12 DEF FromLeader
  <2>2. i \in 1..k /\ i \in 1..j /\ i <= j
    BY <1>1, <1>2, <1>12
  <2>3. b[i] = leader_log[u][i]
    BY <1>10, <2>2 DEF Agree
  <2>4. a[i] = leader_log[u][i]
    BY <2>1, <2>2 DEF Agree
  <2> QED
    BY <1>2, <2>2, <2>3, <2>4 DEF Holds, b
<1> QED
  BY <1>6, <1>9, <1>11, <1>12

\* A vote: if the voter has the entry, so has the candidate.
LEMMA VoteBacked ==
    ASSUME TypeOK, TypeOK', LineageInv, NEW m \in rpcs, Votes(m),
           NEW i \in Nat, i > 0, NEW t \in Nat, NEW S \in SUBSET Node, Backed(i, t, S)
    PROVE  Backed(i, t, S)'
<1> USE DEF LineageInv
<1>1. /\ m.type = "RequestVoteRequest" /\ is_log_up_to_date(log[m.dst], m)
      /\ TermsGrow /\ KeepsPowers /\ UNCHANGED <<log, leader_log>>
      /\ ballots' = ballots \cup {<<m.dst, m.term, m.src>>}
  BY DEF Votes
<1>2. m.src \in Node /\ m.dst \in Node
  BY AppendTypes
<1>3. CASE Lapsed(t, S)
  BY <1>1, <1>3, LapsedKept DEF Backed
<1>4. CASE SafeEntry(i, t, S)
  <2>1. ASSUME NEW p \in S PROVE Holds(log[p], i, t) /\ t <= current_term'[p]
    <3>1. /\ current_term[p] \in Nat /\ current_term'[p] \in Nat
          /\ current_term[p] <= current_term'[p] /\ t <= current_term[p]
      BY <1>1, <1>4, LogTypes, LogTypesAfter DEF TermsGrow, SafeEntry
    <3> QED
      BY <1>4, <3>1 DEF SafeEntry
  <2>2. ASSUME NEW c \in Node, NEW p \in S, role'[c] = "Candidate", current_term'[c] > t,
               <<p, current_term'[c], c>> \in ballots'
        PROVE  Holds(log[c], i, t)
    <3>1. role[c] = "Candidate" /\ current_term'[c] = current_term[c]
      BY <1>1, <2>2 DEF KeepsPowers, KeepsPowersBut
    <3>2. CASE <<p, current_term[c], c>> \in ballots
      BY <1>4, <2>2, <3>1, <3>2 DEF SafeEntry
    <3>3. CASE <<p, current_term[c], c>> = <<m.dst, m.term, m.src>>
      <4>1. p = m.dst /\ c = m.src /\ m.term = current_term[c]
        BY <3>3
      <4>2. m.last_index = Len(log[c]) /\ m.last_term = last_log_term(log[c])
        BY <1>1, <3>1, <4>1 DEF RequestsShowLog
      <4>3. \A u \in DOMAIN leader_log : u > t => Holds(leader_log[u], i, t)
        BY <1>4 DEF SafeEntry
      <4> QED
        BY <1>1, <1>2, <2>1, <4>1, <4>2, <4>3, UpToDateHolds
    <3> QED
      BY <1>1, <2>2, <3>1, <3>2, <3>3
  <2>3. SafeEntry(i, t, S)'
    BY <1>1, <1>4, <2>1, <2>2 DEF SafeEntry, Holds
  <2> QED
    BY <2>3 DEF Backed
<1> QED
  BY <1>3, <1>4 DEF Backed

\* A win: either a voter has the entry, and then the winner has it, or the
\* voters are a quorum outside S that has moved on.
LEMMA WinBacked ==
    ASSUME TypeOK, TypeOK', VotingInv, LineageInv,
           NEW n \in Node, NEW Q \in SUBSET Node, Wins(n, Q),
           NEW i \in Nat, i > 0, NEW t \in Nat, NEW S \in SUBSET Node, Backed(i, t, S)
    PROVE  Backed(i, t, S)'
<1> USE DEF LineageInv
<1> DEFINE w == current_term[n]
<1>1. /\ role[n] = "Candidate" /\ role' = [role EXCEPT ![n] = "Leader"]
      /\ leader_log' = [u \in DOMAIN leader_log \cup {w} |->
                           IF u = w THEN log[n] ELSE leader_log[u]]
      /\ UNCHANGED <<current_term, log, ballots>>
      /\ Cardinality(Q) >= Quorum /\ \A v \in Q : <<v, w, n>> \in ballots
  BY DEF Wins, into_leader, hardState
<1>2. w \in Nat
  BY LogTypes
<1>3. CASE Lapsed(t, S)
  BY <1>1, <1>3 DEF Backed, Lapsed
<1>4. CASE SafeEntry(i, t, S) /\ w > t /\ Q \cap S = {}
  <2> SUFFICES ASSUME NEW P \in SUBSET Node, Cardinality(P) >= Quorum
               PROVE  \E p \in P : p \notin S /\ current_term'[p] > t
    BY DEF Backed, Lapsed
  <2>1. PICK p \in P : p \in Q
    BY <1>1, QuorumsIntersect
  <2>2. w <= current_term[p] /\ current_term[p] \in Nat
    BY <1>1, <2>1, LogTypes DEF VotingInv, BallotsPersisted
  <2>3. current_term[p] > t
    BY <1>2, <1>4, <2>2
  <2> QED
    BY <1>1, <1>4, <2>1, <2>3
<1>5. CASE SafeEntry(i, t, S) /\ (w > t => Q \cap S # {})
  <2>1. w > t => Holds(log[n], i, t)
    BY <1>1, <1>5 DEF SafeEntry
  <2>2. ASSUME NEW u \in DOMAIN leader_log', u > t PROVE Holds(leader_log'[u], i, t)
    <3>1. CASE u = w
      BY <1>1, <2>1, <2>2, <3>1
    <3>2. CASE u # w
      BY <1>1, <1>5, <2>2, <3>2 DEF SafeEntry
    <3> QED
      BY <3>1, <3>2
  <2>3. \A c \in Node : role'[c] = "Candidate" => role[c] = "Candidate"
    BY <1>1 DEF TypeOK
  <2>4. SafeEntry(i, t, S)'
    BY <1>1, <1>5, <2>2, <2>3 DEF SafeEntry, Holds
  <2> QED
    BY <2>4 DEF Backed
<1> QED
  BY <1>3, <1>4, <1>5 DEF Backed

\* A proposal only extends logs.
LEMMA ProposeBacked ==
    ASSUME TypeOK, TypeOK', LineageInv, NEW n \in Node, propose(n),
           NEW i \in Nat, i > 0, NEW t \in Nat, NEW S \in SUBSET Node, Backed(i, t, S)
    PROVE  Backed(i, t, S)'
<1> USE DEF LineageInv
<1> DEFINE w == current_term[n]
<1>1. /\ role[n] = "Leader" /\ w \in Nat /\ log[n] \in Seq(Nat)
      /\ w \in DOMAIN leader_log /\ leader_log[w] = log[n]
  BY LogTypes DEF propose, LeaderOwnsLog
<1>2. /\ log'[n] = Append(log[n], w) /\ \A p \in Node \ {n} : log'[p] = log[p]
      /\ UNCHANGED <<current_term, role, ballots>>
  BY DEF propose, hardState, roleState, TypeOK
<1>3. /\ DOMAIN leader_log' = DOMAIN leader_log /\ leader_log'[w] = log'[n]
      /\ \A u \in DOMAIN leader_log \ {w} : leader_log'[u] = leader_log[u]
  BY <1>1 DEF propose, TypeOK
<1>4. log'[n] \in Seq(Nat) /\ Agree(log'[n], log[n], Len(log[n])) /\ Len(log[n]) \in Nat
  BY <1>1, <1>2, AppendIs, LogTypes
<1>5. LeaderLogsGrow
  <2> SUFFICES ASSUME NEW u \in DOMAIN leader_log
               PROVE  Agree(leader_log'[u], leader_log[u], Len(leader_log[u]))
    BY <1>3 DEF LeaderLogsGrow
  <2>1. CASE u = w
    BY <1>1, <1>3, <1>4, <2>1
  <2>2. CASE u # w
    BY <1>3, <2>2, LogTypes DEF Agree
  <2> QED
    BY <2>1, <2>2
<1>6. TermsGrow /\ RunnersKept
  BY <1>1, <1>2, LogTypes DEF TermsGrow, RunnersKept
<1>7. ASSUME SafeEntry(i, t, S), NEW p \in S PROVE Holds(log'[p], i, t)
  <2>1. Holds(log[p], i, t)
    BY <1>7 DEF SafeEntry
  <2>2. CASE p = n
    <3>1. i <= Len(log[n])
      BY <2>1, <2>2 DEF Holds
    <3> QED
      BY <1>1, <1>4, <2>1, <2>2, <3>1, HoldsShared
  <2>3. CASE p # n
    BY <1>2, <2>1, <2>3
  <2> QED
    BY <2>2, <2>3
<1> QED
  BY <1>2, <1>3, <1>5, <1>6, <1>7, BackedKept

\* A later leader has the log of an earlier one up to an entry that is safe.
LEMMA LaterLeaderAgrees ==
    ASSUME TypeOK, LineageInv, NEW i \in Nat, NEW t \in Nat, Written(i, t),
           \A u \in DOMAIN leader_log : u > t => Holds(leader_log[u], i, t),
           NEW e \in DOMAIN leader_log, t <= e
    PROVE  Holds(leader_log[e], i, t) /\ Agree(leader_log[e], leader_log[t], i)
<1> USE DEF LineageInv
<1>1. i > 0 /\ t \in DOMAIN leader_log /\ Holds(leader_log[t], i, t)
  BY DEF Written
<1>2. /\ e \in Nat /\ leader_log[e] \in Seq(Nat) /\ leader_log[t] \in Seq(Nat)
      /\ Len(leader_log[e]) \in Nat /\ Len(leader_log[t]) \in Nat
  BY <1>1, LogTypes
<1>3. Holds(leader_log[e], i, t)
  <2>1. CASE e = t
    BY <1>1, <2>1
  <2>2. CASE e > t
    BY <2>2
  <2> QED
    BY <1>2, <2>1, <2>2
<1>4. /\ i \in 1..Len(leader_log[e]) /\ i \in 1..Len(leader_log[t])
      /\ leader_log[e][i] = leader_log[t][i]
  BY <1>1, <1>2, <1>3 DEF Holds
<1>5. FromLeader(leader_log[e], i) /\ FromLeader(leader_log[t], i)
  BY <1>1, <1>4 DEF LeadersFromLeaders
<1> QED
  BY <1>2, <1>3, <1>4, <1>5, SameEntry

\* What following an AppendEntries does, entirely or up to a crash.
LEMMA FollowFacts ==
    ASSUME TypeOK, LineageInv, NEW m \in rpcs, Accepts(m) \/ Crashes(m)
    PROVE  /\ m.type = "AppendEntriesRequest" /\ m.src \in Node /\ m.dst \in Node
           /\ m.term \in Nat /\ current_term[m.dst] <= m.term
           /\ current_term'[m.dst] = m.term
           /\ \A q \in Node \ {m.dst} : current_term'[q] = current_term[q] /\ log'[q] = log[q]
           /\ TermsGrow /\ RunnersKept /\ KeepsPowers
           /\ KeepsRounds /\ KeepsAppends
           /\ UNCHANGED <<ballots, elected, leader_log, decided>>
           /\ \E e \in DOMAIN leader_log :
                /\ m.term <= e /\ e <= current_term[m.src]
                /\ log'[m.dst] \in Seq(Nat)
                /\ \A c \in Nat : Agree(log[m.dst], leader_log[e], c) =>
                                    Agree(log'[m.dst], leader_log[e], c)
                /\ Accepts(m) =>
                     Agree(log'[m.dst], leader_log[e], m.prev_index + Len(m.entries))
<1> USE DEF LineageInv
<1> DEFINE p == m.dst
           cut == TruncateConflicts(log[p], m.prev_index, m.entries)
           full == Reconciled(log[p], m.prev_index, m.entries)
<1>1. PICK new \in {cut, full} : Follows(m, new) /\ (Accepts(m) => new = full)
  BY DEF Accepts, Crashes
<1>2. /\ m.type = "AppendEntriesRequest" /\ m.term >= current_term[p]
      /\ verify_log_consistency(log[p], m.prev_index, m.prev_term)
      /\ log' = [log EXCEPT ![p] = new]
      /\ current_term' = [current_term EXCEPT ![p] = m.term]
      /\ KeepsPowers /\ KeepsRounds /\ KeepsAppends
      /\ UNCHANGED <<ballots, elected, leader_log, decided>>
  BY <1>1 DEF Follows
<1>3. p \in Node /\ m.src \in Node /\ m.term \in Nat /\ current_term[p] \in Nat
  BY AppendTypes, LogTypes
<1>4. /\ current_term'[p] = m.term /\ log'[p] = new
      /\ \A q \in Node \ {p} : current_term'[q] = current_term[q] /\ log'[q] = log[q]
  BY <1>2, <1>3 DEF TypeOK
<1>5. TermsGrow
  <2>1. \A q \in Node : current_term[q] \in Nat
    BY LogTypes
  <2> QED
    BY <1>2, <1>3, <1>4, <2>1 DEF TermsGrow
<1>6. RunnersKept
  BY <1>2 DEF KeepsPowers, KeepsPowersBut, RunnersKept
<1>7. PICK e \in DOMAIN leader_log :
        m.term <= e /\ e <= current_term[m.src] /\ SegmentOf(m, leader_log[e])
  BY <1>2 DEF RequestsFromLeaders
<1>8. /\ new \in Seq(Nat)
      /\ \A c \in Nat : Agree(log[p], leader_log[e], c) => Agree(new, leader_log[e], c)
      /\ Agree(full, leader_log[e], m.prev_index + Len(m.entries))
  BY <1>2, <1>7, FollowedLog
<1> HIDE DEF full
<1>9. Accepts(m) => Agree(new, leader_log[e], m.prev_index + Len(m.entries))
  BY <1>1, <1>8
<1>10. /\ m.term <= e /\ e <= current_term[m.src]
       /\ log'[p] \in Seq(Nat)
       /\ \A c \in Nat : Agree(log[p], leader_log[e], c) => Agree(log'[p], leader_log[e], c)
       /\ Accepts(m) => Agree(log'[p], leader_log[e], m.prev_index + Len(m.entries))
  BY <1>4, <1>7, <1>8, <1>9
<1>11. current_term[p] <= m.term
  BY <1>2, <1>3
<1> QED
  BY <1>2, <1>3, <1>4, <1>5, <1>6, <1>10, <1>11

\* Following a leader: its log has the entry, so the follower keeps it.
LEMMA FollowBacked ==
    ASSUME TypeOK, TypeOK', LineageInv, NEW m \in rpcs, Accepts(m) \/ Crashes(m),
           NEW i \in Nat, i > 0, NEW t \in Nat, NEW S \in SUBSET Node, Backed(i, t, S),
           Written(i, t)
    PROVE  Backed(i, t, S)'
<1> USE DEF LineageInv
<1> DEFINE p == m.dst
<1>1. /\ p \in Node /\ m.term \in Nat /\ current_term[p] <= m.term
      /\ \A q \in Node \ {p} : log'[q] = log[q]
      /\ TermsGrow /\ RunnersKept /\ UNCHANGED <<ballots, leader_log>>
  BY FollowFacts
<1>2. PICK e \in DOMAIN leader_log :
         /\ m.term <= e
         /\ log'[p] \in Seq(Nat)
         /\ \A c \in Nat : Agree(log[p], leader_log[e], c) => Agree(log'[p], leader_log[e], c)
  BY FollowFacts
<1>3. ASSUME SafeEntry(i, t, S), NEW q \in S PROVE Holds(log'[q], i, t)
  <2>1. Holds(log[q], i, t) /\ t <= current_term[q]
    BY <1>3 DEF SafeEntry
  <2>2. CASE q # p
    BY <1>1, <2>1, <2>2
  <2>3. CASE q = p
    <3>1. /\ e \in Nat /\ leader_log[e] \in Seq(Nat) /\ log[p] \in Seq(Nat)
          /\ Len(log[p]) \in Nat /\ Len(leader_log[e]) \in Nat /\ current_term[p] \in Nat
      BY <1>1, <1>2, LogTypes
    <3>2. t <= e
      BY <1>1, <1>2, <2>1, <2>3, <3>1
    <3>3. \A u \in DOMAIN leader_log : u > t => Holds(leader_log[u], i, t)
      BY <1>3 DEF SafeEntry
    <3>4. Holds(leader_log[e], i, t)
      BY <1>2, <3>2, <3>3, LaterLeaderAgrees
    <3>5. /\ i \in 1..Len(leader_log[e]) /\ i \in 1..Len(log[p])
          /\ log[p][i] = leader_log[e][i]
      BY <2>1, <2>3, <3>1, <3>4 DEF Holds
    <3>6. FromLeader(log[p], i) /\ FromLeader(leader_log[e], i)
      BY <1>1, <3>5 DEF LogsFromLeaders, LeadersFromLeaders
    <3>7. Agree(log[p], leader_log[e], i)
      BY <3>1, <3>5, <3>6, SameEntry
    <3>8. Agree(log'[p], leader_log[e], i)
      BY <1>2, <3>7
    <3> QED
      BY <1>2, <2>3, <3>1, <3>4, <3>8, HoldsShared
  <2> QED
    BY <2>2, <2>3
<1>4. LeaderLogsGrow
  BY <1>1, LeaderLogsSame
<1> QED
  BY <1>1, <1>3, <1>4, BackedKept

-----------------------------------------------------------------------------
(* Every step *)

\* Terms never go back, leaders' logs and commits are never taken back, and
\* only an answer commits.
LEMMA NothingTakenBack ==
    ASSUME TypeOK, TypeOK', VotingInv, LineageInv, [Next]_vars
    PROVE  /\ TermsGrow /\ LeaderLogsGrow /\ decided \subseteq decided'
           /\ UNCHANGED decided \/ \E m \in rpcs : Hears(m.dst, m)
<1> USE DEF LineageInv
<1>1. ASSUME UNCHANGED current_term PROVE TermsGrow
  BY <1>1, LogTypes DEF TermsGrow
<1>2. CASE Tame
  BY <1>2, LeaderLogsSame DEF Tame
<1>3. ASSUME NEW n \in Node, Campaigns(n) PROVE TermsGrow /\ UNCHANGED <<leader_log, decided>>
  <2>1. current_term' = [current_term EXCEPT ![n] = current_term[n] + 1]
    BY <1>3 DEF Campaigns, into_candidate
  <2>2. \A q \in Node : current_term'[q] = IF q = n THEN current_term[n] + 1 ELSE current_term[q]
    BY <2>1 DEF TypeOK
  <2>3. \A q \in Node : current_term[q] \in Nat
    BY LogTypes
  <2> QED
    BY <1>3, <2>2, <2>3 DEF TermsGrow, Campaigns
<1>4. ASSUME NEW n \in Node, NEW Q \in SUBSET Node, Wins(n, Q)
      PROVE  TermsGrow /\ LeaderLogsGrow /\ UNCHANGED decided
  <2>1. /\ UNCHANGED <<current_term, decided>>
        /\ leader_log' = [u \in DOMAIN leader_log \cup {current_term[n]} |->
                             IF u = current_term[n] THEN log[n] ELSE leader_log[u]]
    BY <1>4 DEF Wins, into_leader, hardState
  <2>2. current_term[n] \notin DOMAIN leader_log
    BY <1>4, WinIsFirst
  <2>3. \A u \in DOMAIN leader_log : u \in DOMAIN leader_log' /\ leader_log'[u] = leader_log[u]
    BY <2>1, <2>2
  <2>4. LeaderLogsGrow
    BY <2>3, LogTypes DEF LeaderLogsGrow, Agree
  <2> QED
    BY <1>1, <2>1, <2>4
<1>5. ASSUME NEW n \in Node, propose(n) PROVE TermsGrow /\ LeaderLogsGrow /\ UNCHANGED decided
  <2>1. UNCHANGED <<current_term, decided>>
    BY <1>5 DEF propose, hardState
  <2> DEFINE w == current_term[n]
  <2>2. /\ w \in DOMAIN leader_log /\ leader_log[w] = log[n] /\ log[n] \in Seq(Nat)
        /\ w \in Nat
    BY <1>5, LogTypes DEF propose, LeaderOwnsLog
  <2>3. /\ DOMAIN leader_log' = DOMAIN leader_log /\ leader_log'[w] = Append(log[n], w)
        /\ \A u \in DOMAIN leader_log \ {w} : leader_log'[u] = leader_log[u]
    BY <1>5, <2>2 DEF propose, TypeOK
  <2>4. Agree(leader_log'[w], leader_log[w], Len(leader_log[w]))
    BY <2>2, <2>3, AppendIs
  <2>5. \A u \in DOMAIN leader_log \ {w} : Agree(leader_log'[u], leader_log[u], Len(leader_log[u]))
    BY <2>3, LogTypes DEF Agree
  <2> QED
    BY <1>1, <2>1, <2>3, <2>4, <2>5 DEF LeaderLogsGrow
<1>6. ASSUME NEW n \in Node, SendHeartbeat(n) PROVE TermsGrow /\ UNCHANGED <<leader_log, decided>>
  BY <1>1, <1>6 DEF SendHeartbeat, hardState, history
<1>7. ASSUME NEW m \in rpcs, Votes(m) PROVE TermsGrow /\ UNCHANGED <<leader_log, decided>>
  BY <1>7 DEF Votes
<1>8. ASSUME NEW m \in rpcs, PrepareReplication(m)
      PROVE  TermsGrow /\ UNCHANGED <<leader_log, decided>>
  BY <1>1, <1>8 DEF PrepareReplication, hardState, history
<1>9. ASSUME NEW m \in rpcs, Accepts(m) \/ Crashes(m)
      PROVE  TermsGrow /\ UNCHANGED <<leader_log, decided>>
  BY <1>9, FollowFacts
<1>10. ASSUME NEW m \in rpcs, Hears(m.dst, m)
       PROVE  TermsGrow /\ UNCHANGED leader_log /\ decided \subseteq decided'
  <2>1. decided \subseteq decided'
    BY <1>10 DEF Hears, ReconcileIndices, update_leader_last_committed
  <2> QED
    BY <1>1, <1>10, <2>1 DEF Hears
<1> QED
  BY <1>2, <1>3, <1>4, <1>5, <1>6, <1>7, <1>8, <1>9, <1>10, StepKinds, LeaderLogsSame
     DEF StepKind

\* What is backed stays backed.
LEMMA BackedStep ==
    ASSUME TypeOK, TypeOK', VotingInv, LineageInv, [Next]_vars,
           NEW i \in Nat, NEW t \in Nat, NEW S \in SUBSET Node, Written(i, t), Backed(i, t, S)
    PROVE  Backed(i, t, S)'
<1>1. i > 0
  BY DEF Written
<1>2. TermsGrow
  BY NothingTakenBack
<1>3. ASSUME UNCHANGED <<current_term, role, log, leader_log, ballots>>
      PROVE  Backed(i, t, S)'
  BY <1>1, <1>2, <1>3, SteadyBacked DEF RunnersKept
<1>4. CASE Tame
  BY <1>1, <1>2, <1>4, SteadyBacked DEF Tame, KeepsPowers, KeepsPowersBut, RunnersKept
<1>5. ASSUME NEW n \in Node, SendHeartbeat(n) PROVE Backed(i, t, S)'
  BY <1>3, <1>5 DEF SendHeartbeat, hardState, roleState, logState, history
<1>6. ASSUME NEW m \in rpcs, PrepareReplication(m) PROVE Backed(i, t, S)'
  BY <1>3, <1>6 DEF PrepareReplication, hardState, roleState, logState, history
<1>7. ASSUME NEW m \in rpcs, Hears(m.dst, m) PROVE Backed(i, t, S)'
  BY <1>3, <1>7 DEF Hears
<1> QED
  BY <1>1, <1>4, <1>5, <1>6, <1>7, StepKinds, CampaignBacked, VoteBacked, WinBacked,
     ProposeBacked, FollowBacked DEF StepKind

-----------------------------------------------------------------------------
(* Entries of leaders *)

\* What has to be shown of a leader after a step.
LEMMA LeaderSafeAfter ==
    ASSUME NEW n \in Node,
           \A i \in Nat : \A t, S :
               (/\ role'[n] = "Leader" /\ i \in 1..Len(log'[n]) /\ log'[n][i] = t
                /\ t = current_term'[n] /\ S = Acks(n, i)') => Backed(i, t, S)'
    PROVE  LeaderSafe(n)'
<1> SUFFICES ASSUME role'[n] = "Leader", NEW i \in 1..Len(log'[n]), log'[n][i] = current_term'[n]
             PROVE  Backed(i, current_term[n], Acks(n, i))'
  BY DEF LeaderSafe
<1>1. PICK t : t = current_term'[n]
  OBVIOUS
<1>2. PICK S : S = Acks(n, i)'
  OBVIOUS
<1>3. Backed(i, t, S)'
  BY <1>1, <1>2
<1> QED
  BY <1>1, <1>2, <1>3 DEF Backed, Lapsed, SafeEntry

\* A leader's own entry was written, and stays backed by those that had
\* acknowledged it.
LEMMA OwnEntryKept ==
    ASSUME TypeOK, TypeOK', VotingInv, LineageInv, EntriesSafe, [Next]_vars,
           NEW n \in Node, role[n] = "Leader", NEW i \in 1..Len(log[n]),
           NEW t, t = current_term[n], log[n][i] = t,
           NEW S \in SUBSET Node, S \subseteq Acks(n, i)
    PROVE  Backed(i, t, S)'
<1> USE DEF LineageInv
<1>1. i \in Nat /\ i > 0 /\ t \in Nat /\ Len(log[n]) \in Nat
  BY LogTypes
<1>2. Written(i, t)
  BY <1>1 DEF Written, Holds, LeaderOwnsLog
<1>3. Acks(n, i) \in SUBSET Node
  BY DEF Acks
<1>4. Backed(i, t, Acks(n, i))
  BY DEF EntriesSafe, LeaderSafe
<1>5. Backed(i, t, S)
  BY <1>3, <1>4, FewerBack
<1> QED
  BY <1>1, <1>2, <1>5, BackedStep

\* Without a new acknowledgement nobody new is counted.
LEMMA AcksKept ==
    ASSUME KeepsAcks, NEW n \in Node, NEW i,
           current_term'[n] = current_term[n], match_index'[n] = match_index[n]
    PROVE  Acks(n, i)' \subseteq Acks(n, i)
BY DEF Acks, KeepsAcks

\* A leader that keeps its log and hears nothing.
LEMMA DeafLeaderSafe ==
    ASSUME TypeOK, TypeOK', VotingInv, LineageInv, EntriesSafe, [Next]_vars, KeepsAcks,
           NEW n \in Node, role'[n] = "Leader" =>
             /\ role[n] = "Leader" /\ current_term'[n] = current_term[n]
             /\ log'[n] = log[n] /\ match_index'[n] = match_index[n]
    PROVE  LeaderSafe(n)'
<1>1. ASSUME NEW i \in Nat, NEW t, NEW S, role'[n] = "Leader", i \in 1..Len(log'[n]),
             log'[n][i] = t, t = current_term'[n], S = Acks(n, i)'
      PROVE  Backed(i, t, S)'
  <2>1. /\ role[n] = "Leader" /\ current_term'[n] = current_term[n]
        /\ log'[n] = log[n] /\ match_index'[n] = match_index[n]
    BY <1>1
  <2>2. S \subseteq Acks(n, i)
    BY <1>1, <2>1, AcksKept
  <2>3. S \in SUBSET Node
    BY <2>2 DEF Acks
  <2> QED
    BY <1>1, <2>1, <2>2, <2>3, OwnEntryKept
<1> QED
  BY <1>1, LeaderSafeAfter

\* A proposal: only the proposer is counted for the new entry. It has voted
\* for nobody in a later term; if a later leader was elected nevertheless, a
\* quorum without the proposer has moved on.
LEMMA ProposerSafe ==
    ASSUME TypeOK, TypeOK', VotingInv, LineageInv, EntriesSafe, [Next]_vars,
           NEW n \in Node, propose(n)
    PROVE  LeaderSafe(n)'
<1> USE DEF LineageInv
<1>1. /\ role[n] = "Leader" /\ current_term[n] \in Nat /\ log[n] \in Seq(Nat)
      /\ Len(log[n]) \in Nat
  BY LogTypes DEF propose
<1>2. /\ log'[n] = Append(log[n], current_term[n])
      /\ UNCHANGED <<current_term, role, match_index, rpcs, ballots>>
      /\ DOMAIN leader_log' = DOMAIN leader_log
  BY DEF propose, hardState, roleState, TypeOK
<1>3. /\ Len(log'[n]) = Len(log[n]) + 1 /\ Agree(log'[n], log[n], Len(log[n]))
      /\ log'[n][Len(log[n]) + 1] = current_term[n]
  BY <1>1, <1>2, AppendIs
<1>4. ASSUME NEW i \in Nat, NEW t, NEW S, role'[n] = "Leader", i \in 1..Len(log'[n]),
             log'[n][i] = t, t = current_term'[n], S = Acks(n, i)'
      PROVE  Backed(i, t, S)'
  <2>1. S = Acks(n, i) /\ S \in SUBSET Node /\ t = current_term[n]
    BY <1>2, <1>4 DEF Acks
  <2>2. CASE i <= Len(log[n])
    <3>1. i \in 1..Len(log[n]) /\ log'[n][i] = log[n][i]
      BY <1>1, <1>3, <1>4, <2>2 DEF Agree
    <3> QED
      BY <1>1, <1>4, <2>1, <3>1, OwnEntryKept
  <2>3. CASE i = Len(log[n]) + 1
    <3>1. ASSUME NEW p \in S PROVE p = n
      <4>1. ~ (match_index[n][p] >= i)
        <5>1. match_index \in [Node -> [Node -> Nat]] /\ p \in Node
          BY <2>1 DEF TypeOK
        <5>2. match_index[n][p] \in Nat
          BY <5>1
        <5>3. match_index[n][p] <= Len(log[n])
          BY <1>1, <5>1 DEF IndexBounds
        <5> QED
          BY <1>1, <2>3, <5>2, <5>3
      <4>2. ASSUME NEW m \in rpcs, m.type = "AppendEntriesResponse", m.success, m.dst = n,
                   m.round = current_term[n]
            PROVE  ~ (m.sent_prev_index + m.sent_len >= i)
        <5>1. m.sent_prev_index + m.sent_len <= Len(log[n])
          BY <1>1, <4>2, AckWithinLog
        <5>2. m.sent_prev_index \in Nat /\ m.sent_len \in Nat
          BY <4>2, AppendTypes
        <5> QED
          BY <1>1, <2>3, <5>1, <5>2
      <4> QED
        BY <2>1, <4>1, <4>2 DEF Acks
    <3>2. CASE \E u \in DOMAIN leader_log : u > t
      <4>1. PICK u \in DOMAIN leader_log : u > t
        BY <3>2
      <4>2. PICK e \in elected : e[1] = u
        BY <4>1 DEF LeadersRecorded
      <4>3. PICK V \in SUBSET Node : /\ Cardinality(V) >= Quorum
                                     /\ \A v \in V : <<v, e[1], e[2]>> \in ballots
        BY DEF VotingInv, LeadersHaveQuorum
      <4>4. \A v \in V : current_term[v] > t
        <5> SUFFICES ASSUME NEW v \in V PROVE current_term[v] > t
          OBVIOUS
        <5>1. u <= current_term[v]
          BY <4>2, <4>3 DEF VotingInv, BallotsPersisted
        <5>2. u \in Nat /\ t \in Nat /\ current_term[v] \in Nat
          BY <1>1, <2>1, <4>1, LogTypes
        <5> QED
          BY <4>1, <5>1, <5>2
      <4>5. \A v \in V : v \notin S
        BY <1>1, <2>1, <3>1, <4>4
      <4>6. ASSUME NEW Q \in SUBSET Node, Cardinality(Q) >= Quorum
            PROVE  \E p \in Q : p \notin S /\ current_term'[p] > t
        <5>1. PICK p \in Q : p \in V
          BY <4>3, <4>6, QuorumsIntersect
        <5> QED
          BY <1>2, <4>4, <4>5, <5>1
      <4> QED
        BY <4>6 DEF Backed, Lapsed
    <3>3. CASE ~ \E u \in DOMAIN leader_log : u > t
      <4>1. \A u \in DOMAIN leader_log' : u > t => Holds(leader_log'[u], i, t)
        BY <1>2, <3>3
      <4>2. \A p \in S : Holds(log'[p], i, t) /\ t <= current_term'[p]
        <5>1. i <= Len(log'[n]) /\ t <= current_term'[n]
          BY <1>1, <1>2, <1>3, <2>1, <2>3
        <5>2. Holds(log'[n], i, t)
          BY <1>4, <5>1 DEF Holds
        <5> QED
          BY <3>1, <5>1, <5>2
      <4>3. ASSUME NEW c \in Node, NEW p \in S, current_term'[c] > t,
                   <<p, current_term'[c], c>> \in ballots'
            PROVE  FALSE
        <5>1. p = n /\ current_term[c] \in Nat
          BY <3>1, LogTypes
        <5>2. current_term[c] <= current_term[n]
          BY <1>2, <4>3, <5>1 DEF VotingInv, BallotsPersisted
        <5> QED
          BY <1>1, <1>2, <2>1, <4>3, <5>1, <5>2
      <4>4. SafeEntry(i, t, S)'
        BY <4>1, <4>2, <4>3 DEF SafeEntry, Holds
      <4> QED
        BY <4>4 DEF Backed
    <3> QED
      BY <3>2, <3>3
  <2> QED
    BY <1>1, <1>3, <1>4, <2>2, <2>3
<1> QED
  BY <1>4, LeaderSafeAfter

\* Following a leader entirely: the new acknowledgement is of an entry the
\* follower has, in a term beyond which it has voted for nobody.
LEMMA FollowedLeaderSafe ==
    ASSUME TypeOK, TypeOK', VotingInv, VotingInv', LineageInv, EntriesSafe, [Next]_vars,
           NEW m \in rpcs, Accepts(m), NEW n \in Node
    PROVE  LeaderSafe(n)'
<1> USE DEF LineageInv
<1> DEFINE p == m.dst
<1>1. ASSUME NEW i \in Nat, NEW t, NEW S, role'[n] = "Leader", i \in 1..Len(log'[n]),
             log'[n][i] = t, t = current_term'[n], S = Acks(n, i)'
      PROVE  Backed(i, t, S)'
  <2>1. /\ role[n] = "Leader" /\ current_term'[n] = current_term[n]
        /\ log'[n] = log[n] /\ match_index'[n] = match_index[n]
    BY <1>1, FollowFacts DEF KeepsPowers, KeepsPowersBut
  <2>2. /\ S \in SUBSET Node /\ i \in 1..Len(log[n]) /\ t \in Nat /\ i > 0
        /\ t = current_term[n] /\ log[n][i] = t
    BY <1>1, <2>1, LogTypes DEF Acks
  <2>3. CASE S \subseteq Acks(n, i)
    BY <2>1, <2>2, <2>3, OwnEntryKept
  <2>4. CASE ~ (S \subseteq Acks(n, i))
    <3>1. PICK x \in S : x \notin Acks(n, i)
      BY <2>4
    <3>2. ASSUME NEW y \in S, y \notin Acks(n, i)
          PROVE  y = p /\ n = m.src /\ t = m.term /\ m.prev_index + Len(m.entries) >= i
      <4>1. PICK q \in rpcs' : /\ q.type = "AppendEntriesResponse" /\ q.success
                               /\ q.src = y /\ q.dst = n /\ q.round = t
                               /\ q.sent_prev_index + q.sent_len >= i
        BY <1>1, <2>1, <3>2 DEF Acks
      <4>2. q \notin rpcs
        BY <2>1, <2>2, <3>2, <4>1 DEF Acks
      <4> QED
        BY <4>1, <4>2 DEF Accepts
    <3>3. p \in S /\ n = m.src /\ t = m.term /\ m.prev_index + Len(m.entries) >= i
      BY <3>1, <3>2
    <3>4. PICK B \in SUBSET Node : B = S \ {p}
      BY <2>2
    <3>5. B \subseteq Acks(n, i)
      BY <3>2, <3>4
    <3>6. Backed(i, t, B)'
      BY <2>1, <2>2, <3>5, OwnEntryKept
    <3>7. current_term'[p] = t /\ p \in Node /\ UNCHANGED <<ballots, leader_log>>
      BY <3>3, FollowFacts
    <3>8. CASE Lapsed(t, B)'
      <4>1. ASSUME NEW Q \in SUBSET Node, Cardinality(Q) >= Quorum
            PROVE  \E q \in Q : q \notin S /\ current_term'[q] > t
        <5>1. PICK q \in Q : q \notin B /\ current_term'[q] > t
          BY <3>8, <4>1 DEF Lapsed
        <5>2. q # p
          BY <2>2, <3>7, <5>1
        <5> QED
          BY <3>4, <5>1, <5>2
      <4> QED
        BY <4>1 DEF Backed, Lapsed
    <3>9. CASE SafeEntry(i, t, B)'
      <4>1. Holds(log'[p], i, t)
        <5>1. PICK e \in DOMAIN leader_log :
                 /\ m.term <= e /\ e <= current_term[m.src] /\ log'[p] \in Seq(Nat)
                 /\ Agree(log'[p], leader_log[e], m.prev_index + Len(m.entries))
          BY FollowFacts
        <5>2. e = t
          BY <2>2, <3>3, <5>1, LogTypes
        <5>3. leader_log[e] = log[n] /\ leader_log[e] \in Seq(Nat)
          BY <2>1, <2>2, <5>1, <5>2, LogTypes DEF LeaderOwnsLog
        <5>4. Holds(leader_log[e], i, t)
          BY <2>2, <5>3, LogTypes DEF Holds
        <5>5. m.prev_index + Len(m.entries) \in Nat
          <6>1. m.type = "AppendEntriesRequest"
            BY FollowFacts
          <6> QED
            BY <6>1, AppendTypes
        <5> QED
          BY <2>2, <3>3, <5>1, <5>3, <5>4, <5>5, HoldsShared
      <4>2. ASSUME NEW c \in Node, current_term'[c] > t, <<p, current_term'[c], c>> \in ballots'
            PROVE  FALSE
        <5>1. current_term'[c] <= current_term'[p]
          BY <4>2 DEF VotingInv, BallotsPersisted
        <5> QED
          BY <2>2, <3>7, <4>2, <5>1, LogTypesAfter
      <4>3. /\ \A u \in DOMAIN leader_log' : u > t => Holds(leader_log'[u], i, t)
            /\ \A q \in B : Holds(log'[q], i, t) /\ t <= current_term'[q]
            /\ \A c \in Node : \A q \in B :
                (/\ role'[c] = "Candidate"
                 /\ current_term'[c] > t
                 /\ <<q, current_term'[c], c>> \in ballots') => Holds(log'[c], i, t)
        BY <3>9 DEF SafeEntry, Holds
      <4>4. \A q \in S : Holds(log'[q], i, t) /\ t <= current_term'[q]
        BY <2>2, <3>4, <3>7, <4>1, <4>3
      <4>5. \A c \in Node : \A q \in S :
                (/\ role'[c] = "Candidate"
                 /\ current_term'[c] > t
                 /\ <<q, current_term'[c], c>> \in ballots') => Holds(log'[c], i, t)
        BY <3>4, <4>2, <4>3
      <4>6. SafeEntry(i, t, S)'
        BY <4>3, <4>4, <4>5 DEF SafeEntry, Holds
      <4> QED
        BY <4>6 DEF Backed
    <3> QED
      BY <3>6, <3>8, <3>9 DEF Backed
  <2> QED
    BY <2>3, <2>4
<1> QED
  BY <1>1, LeaderSafeAfter

\* An answer only turns a message into an entry of the table.
LEMMA HeardAcks ==
    ASSUME TypeOK, NEW m \in rpcs, Hears(m.dst, m), NEW i \in Nat
    PROVE  /\ Acks(m.dst, i)' \subseteq Acks(m.dst, i)
           /\ \A p \in Node : match_index'[m.dst][p] >= i => p \in Acks(m.dst, i)
           /\ \A n \in Node \ {m.dst} : match_index'[n] = match_index[n]
<1> DEFINE n == m.dst
           new_match == m.sent_prev_index + m.sent_len
<1>1. /\ m.type = "AppendEntriesResponse" /\ m.round = current_term[n]
      /\ ReconcileIndices(n, m) /\ rpcs' = rpcs \ {m} /\ UNCHANGED current_term
  BY DEF Hears
<1>2. n \in Node /\ m.src \in Node /\ match_index \in [Node -> [Node -> Nat]]
  BY AppendTypes DEF TypeOK
<1>3. \/ m.success /\ match_index' = [match_index EXCEPT ![n][m.src] = new_match]
      \/ UNCHANGED match_index
  BY <1>1 DEF ReconcileIndices
<1>4. \A a \in Node \ {n} : match_index'[a] = match_index[a]
  BY <1>2, <1>3
<1>5. ASSUME NEW p \in Node, match_index'[n][p] >= i PROVE p \in Acks(n, i)
  <2>1. CASE UNCHANGED match_index
    BY <1>5, <2>1 DEF Acks
  <2>2. CASE m.success /\ match_index' = [match_index EXCEPT ![n][m.src] = new_match]
    <3>1. match_index'[n][p] = IF p = m.src THEN new_match ELSE match_index[n][p]
      BY <1>2, <2>2, NestedUpdate
    <3>2. CASE p = m.src
      BY <1>1, <1>5, <2>2, <3>1, <3>2 DEF Acks
    <3>3. CASE p # m.src
      BY <1>5, <3>1, <3>3 DEF Acks
    <3> QED
      BY <3>2, <3>3
  <2> QED
    BY <1>3, <2>1, <2>2
<1>6. ASSUME NEW p \in Acks(n, i)' PROVE p \in Acks(n, i)
  <2>1. CASE match_index'[n][p] >= i
    BY <1>5, <2>1 DEF Acks
  <2>2. CASE ~ (match_index'[n][p] >= i)
    BY <1>1, <1>6, <2>2 DEF Acks
  <2> QED
    BY <2>1, <2>2
<1> QED
  BY <1>4, <1>5, <1>6

\* A leader that hears an answer: what the answer acknowledges was counted
\* among the acknowledgements while it was in flight.
LEMMA HearingLeaderSafe ==
    ASSUME TypeOK, TypeOK', VotingInv, LineageInv, EntriesSafe, [Next]_vars,
           NEW m \in rpcs, Hears(m.dst, m), NEW n \in Node
    PROVE  LeaderSafe(n)'
<1>1. UNCHANGED <<current_term, role, log>> /\ KeepsAcks
  BY DEF Hears, KeepsAcks
<1>2. CASE n # m.dst
  <2>1. match_index'[n] = match_index[n]
    BY <1>2, HeardAcks
  <2> QED
    BY <1>1, <2>1, DeafLeaderSafe
<1>3. CASE n = m.dst
  <2>1. ASSUME NEW i \in Nat, NEW t, NEW S, role'[n] = "Leader", i \in 1..Len(log'[n]),
               log'[n][i] = t, t = current_term'[n], S = Acks(n, i)'
        PROVE  Backed(i, t, S)'
    <3>1. S \subseteq Acks(n, i) /\ S \in SUBSET Node
      BY <1>3, <2>1, HeardAcks DEF Acks
    <3> QED
      BY <1>1, <2>1, <3>1, OwnEntryKept
  <2> QED
    BY <2>1, LeaderSafeAfter
<1> QED
  BY <1>2, <1>3

\* Every step keeps the entries of leaders backed.
LEMMA EntriesStep ==
    ASSUME TypeOK, TypeOK', VotingInv, VotingInv', LineageInv, EntriesSafe, [Next]_vars
    PROVE  EntriesSafe'
<1> USE DEF LineageInv
<1> SUFFICES ASSUME NEW n \in Node PROVE LeaderSafe(n)'
  BY DEF EntriesSafe
<1>1. ASSUME KeepsPowers, KeepsAcks PROVE LeaderSafe(n)'
  BY <1>1, DeafLeaderSafe DEF KeepsPowers, KeepsPowersBut
<1>2. ASSUME UNCHANGED <<current_term, role, log, match_index>>, KeepsAcks PROVE LeaderSafe(n)'
  BY <1>2, DeafLeaderSafe
<1>3. ASSUME NEW x \in Node, Campaigns(x) PROVE LeaderSafe(n)'
  <2>1. /\ role' = [role EXCEPT ![x] = "Candidate"] /\ UNCHANGED <<match_index, log>>
        /\ current_term' = [current_term EXCEPT ![x] = current_term[x] + 1] /\ KeepsAcks
    BY <1>3 DEF Campaigns, into_candidate
  <2>2. role'[n] = "Leader" => role[n] = "Leader" /\ current_term'[n] = current_term[n]
    BY <2>1 DEF TypeOK
  <2> QED
    BY <2>1, <2>2, DeafLeaderSafe
<1>4. ASSUME NEW x \in Node, NEW Q \in SUBSET Node, Wins(x, Q) PROVE LeaderSafe(n)'
  <2>1. /\ role' = [role EXCEPT ![x] = "Leader"] /\ UNCHANGED <<current_term, log>>
        /\ match_index' = [match_index EXCEPT ![x] = [p \in Node |-> 0]] /\ KeepsAcks
    BY <1>4 DEF Wins, into_leader, hardState
  <2>2. CASE n # x
    <3>1. role'[n] = role[n] /\ match_index'[n] = match_index[n]
      BY <2>1, <2>2 DEF TypeOK
    <3> QED
      BY <2>1, <3>1, DeafLeaderSafe
  <2>3. CASE n = x
    <3>1. current_term[n] \in Nat /\ \A k \in 1..Len(log[n]) : log[n][k] < current_term[n]
      BY <1>4, <2>3, WinIsFirst, LogTypes
    <3>2. \A k \in 1..Len(log[n]) : log[n][k] # current_term[n]
      BY <3>1, LogTypes
    <3> QED
      BY <2>1, <3>2 DEF LeaderSafe
  <2> QED
    BY <2>2, <2>3
<1>5. ASSUME NEW x \in Node, propose(x) PROVE LeaderSafe(n)'
  <2>1. CASE n = x
    BY <1>5, <2>1, ProposerSafe
  <2>2. CASE n # x
    <3>1. /\ UNCHANGED <<current_term, role, match_index, rpcs>> /\ log'[n] = log[n]
      BY <1>5, <2>2 DEF propose, hardState, roleState, TypeOK
    <3>2. KeepsAcks
      BY <3>1 DEF KeepsAcks
    <3> QED
      BY <3>1, <3>2, DeafLeaderSafe
  <2> QED
    BY <2>1, <2>2
<1>6. ASSUME NEW x \in Node, SendHeartbeat(x) PROVE LeaderSafe(n)'
  <2>1. UNCHANGED <<current_term, role, log, match_index>>
    BY <1>6 DEF SendHeartbeat, hardState, roleState, logState
  <2>2. KeepsAcks
    BY <1>6 DEF SendHeartbeat, KeepsAcks
  <2> QED
    BY <1>2, <2>1, <2>2
<1>7. ASSUME NEW m \in rpcs, PrepareReplication(m) PROVE LeaderSafe(n)'
  <2>1. UNCHANGED <<current_term, role, log, match_index>>
    BY <1>7 DEF PrepareReplication, hardState, roleState, logState
  <2>2. KeepsAcks
    BY <1>7 DEF PrepareReplication, build_append_entries_request, KeepsAcks
  <2> QED
    BY <1>2, <2>1, <2>2
<1>8. ASSUME NEW m \in rpcs, Crashes(m) PROVE LeaderSafe(n)'
  BY <1>1, <1>8 DEF Crashes, Follows
<1>9. ASSUME NEW m \in rpcs, Votes(m) PROVE LeaderSafe(n)'
  BY <1>1, <1>9 DEF Votes
<1>10. CASE Tame
  BY <1>1, <1>10 DEF Tame
<1> QED
  BY <1>3, <1>4, <1>5, <1>6, <1>7, <1>8, <1>9, <1>10, StepKinds, FollowedLeaderSafe,
     HearingLeaderSafe DEF StepKind

-----------------------------------------------------------------------------
(* Commits *)

\* The nodes at or above the sorted median are a quorum.
LEMMA MedianHasQuorum ==
    ASSUME NEW f \in [Node -> Nat], NEW v \in Nat, IsSortedMedian(v, f)
    PROVE  LET Q == {p \in Node : f[p] >= v}
           IN  Q \in SUBSET Node /\ Cardinality(Q) >= Quorum
<1> DEFINE Q == {p \in Node : f[p] >= v}
           low == {p \in Node : f[p] < v}
<1>1. /\ IsFiniteSet(Node) /\ low \in SUBSET Node /\ Q = Node \ low /\ Node \cap low = low
  BY NodeAssumption
<1>2. /\ Cardinality(Node) \in Nat /\ IsFiniteSet(low) /\ Cardinality(low) \in Nat
  BY <1>1, FS_Subset, FS_CardinalityType
<1>3. Cardinality(Node) # 0
  BY <1>1, NodeAssumption, FS_EmptySet
<1>4. Cardinality(Q) = Cardinality(Node) - Cardinality(low)
  <2> HIDE DEF Q, low
  <2>1. Cardinality(Node \ low) = Cardinality(Node) - Cardinality(Node \cap low)
    BY <1>1, FS_Difference
  <2> QED
    BY <1>1, <2>1
<1>5. Cardinality(low) <= (Cardinality(Node) - 1) \div 2
  BY DEF IsSortedMedian, median_position
<1> HIDE DEF Q, low
<1>6. Cardinality(Q) >= Cardinality(Node) \div 2 + 1
  BY <1>2, <1>3, <1>4, <1>5
<1> QED
  BY <1>1, <1>6 DEF Quorum, Q

\* What an answer commits: an entry of the leader's own term that a quorum
\* has acknowledged.
LEMMA HeardCommit ==
    ASSUME TypeOK, HintInv, LineageInv, NEW m \in rpcs, Hears(m.dst, m)
    PROVE  \/ UNCHANGED <<last_committed, decided>>
           \/ \E i \in Nat :
                /\ last_committed' = [last_committed EXCEPT ![m.dst] = i]
                /\ decided' = decided \cup {<<i, current_term[m.dst]>>}
                /\ i > last_committed[m.dst] /\ i \in 1..Len(log[m.dst])
                /\ log[m.dst][i] = current_term[m.dst]
                /\ \E Q \in SUBSET Node : Cardinality(Q) >= Quorum /\ Q \subseteq Acks(m.dst, i)
<1> USE DEF LineageInv
<1> DEFINE n == m.dst
           p == m.src
           new_match == m.sent_prev_index + m.sent_len
           match == [match_index[n] EXCEPT ![p] = new_match]
           indices == [match EXCEPT ![n] = Len(log[n])]
<1>1. /\ role[n] = "Leader" /\ m.type = "AppendEntriesResponse"
      /\ ReconcileIndices(n, m)
  BY DEF Hears
<1>2. /\ n \in Node /\ p \in Node /\ new_match \in Nat /\ Len(log[n]) \in Nat
      /\ current_term[n] \in Nat
  BY <1>1, AppendTypes, LogTypes
<1>3. match_index[n] \in [Node -> Nat] /\ match_index \in [Node -> [Node -> Nat]]
  BY <1>2 DEF TypeOK
<1>4. match \in [Node -> Nat] /\ indices \in [Node -> Nat]
  BY <1>2, <1>3
<1>5. CASE /\ match_index' = [match_index EXCEPT ![n][p] = new_match]
           /\ update_leader_last_committed(n, match)
  <2>1. PICK i \in {indices[q] : q \in Node} :
          /\ IsSortedMedian(i, indices)
          /\ IF commits(n, i)
             THEN /\ last_committed' = [last_committed EXCEPT ![n] = i]
                  /\ decided' = decided \cup {<<i, get_term_at(log[n], i)>>}
             ELSE UNCHANGED <<last_committed, decided>>
    BY <1>5 DEF update_leader_last_committed
  <2>2. i \in Nat
    BY <1>4, <2>1
  <2>3. CASE ~ commits(n, i)
    BY <2>1, <2>3
  <2>4. CASE commits(n, i)
    <3>1. i > last_committed[n] /\ get_term_at(log[n], i) = current_term[n]
      BY <2>4 DEF commits
    <3>2. current_term[n] > 0
      <4>1. <<current_term[n], n>> \in elected
        BY <1>1, <1>2 DEF HintInv, SpeaksAsElected
      <4> QED
        BY <4>1 DEF LeadersRecorded
    <3>3. i \in 1..Len(log[n]) /\ log[n][i] = current_term[n]
      BY <1>2, <3>1, <3>2 DEF get_term_at
    <3> DEFINE Q == {q \in Node : indices[q] >= i}
    <3>4. Q \in SUBSET Node /\ Cardinality(Q) >= Quorum
      BY <1>4, <2>1, <2>2, MedianHasQuorum
    <3>5. ASSUME NEW q \in Q PROVE q \in Acks(n, i)
      <4>1. CASE q = n
        BY <1>2, <4>1 DEF Acks
      <4>2. CASE q # n
        <5>1. indices[q] = match[q] /\ match[q] >= i
          BY <1>4, <3>5, <4>2
        <5>2. match_index'[n][q] = match[q]
          BY <1>2, <1>3, <1>5, NestedUpdate
        <5> QED
          BY <2>2, <5>1, <5>2, HeardAcks
      <4> QED
        BY <4>1, <4>2
    <3>6. Q \subseteq Acks(n, i)
      BY <3>5
    <3> HIDE DEF Q
    <3> QED
      BY <2>1, <2>2, <2>4, <3>1, <3>3, <3>4, <3>6
  <2> QED
    BY <2>3, <2>4
<1> QED
  BY <1>1, <1>5 DEF ReconcileIndices

\* An entry that a quorum backs is safe after the step.
LEMMA QuorumKeeps ==
    ASSUME TypeOK, TypeOK', VotingInv, LineageInv, [Next]_vars,
           NEW i \in Nat, NEW t \in Nat, Written(i, t),
           NEW Q \in SUBSET Node, Cardinality(Q) >= Quorum, Backed(i, t, Q)
    PROVE  Written(i, t)' /\ SafeEntry(i, t, Q)'
<1>1. LeaderLogsGrow
  BY NothingTakenBack
<1>2. Written(i, t)'
  BY <1>1, WrittenKept
<1>3. Backed(i, t, Q)'
  BY BackedStep
<1>4. ~ Lapsed(t, Q)'
  BY DEF Lapsed
<1> QED
  BY <1>2, <1>3, <1>4 DEF Backed

\* Committed entries stay safe, and new ones are.
LEMMA DecidedStep ==
    ASSUME TypeOK, TypeOK', VotingInv, HintInv, LineageInv, EntriesSafe, DecidedSafe,
           [Next]_vars
    PROVE  DecidedSafe'
<1> USE DEF LineageInv
<1>1. ASSUME NEW d, NEW i \in Nat, NEW t \in Nat, d[1] = i, d[2] = t, Written(i, t),
             NEW Q \in SUBSET Node, Cardinality(Q) >= Quorum, Backed(i, t, Q)
      PROVE  /\ Written(d[1], d[2])'
             /\ \E P \in SUBSET Node : Cardinality(P) >= Quorum /\ SafeEntry(d[1], d[2], P)'
  <2>1. Written(i, t)' /\ SafeEntry(i, t, Q)'
    BY <1>1, QuorumKeeps
  <2> QED
    BY <1>1, <2>1
<1>2. ASSUME NEW d \in decided
      PROVE  /\ Written(d[1], d[2])'
             /\ \E P \in SUBSET Node : Cardinality(P) >= Quorum /\ SafeEntry(d[1], d[2], P)'
  <2>1. d[1] \in Nat /\ d[2] \in Nat
    BY DEF TypeOK
  <2>2. Written(d[1], d[2])
    BY DEF DecidedSafe
  <2>3. PICK Q \in SUBSET Node : Cardinality(Q) >= Quorum /\ SafeEntry(d[1], d[2], Q)
    BY DEF DecidedSafe
  <2>4. Backed(d[1], d[2], Q)
    BY <2>3 DEF Backed
  <2> QED
    BY <1>1, <2>1, <2>2, <2>3, <2>4
<1>3. ASSUME NEW d \in decided', d \notin decided
      PROVE  /\ Written(d[1], d[2])'
             /\ \E P \in SUBSET Node : Cardinality(P) >= Quorum /\ SafeEntry(d[1], d[2], P)'
  <2>1. PICK m \in rpcs : Hears(m.dst, m)
    BY <1>3, NothingTakenBack
  <2> DEFINE n == m.dst
  <2>2. PICK i \in Nat :
                /\ decided' = decided \cup {<<i, current_term[n]>>}
                /\ i \in 1..Len(log[n])
                /\ log[n][i] = current_term[n]
                /\ \E Q \in SUBSET Node : Cardinality(Q) >= Quorum /\ Q \subseteq Acks(n, i)
    BY <1>3, <2>1, HeardCommit
  <2>3. PICK Q \in SUBSET Node : Cardinality(Q) >= Quorum /\ Q \subseteq Acks(n, i)
    BY <2>2
  <2>4. n \in Node /\ role[n] = "Leader"
    BY <2>1, AppendTypes DEF Hears
  <2>5. PICK t \in Nat : t = current_term[n]
    BY <2>4, LogTypes
  <2>6. Written(i, t)
    <3>1. i > 0 /\ i <= Len(log[n])
      BY <2>2, <2>4, LogTypes
    <3> QED
      BY <2>2, <2>4, <2>5, <3>1 DEF Written, Holds, LeaderOwnsLog
  <2>7. Acks(n, i) \in SUBSET Node
    BY DEF Acks
  <2>8. Backed(i, t, Acks(n, i))
    BY <2>2, <2>4, <2>5 DEF EntriesSafe, LeaderSafe
  <2>9. Backed(i, t, Q)
    BY <2>3, <2>7, <2>8, FewerBack
  <2>10. d = <<i, t>>
    BY <1>3, <2>2, <2>5
  <2>11. d[1] = i /\ d[2] = t
    BY <2>10
  <2> QED
    BY <1>1, <2>3, <2>6, <2>9, <2>11
<1> QED
  BY <1>2, <1>3 DEF DecidedSafe

\* The log of a leader agrees with that of an earlier one up to whatever the
\* earlier one committed.
LEMMA CommittedShared ==
    ASSUME TypeOK, LineageInv, DecidedSafe, NEW d \in decided,
           NEW e \in DOMAIN leader_log, d[2] <= e
    PROVE  /\ d[1] \in Nat /\ d[1] > 0 /\ d[2] \in Nat /\ d[2] \in DOMAIN leader_log
           /\ Holds(leader_log[e], d[1], d[2])
           /\ Agree(leader_log[e], leader_log[d[2]], d[1])
<1>1. d[1] \in Nat /\ d[2] \in Nat
  BY DEF TypeOK
<1>2. Written(d[1], d[2])
  BY DEF DecidedSafe
<1>3. \A u \in DOMAIN leader_log : u > d[2] => Holds(leader_log[u], d[1], d[2])
  BY DEF DecidedSafe, SafeEntry
<1>4. Holds(leader_log[e], d[1], d[2]) /\ Agree(leader_log[e], leader_log[d[2]], d[1])
  BY <1>1, <1>2, <1>3, LaterLeaderAgrees
<1> QED
  BY <1>1, <1>2, <1>4 DEF Written

\* The committed prefix of a follower is a prefix of every leader's log from
\* then on.
LEMMA CommitInLeader ==
    ASSUME TypeOK, LineageInv, DecidedSafe, CommitBacked, NEW p \in Node,
           NEW e \in DOMAIN leader_log, current_term[p] <= e
    PROVE  Agree(log[p], leader_log[e], last_committed[p])
<1> DEFINE c == last_committed[p]
<1>1. c \in Nat /\ log[p] \in Seq(Nat) /\ leader_log[e] \in Seq(Nat) /\ e \in Nat
      /\ current_term[p] \in Nat
  BY LogTypes DEF TypeOK
<1>2. CASE c = 0
  <2>1. Len(log[p]) \in Nat /\ Len(leader_log[e]) \in Nat
    BY LogTypes
  <2> QED
    BY <1>2, <2>1 DEF Agree
<1>3. CASE c > 0
  <2>1. PICK d \in decided : c <= d[1] /\ d[2] <= current_term[p] /\ Agree(log[p], leader_log[d[2]], c)
    BY <1>3 DEF CommitBacked
  <2>2. d[2] \in Nat
    BY DEF TypeOK
  <2>3. d[2] <= e
    BY <1>1, <2>1, <2>2
  <2>4. d[1] \in Nat /\ d[2] \in DOMAIN leader_log /\ Agree(leader_log[e], leader_log[d[2]], d[1])
    BY <2>3, CommittedShared
  <2>5. leader_log[d[2]] \in Seq(Nat)
    BY <2>4, LogTypes
  <2>6. Agree(leader_log[e], leader_log[d[2]], c)
    BY <1>1, <2>1, <2>4, <2>5, AgreeRules
  <2>7. Agree(leader_log[d[2]], leader_log[e], c)
    BY <1>1, <2>5, <2>6, AgreeRules
  <2> QED
    BY <1>1, <2>1, <2>5, <2>7, AgreeRules
<1> QED
  BY <1>1, <1>2, <1>3

\* No step rewrites a committed prefix: a follower that truncates its log at a
\* conflict keeps everything it shares with the leader's.
LEMMA PrefixKept ==
    ASSUME TypeOK, TypeOK', VotingInv, LineageInv, DecidedSafe, CommitBacked, [Next]_vars,
           NEW q \in Node
    PROVE  Agree(log'[q], log[q], last_committed[q])
<1> USE DEF LineageInv
<1> DEFINE c == last_committed[q]
<1>1. /\ c \in Nat /\ log[q] \in Seq(Nat) /\ Len(log[q]) \in Nat
      /\ log'[q] \in Seq(Nat) /\ Len(log'[q]) \in Nat /\ c <= Len(log[q])
      /\ current_term[q] \in Nat
  BY LogTypes, LogTypesAfter DEF TypeOK, CommitBacked
<1>2. ASSUME log'[q] = log[q] PROVE Agree(log'[q], log[q], c)
  BY <1>1, <1>2 DEF Agree
<1>3. ASSUME NEW n \in Node, propose(n) PROVE Agree(log'[q], log[q], c)
  <2>1. log' = [log EXCEPT ![n] = Append(log[n], current_term[n])]
    BY <1>3 DEF propose
  <2>2. CASE q # n
    BY <1>2, <2>1, <2>2 DEF TypeOK
  <2>3. CASE q = n
    <3>1. log'[q] = Append(log[q], current_term[q])
      BY <2>1, <2>3 DEF TypeOK
    <3>2. Agree(log'[q], log[q], Len(log[q]))
      BY <1>1, <3>1, AppendIs
    <3> QED
      BY <1>1, <3>2, AgreeRules
  <2> QED
    BY <2>2, <2>3
<1>4. ASSUME NEW m \in rpcs, Accepts(m) \/ Crashes(m) PROVE Agree(log'[q], log[q], c)
  <2>1. CASE q # m.dst
    BY <1>2, <1>4, <2>1, FollowFacts
  <2>2. CASE q = m.dst
    <3>1. m.term \in Nat /\ current_term[q] <= m.term
      BY <1>4, <2>2, FollowFacts
    <3>2. PICK e \in DOMAIN leader_log :
            /\ m.term <= e
            /\ \A k \in Nat : Agree(log[q], leader_log[e], k) => Agree(log'[q], leader_log[e], k)
      BY <1>4, <2>2, FollowFacts
    <3>3. e \in Nat /\ leader_log[e] \in Seq(Nat)
      BY LogTypes
    <3>4. current_term[q] <= e
      BY <1>1, <3>1, <3>2, <3>3
    <3>5. Agree(log[q], leader_log[e], c)
      BY <3>4, CommitInLeader
    <3>6. Agree(log'[q], leader_log[e], c) /\ Agree(leader_log[e], log[q], c)
      BY <1>1, <3>2, <3>3, <3>5, AgreeRules
    <3> QED
      BY <1>1, <3>3, <3>6, AgreeRules
  <2> QED
    BY <2>1, <2>2
<1>5. ASSUME UNCHANGED log PROVE Agree(log'[q], log[q], c)
  BY <1>2, <1>5
<1>6. ASSUME NEW n \in Node, SendHeartbeat(n) PROVE UNCHANGED log
  BY <1>6 DEF SendHeartbeat, logState
<1>7. ASSUME NEW m \in rpcs, PrepareReplication(m) PROVE UNCHANGED log
  BY <1>7 DEF PrepareReplication, logState
<1> HIDE DEF c
<1> QED
  BY <1>3, <1>4, <1>5, <1>6, <1>7, StepKinds
     DEF StepKind, Tame, Campaigns, Wins, Votes, Hears, c

\* The commit index moves when a follower accepts a request that states a
\* greater one, or when a leader hears of a quorum.
LEMMA CommitMoves ==
    ASSUME TypeOK, VotingInv, HintInv, LineageInv, [Next]_vars, NEW q \in Node,
           last_committed'[q] # last_committed[q]
    PROVE  \/ \E m \in rpcs :
                /\ Accepts(m) /\ m.dst = q
                /\ m.leader_commit > last_committed[q]
                /\ last_committed'[q] = Min({m.leader_commit, Len(log'[q])})
           \/ \E m \in rpcs :
                /\ Hears(m.dst, m) /\ m.dst = q
                /\ last_committed'[q] > last_committed[q]
                /\ last_committed'[q] \in 1..Len(log[q])
                /\ <<last_committed'[q], current_term[q]>> \in decided'
<1>1. last_committed \in [Node -> Nat] /\ log \in [Node -> Seq(Nat)]
  BY DEF TypeOK
<1>2. ASSUME UNCHANGED last_committed PROVE FALSE
  BY <1>2
<1>3. ASSUME NEW m \in rpcs, Accepts(m)
      PROVE  /\ m.dst = q
             /\ m.leader_commit > last_committed[q]
             /\ last_committed'[q] = Min({m.leader_commit, Len(log'[q])})
  <2> DEFINE new == Reconciled(log[m.dst], m.prev_index, m.entries)
  <2>1. /\ last_committed' = [last_committed EXCEPT ![m.dst] =
               commit_advance(last_committed[m.dst], m.leader_commit, Len(new))]
        /\ log' = [log EXCEPT ![m.dst] = new]
    BY <1>3 DEF Accepts, Follows
  <2> HIDE DEF new
  <2>2. m.dst = q
    BY <1>1, <2>1
  <2>3. /\ last_committed'[q] = commit_advance(last_committed[q], m.leader_commit, Len(new))
        /\ log'[q] = new
    BY <1>1, <2>1, <2>2
  <2> QED
    BY <2>2, <2>3 DEF commit_advance
<1>4. ASSUME NEW m \in rpcs, Hears(m.dst, m)
      PROVE  /\ m.dst = q
             /\ last_committed'[q] > last_committed[q]
             /\ last_committed'[q] \in 1..Len(log[q])
             /\ <<last_committed'[q], current_term[q]>> \in decided'
  <2>1. PICK i \in Nat :
                /\ last_committed' = [last_committed EXCEPT ![m.dst] = i]
                /\ decided' = decided \cup {<<i, current_term[m.dst]>>}
                /\ i > last_committed[m.dst] /\ i \in 1..Len(log[m.dst])
    BY <1>2, <1>4, HeardCommit
  <2>2. m.dst = q /\ last_committed'[q] = i
    BY <1>1, <2>1
  <2> QED
    BY <2>1, <2>2
<1>5. ASSUME NEW n \in Node, SendHeartbeat(n) \/ propose(n) PROVE UNCHANGED last_committed
  BY <1>5 DEF SendHeartbeat, propose, logState
<1>6. ASSUME NEW m \in rpcs, PrepareReplication(m) PROVE UNCHANGED last_committed
  BY <1>6 DEF PrepareReplication, logState
<1> QED
  BY <1>2, <1>3, <1>4, <1>5, <1>6, StepKinds
     DEF StepKind, Tame, Campaigns, Wins, Votes, Crashes

\* The commit index never goes back.
LEMMA CommitGrows ==
    ASSUME TypeOK, TypeOK', VotingInv, HintInv, LineageInv, DecidedSafe, CommitBacked,
           [Next]_vars, NEW q \in Node
    PROVE  last_committed'[q] >= last_committed[q]
<1>1. last_committed[q] \in Nat /\ last_committed'[q] \in Nat /\ Len(log'[q]) \in Nat
  BY LogTypesAfter DEF TypeOK
<1>2. last_committed[q] <= Len(log'[q])
  BY PrefixKept DEF Agree
<1>3. ASSUME NEW m \in rpcs, Accepts(m), m.leader_commit > last_committed[q],
             last_committed'[q] = Min({m.leader_commit, Len(log'[q])})
      PROVE  last_committed'[q] >= last_committed[q]
  <2>1. m.leader_commit \in Nat
    BY <1>3, AppendTypes DEF Accepts, Follows
  <2>2. last_committed'[q] \in {m.leader_commit, Len(log'[q])}
    BY <1>1, <1>3, <2>1, MinOfTwo
  <2> QED
    BY <1>1, <1>2, <1>3, <2>1, <2>2
<1>4. CASE last_committed'[q] = last_committed[q]
  BY <1>1, <1>4
<1>5. CASE last_committed'[q] # last_committed[q]
  <2>1. CASE last_committed'[q] > last_committed[q]
    BY <1>1, <2>1
  <2>2. CASE ~ (last_committed'[q] > last_committed[q])
    BY <1>3, <1>5, <2>2, CommitMoves
  <2> QED
    BY <2>1, <2>2
<1> QED
  BY <1>4, <1>5

\* The committed prefix of a node stays within what leaders committed.
LEMMA CommitBackedStep ==
    ASSUME TypeOK, TypeOK', VotingInv, HintInv, LineageInv, DecidedSafe, CommitBacked,
           RequestsBacked, [Next]_vars
    PROVE  CommitBacked'
<1> USE DEF LineageInv
<1> SUFFICES ASSUME NEW q \in Node
             PROVE  /\ last_committed'[q] <= Len(log'[q])
                    /\ last_committed'[q] > 0 =>
                         \E d \in decided' :
                            /\ last_committed'[q] <= d[1] /\ d[2] <= current_term'[q]
                            /\ Agree(log'[q], leader_log'[d[2]], last_committed'[q])
  BY DEF CommitBacked
<1> DEFINE c == last_committed'[q]
           new == log'[q]
<1>1. /\ c \in Nat /\ new \in Seq(Nat) /\ Len(new) \in Nat
      /\ log[q] \in Seq(Nat) /\ Len(log[q]) \in Nat
      /\ current_term[q] \in Nat /\ current_term'[q] \in Nat /\ last_committed[q] \in Nat
  BY LogTypes, LogTypesAfter DEF TypeOK
<1>2. /\ TermsGrow /\ LeaderLogsGrow /\ decided \subseteq decided'
  BY NothingTakenBack
<1>3. \A d \in decided : d[1] \in Nat /\ d[2] \in Nat
  BY DEF TypeOK
<1>4. CASE c = last_committed[q]
  <2>1. Agree(new, log[q], c)
    BY <1>4, PrefixKept
  <2>2. ASSUME c > 0
        PROVE  \E d \in decided' : c <= d[1] /\ d[2] <= current_term'[q] /\ Agree(new, leader_log'[d[2]], c)
    <3>1. PICK d \in decided :
             c <= d[1] /\ d[2] <= current_term[q] /\ Agree(log[q], leader_log[d[2]], c)
      BY <1>4, <2>2 DEF CommitBacked
    <3>2. d[2] \in DOMAIN leader_log
      BY DEF DecidedSafe, Written
    <3>3. /\ d[2] \in DOMAIN leader_log'
          /\ Agree(leader_log'[d[2]], leader_log[d[2]], Len(leader_log[d[2]]))
      BY <1>2, <3>2 DEF LeaderLogsGrow
    <3>4. /\ leader_log[d[2]] \in Seq(Nat) /\ Len(leader_log[d[2]]) \in Nat
          /\ leader_log'[d[2]] \in Seq(Nat)
      BY <3>2, <3>3, LogTypes, LogTypesAfter
    <3>5. c <= Len(leader_log[d[2]])
      BY <3>1 DEF Agree
    <3>6. Agree(leader_log'[d[2]], leader_log[d[2]], c)
      BY <1>1, <3>3, <3>4, <3>5, AgreeRules
    <3>7. Agree(leader_log[d[2]], leader_log'[d[2]], c)
      BY <1>1, <3>4, <3>6, AgreeRules
    <3>8. Agree(new, leader_log[d[2]], c)
      BY <1>1, <2>1, <3>1, <3>4, AgreeRules
    <3>9. Agree(new, leader_log'[d[2]], c)
      BY <1>1, <3>4, <3>7, <3>8, AgreeRules
    <3>10. d[2] <= current_term'[q]
      BY <1>1, <1>2, <1>3, <3>1 DEF TermsGrow
    <3> QED
      BY <1>2, <3>1, <3>9, <3>10
  <2> QED
    BY <2>1, <2>2 DEF Agree
<1>5. ASSUME NEW m \in rpcs, Accepts(m), m.dst = q, m.leader_commit > last_committed[q],
             c = Min({m.leader_commit, Len(new)})
      PROVE  /\ c <= Len(new)
             /\ \E d \in decided' : c <= d[1] /\ d[2] <= current_term'[q] /\ Agree(new, leader_log'[d[2]], c)
  <2> DEFINE sent == m.prev_index + Len(m.entries)
  <2>1. /\ m.type = "AppendEntriesRequest" /\ m.term \in Nat /\ current_term'[q] = m.term
        /\ UNCHANGED <<leader_log, decided>>
    BY <1>5, FollowFacts
  <2>2. PICK e \in DOMAIN leader_log : m.term <= e /\ Agree(new, leader_log[e], sent)
    BY <1>5, FollowFacts
  <2>3. m.leader_commit \in Nat /\ sent \in Nat
    BY <2>1, AppendTypes
  <2>4. m.leader_commit > 0
    BY <1>1, <1>5, <2>3
  <2>5. m.leader_commit <= sent
    BY <2>1 DEF RequestsBacked
  <2>6. PICK d \in decided : m.leader_commit <= d[1] /\ d[2] <= m.term
    BY <2>1, <2>4 DEF RequestsBacked
  <2> HIDE DEF sent
  <2>7. /\ e \in Nat /\ leader_log[e] \in Seq(Nat)
    BY LogTypes
  <2>8. d[2] <= e
    BY <1>3, <2>1, <2>2, <2>6, <2>7
  <2>9. d[2] \in DOMAIN leader_log /\ Agree(leader_log[e], leader_log[d[2]], d[1])
    BY <2>8, CommittedShared
  <2>10. leader_log[d[2]] \in Seq(Nat)
    BY <2>9, LogTypes
  <2>11. c <= m.leader_commit /\ c <= Len(new)
    <3>1. \A k \in Nat : Min({m.leader_commit, k}) <= m.leader_commit /\ Min({m.leader_commit, k}) <= k
      BY <2>3, MinOfTwo
    <3> HIDE DEF c, new
    <3> QED
      BY <1>1, <1>5, <3>1
  <2>12. c <= sent /\ c <= d[1]
    BY <1>1, <1>3, <2>3, <2>5, <2>6, <2>11
  <2>13. Agree(new, leader_log[e], c)
    BY <1>1, <2>2, <2>3, <2>7, <2>12, AgreeRules
  <2>14. Agree(leader_log[e], leader_log[d[2]], c)
    BY <1>1, <1>3, <2>7, <2>9, <2>10, <2>12, AgreeRules
  <2>15. Agree(new, leader_log[d[2]], c)
    BY <1>1, <2>7, <2>10, <2>13, <2>14, AgreeRules
  <2> QED
    BY <2>1, <2>6, <2>11, <2>12, <2>15
<1>6. ASSUME NEW m \in rpcs, Hears(m.dst, m), m.dst = q, c \in 1..Len(log[q]),
             <<c, current_term[q]>> \in decided'
      PROVE  /\ c <= Len(new)
             /\ \E d \in decided' : c <= d[1] /\ d[2] <= current_term'[q] /\ Agree(new, leader_log'[d[2]], c)
  <2>1. /\ role[q] = "Leader" /\ UNCHANGED <<current_term, log, leader_log>>
    BY <1>6 DEF Hears
  <2>2. current_term[q] \in DOMAIN leader_log /\ leader_log[current_term[q]] = log[q]
    BY <2>1 DEF LeaderOwnsLog
  <2>3. Agree(new, leader_log'[current_term[q]], c)
    BY <1>1, <1>6, <2>1, <2>2 DEF Agree
  <2> DEFINE d == <<c, current_term[q]>>
  <2>4. d[1] = c /\ d[2] = current_term[q]
    OBVIOUS
  <2>5. c <= d[1] /\ d[2] <= current_term'[q] /\ Agree(new, leader_log'[d[2]], c)
    BY <1>1, <2>1, <2>3, <2>4
  <2>6. c <= Len(new)
    BY <1>6, <1>1, <2>1
  <2> QED
    BY <1>6, <2>5, <2>6
<1> HIDE DEF c, new
<1>7. CASE c # last_committed[q]
  BY <1>5, <1>6, <1>7, CommitMoves DEF c, new
<1> QED
  BY <1>4, <1>7 DEF c, new

\* The commit index a round carries is one its sender had.
LEMMA RoundsStep ==
    ASSUME TypeOK, TypeOK', VotingInv, HintInv, LineageInv, DecidedSafe, CommitBacked,
           RoundsBacked, [Next]_vars
    PROVE  RoundsBacked'
<1>1. decided \subseteq decided'
  BY NothingTakenBack
<1>2. \A q \in Node : last_committed[q] \in Nat /\ last_committed'[q] \in Nat
                      /\ last_committed'[q] >= last_committed[q]
  BY CommitGrows DEF TypeOK
<1>3. ASSUME NEW m \in rpcs, m.type = "ReplicationRound"
      PROVE  /\ m.last_committed <= last_committed'[m.src]
             /\ m.last_committed > 0 =>
                  \E d \in decided' : m.last_committed <= d[1] /\ d[2] <= m.term
  <2>1. m.src \in Node /\ m.last_committed \in Nat
    BY <1>3, AppendTypes
  <2>2. m.last_committed <= last_committed[m.src]
    BY <1>3 DEF RoundsBacked
  <2>3. m.last_committed <= last_committed'[m.src]
    BY <1>2, <2>1, <2>2
  <2> QED
    BY <1>1, <1>3, <2>3 DEF RoundsBacked
<1>4. CASE KeepsRounds
  BY <1>3, <1>4 DEF KeepsRounds, RoundsBacked
<1>5. ASSUME NEW n \in Node, propose(n) PROVE KeepsRounds
  BY <1>5 DEF propose, KeepsRounds
<1>6. ASSUME NEW m \in rpcs, PrepareReplication(m) PROVE KeepsRounds
  BY <1>6 DEF PrepareReplication, build_append_entries_request, KeepsRounds
<1>7. ASSUME NEW m \in rpcs, Hears(m.dst, m) PROVE KeepsRounds
  BY <1>7 DEF Hears, KeepsRounds
<1>8. ASSUME NEW n \in Node, SendHeartbeat(n) PROVE RoundsBacked'
  <2> SUFFICES ASSUME NEW m \in rpcs', m.type = "ReplicationRound"
               PROVE  /\ m.last_committed <= last_committed'[m.src]
                      /\ m.last_committed > 0 =>
                           \E d \in decided' : m.last_committed <= d[1] /\ d[2] <= m.term
    BY DEF RoundsBacked
  <2>1. UNCHANGED <<last_committed, decided>>
    BY <1>8 DEF SendHeartbeat, logState, history
  <2>2. CASE m \in rpcs
    BY <1>3, <2>2
  <2>3. CASE m \notin rpcs
    <3>1. m.src = n /\ m.term = current_term[n] /\ m.last_committed = last_committed[n]
      BY <1>8, <2>3 DEF SendHeartbeat
    <3>2. last_committed[n] > 0 =>
             \E d \in decided : last_committed[n] <= d[1] /\ d[2] <= current_term[n]
      BY DEF CommitBacked
    <3> QED
      BY <1>2, <2>1, <3>1, <3>2
  <2> QED
    BY <2>2, <2>3
<1> QED
  BY <1>4, <1>5, <1>6, <1>7, <1>8, StepKinds
     DEF StepKind, Tame, Campaigns, Wins, Votes, Accepts, Crashes, Follows

\* An AppendEntries reaches as far as the commit index it states: a round
\* prepared late sends a log that has only grown since.
LEMMA RequestsStep ==
    ASSUME TypeOK, TypeOK', VotingInv, HintInv, LineageInv, CommitBacked, RoundsBacked,
           RequestsBacked, [Next]_vars
    PROVE  RequestsBacked'
<1>1. decided \subseteq decided'
  BY NothingTakenBack
<1>2. CASE KeepsAppends
  <2> SUFFICES ASSUME NEW m \in rpcs', m.type = "AppendEntriesRequest"
               PROVE  /\ m.leader_commit <= m.prev_index + Len(m.entries)
                      /\ m.leader_commit > 0 =>
                           \E d \in decided' : m.leader_commit <= d[1] /\ d[2] <= m.term
    BY DEF RequestsBacked
  <2>1. PICK q \in rpcs : IsAppend(m, q)
    BY <1>2 DEF KeepsAppends
  <2>2. /\ q.leader_commit <= q.prev_index + Len(q.entries)
        /\ q.leader_commit > 0 =>
             \E d \in decided : q.leader_commit <= d[1] /\ d[2] <= q.term
    BY <2>1 DEF RequestsBacked, IsAppend
  <2> QED
    BY <1>1, <2>1, <2>2 DEF IsAppend
<1>3. ASSUME rpcs' \subseteq rpcs PROVE KeepsAppends
  BY <1>3 DEF KeepsAppends, IsAppend
<1>4. ASSUME NEW n \in Node, propose(n) PROVE KeepsAppends
  BY <1>3, <1>4 DEF propose
<1>5. ASSUME NEW m \in rpcs, Hears(m.dst, m) PROVE KeepsAppends
  BY <1>3, <1>5 DEF Hears
<1>6. ASSUME NEW n \in Node, SendHeartbeat(n) PROVE KeepsAppends
  BY <1>6 DEF SendHeartbeat, KeepsAppends, IsAppend
<1>7. ASSUME NEW m \in rpcs, PrepareReplication(m) PROVE RequestsBacked'
  <2> DEFINE n == m.src
             a == build_append_entries_request(n, m.dst, m)
  <2>1. /\ m.type = "ReplicationRound" /\ UNCHANGED decided
        /\ rpcs' = (rpcs \ {m}) \cup (IF role[n] = "Leader" THEN {a} ELSE {})
    BY <1>7 DEF PrepareReplication, history
  <2>2. CASE role[n] # "Leader"
    <3>1. rpcs' \subseteq rpcs
      BY <2>1, <2>2
    <3> QED
      BY <1>2, <1>3, <3>1
  <2>3. CASE role[n] = "Leader"
    <3>1. /\ a.term = m.term /\ a.leader_commit = m.last_committed
          /\ a.prev_index + Len(a.entries) = Len(log[n])
      BY <2>1, <2>3, PreparedSegment
    <3>2. n \in Node /\ m.last_committed \in Nat
      BY <2>1, AppendTypes
    <3>3. /\ m.last_committed <= last_committed[n] /\ last_committed[n] <= Len(log[n])
          /\ m.last_committed > 0 =>
               \E d \in decided : m.last_committed <= d[1] /\ d[2] <= m.term
      BY <2>1, <3>2 DEF RoundsBacked, CommitBacked
    <3>4. last_committed[n] \in Nat /\ Len(log[n]) \in Nat
      BY <3>2, LogTypes DEF TypeOK
    <3>5. m.last_committed <= Len(log[n])
      BY <3>2, <3>3, <3>4
    <3>6. /\ a.leader_commit <= a.prev_index + Len(a.entries)
          /\ a.leader_commit > 0 =>
               \E d \in decided' : a.leader_commit <= d[1] /\ d[2] <= a.term
      BY <2>1, <3>1, <3>3, <3>5
    <3> HIDE DEF a, n
    <3>7. \A q \in rpcs' : q \in rpcs \/ q = a
      BY <2>1
    <3> QED
      BY <1>1, <3>6, <3>7 DEF RequestsBacked
  <2> QED
    BY <2>2, <2>3
<1> QED
  BY <1>2, <1>4, <1>5, <1>6, <1>7, StepKinds
     DEF StepKind, Tame, Campaigns, Wins, Votes, Accepts, Crashes, Follows

-----------------------------------------------------------------------------
(* The theorems *)

\* Every step preserves the invariant.
LEMMA CommitStep ==
    RaftInv /\ RaftInv' /\ CommitInv /\ [Next]_vars => CommitInv'
BY EntriesStep, DecidedStep, CommitBackedStep, RoundsStep, RequestsStep DEF RaftInv, CommitInv

\* The invariant of commits, on top of those of elections and logs.
LEMMA CommitInvHolds == Spec => [](RaftInv /\ CommitInv)
<1>1. Init => CommitInv
  <2> SUFFICES ASSUME Init PROVE CommitInv
    OBVIOUS
  <2>1. EntriesSafe
    BY DEF Init, EntriesSafe, LeaderSafe
  <2>2. DecidedSafe /\ RoundsBacked /\ RequestsBacked
    BY DEF Init, DecidedSafe, RoundsBacked, RequestsBacked
  <2>3. CommitBacked
    <3>1. \A n \in Node : last_committed[n] = 0 /\ log[n] = << >>
      BY DEF Init
    <3> QED
      BY <3>1 DEF CommitBacked
  <2> QED
    BY <2>1, <2>2, <2>3 DEF CommitInv
<1> QED
  BY <1>1, CommitStep, RaftInvHolds, PTL DEF Spec

\* Leader completeness: what a leader committed is in the log of every leader
\* of its term or a later one.
THEOREM LeadersComplete == Spec => []LeaderCompleteness
<1>1. RaftInv /\ CommitInv => LeaderCompleteness
  <2> SUFFICES ASSUME RaftInv, CommitInv, NEW d \in decided, NEW n \in Node,
                      role[n] = "Leader", current_term[n] >= d[2]
               PROVE  get_term_at(log[n], d[1]) = d[2]
    BY DEF LeaderCompleteness
  <2> DEFINE e == current_term[n]
  <2>1. TypeOK /\ LineageInv /\ DecidedSafe
    BY DEF RaftInv, CommitInv
  <2>2. e \in DOMAIN leader_log /\ leader_log[e] = log[n]
    BY <2>1 DEF LineageInv, LeaderOwnsLog
  <2>3. d[2] \in Nat /\ e \in Nat /\ Len(log[n]) \in Nat
    BY <2>1, LogTypes DEF TypeOK
  <2>4. d[2] <= e
    BY <2>3
  <2>5. d[1] \in Nat /\ d[1] > 0 /\ Holds(log[n], d[1], d[2])
    BY <2>1, <2>2, <2>4, CommittedShared
  <2>6. d[1] \in 1..Len(log[n]) /\ log[n][d[1]] = d[2]
    BY <2>3, <2>5 DEF Holds
  <2> QED
    BY <2>6 DEF get_term_at
<1> QED
  BY <1>1, CommitInvHolds, PTL

\* Two nodes agree on what both have committed, if the first one's commits go
\* back to a leader of no later term than the second one's.
LEMMA CommitsAgree ==
    ASSUME TypeOK, LineageInv, DecidedSafe, CommitBacked,
           NEW a \in Node, NEW b \in Node, NEW d \in decided, NEW e \in decided, d[2] <= e[2],
           NEW i \in Nat, i > 0, i <= d[1], i <= last_committed[a], i <= last_committed[b],
           Agree(log[a], leader_log[d[2]], last_committed[a]),
           Agree(log[b], leader_log[e[2]], last_committed[b])
    PROVE  get_term_at(log[a], i) = get_term_at(log[b], i)
<1>1. d[1] \in Nat /\ d[2] \in Nat /\ e[2] \in DOMAIN leader_log
  BY DEF TypeOK, DecidedSafe, Written
<1>2. Agree(leader_log[e[2]], leader_log[d[2]], d[1])
  BY <1>1, CommittedShared
<1>3. /\ last_committed[a] \in Nat /\ last_committed[b] \in Nat
      /\ Len(log[a]) \in Nat /\ Len(log[b]) \in Nat
  BY LogTypes DEF TypeOK
<1>4. leader_log[e[2]][i] = leader_log[d[2]][i]
  BY <1>1, <1>2 DEF Agree
<1>5. i <= Len(log[a]) /\ log[a][i] = leader_log[d[2]][i]
  BY <1>3 DEF Agree
<1>6. i <= Len(log[b]) /\ log[b][i] = leader_log[e[2]][i]
  BY <1>3 DEF Agree
<1> QED
  BY <1>3, <1>4, <1>5, <1>6 DEF get_term_at

\* State machine safety: no two nodes commit different entries at an index,
\* for any cluster size and any number of terms, crashes and lost or late
\* messages.
THEOREM StateMachinesAgree == Spec => []StateMachineSafety
<1>1. RaftInv /\ CommitInv => StateMachineSafety
  <2> SUFFICES ASSUME RaftInv, CommitInv, NEW a \in Node, NEW b \in Node,
                      NEW i \in 1..Min({last_committed[a], last_committed[b]})
               PROVE  get_term_at(log[a], i) = get_term_at(log[b], i)
    BY DEF StateMachineSafety
  <2>1. TypeOK /\ LineageInv /\ DecidedSafe /\ CommitBacked
    BY DEF RaftInv, CommitInv
  <2>2. last_committed[a] \in Nat /\ last_committed[b] \in Nat
    BY <2>1 DEF TypeOK
  <2>3. /\ Min({last_committed[a], last_committed[b]}) \in {last_committed[a], last_committed[b]}
        /\ Min({last_committed[a], last_committed[b]}) <= last_committed[a]
        /\ Min({last_committed[a], last_committed[b]}) <= last_committed[b]
    BY <2>2, MinOfTwo
  <2>4. i \in Nat /\ i > 0 /\ i <= last_committed[a] /\ i <= last_committed[b]
    BY <2>2, <2>3
  <2>5. last_committed[a] > 0 /\ last_committed[b] > 0
    BY <2>2, <2>4
  <2>6. PICK d \in decided : /\ last_committed[a] <= d[1]
                             /\ Agree(log[a], leader_log[d[2]], last_committed[a])
    BY <2>1, <2>5 DEF CommitBacked
  <2>7. PICK e \in decided : /\ last_committed[b] <= e[1]
                             /\ Agree(log[b], leader_log[e[2]], last_committed[b])
    BY <2>1, <2>5 DEF CommitBacked
  <2>8. d[1] \in Nat /\ e[1] \in Nat /\ d[2] \in Nat /\ e[2] \in Nat
    BY <2>1 DEF TypeOK
  <2>9. i <= d[1] /\ i <= e[1]
    BY <2>2, <2>4, <2>6, <2>7, <2>8
  <2>10. CASE d[2] <= e[2]
    BY <2>1, <2>4, <2>6, <2>7, <2>9, <2>10, CommitsAgree
  <2>11. CASE e[2] <= d[2]
    BY <2>1, <2>4, <2>6, <2>7, <2>9, <2>11, CommitsAgree
  <2> QED
    BY <2>8, <2>10, <2>11
<1> QED
  BY <1>1, CommitInvHolds, PTL

\* A committed prefix is never shortened or rewritten: not by a new leader
\* that truncates at a conflict, not by a late or repeated request, not by a
\* crash between two writes.
THEOREM CommitsStay == Spec => CommittedPrefixStable
<1> DEFINE Stable ==
      \A n \in Node :
         /\ last_committed'[n] >= last_committed[n]
         /\ \A i \in 1..last_committed[n] : get_term_at(log'[n], i) = get_term_at(log[n], i)
<1>1. (RaftInv /\ CommitInv) /\ (RaftInv /\ CommitInv)' /\ [Next]_vars => Stable
  <2> SUFFICES ASSUME RaftInv, RaftInv', CommitInv, [Next]_vars, NEW n \in Node
               PROVE  /\ last_committed'[n] >= last_committed[n]
                      /\ \A i \in 1..last_committed[n] :
                            get_term_at(log'[n], i) = get_term_at(log[n], i)
    OBVIOUS
  <2>1. /\ TypeOK /\ TypeOK' /\ VotingInv /\ HintInv /\ LineageInv
        /\ DecidedSafe /\ CommitBacked
    BY DEF RaftInv, CommitInv
  <2>2. last_committed'[n] >= last_committed[n]
    BY <2>1, CommitGrows
  <2>3. Agree(log'[n], log[n], last_committed[n])
    BY <2>1, PrefixKept
  <2>4. last_committed[n] \in Nat /\ Len(log[n]) \in Nat /\ Len(log'[n]) \in Nat
    BY <2>1, LogTypes, LogTypesAfter DEF TypeOK
  <2>5. ASSUME NEW i \in 1..last_committed[n]
        PROVE  get_term_at(log'[n], i) = get_term_at(log[n], i)
    <3>1. log'[n][i] = log[n][i] /\ i \in 1..Len(log[n]) /\ i \in 1..Len(log'[n])
      BY <2>3, <2>4 DEF Agree
    <3> QED
      BY <3>1 DEF get_term_at
  <2> QED
    BY <2>2, <2>5
<1> HIDE DEF Stable
<1>2. Spec => [][Stable]_vars
  BY <1>1, CommitInvHolds, PTL DEF Spec
<1> QED
  BY <1>2 DEF Stable, CommittedPrefixStable
-----------------------------------------------------------------------------
(* The node furthest ahead *)

\* A finite set of nodes has one with the greatest value: the one with the
\* fewest nodes above it.
LEMMA GreatestExists ==
    ASSUME NEW f \in [Node -> Nat]
    PROVE  \E n \in Node : \A m \in Node : f[m] <= f[n]
<1> DEFINE Above(n) == {m \in Node : f[m] > f[n]}
           above == {Cardinality(Above(n)) : n \in Node}
<1>1. ASSUME NEW n \in Node
      PROVE  /\ Above(n) \in SUBSET Node /\ IsFiniteSet(Above(n))
             /\ Cardinality(Above(n)) \in Nat
  BY NodeAssumption, FS_Subset, FS_CardinalityType
<1>2. above \in SUBSET Nat /\ above # {}
  <2> HIDE DEF Above
  <2> QED
    BY <1>1, NodeAssumption
<1>3. Min(above) \in above /\ \A k \in above : Min(above) <= k
  BY <1>2, MinOfNats
<1>4. PICK n \in Node : Cardinality(Above(n)) = Min(above)
  BY <1>3
<1>5. \A m \in Node : Cardinality(Above(n)) <= Cardinality(Above(m))
  BY <1>3, <1>4
<1>6. ASSUME NEW m \in Node, ~ (f[m] <= f[n]) PROVE FALSE
  <2>1. f[m] \in Nat /\ f[n] \in Nat /\ f[m] > f[n]
    BY <1>6
  <2>2. \A q \in Above(m) : q \in Above(n)
    BY <2>1
  <2>3. m \in Above(n) /\ m \notin Above(m)
    BY <2>1
  <2>4. Above(m) \in SUBSET Above(n) /\ Above(m) # Above(n)
    BY <2>2, <2>3
  <2> HIDE DEF Above
  <2>5. Cardinality(Above(m)) <= Cardinality(Above(n)) /\ Cardinality(Above(n)) # Cardinality(Above(m))
    BY <1>1, <2>4, FS_Subset
  <2> QED
    BY <1>1, <1>5, <2>5
<1> QED
  BY <1>6

\* FurthestNode is such a node.
LEMMA FurthestIs ==
    ASSUME last_committed \in [Node -> Nat]
    PROVE  FurthestNode \in Node /\ \A m \in Node : last_committed[m] <= last_committed[FurthestNode]
BY GreatestExists DEF FurthestNode

-----------------------------------------------------------------------------
(* Committed prefixes as sequences *)

\* Logs that agree up to an index have the same prefix there.
LEMMA SamePrefix ==
    ASSUME NEW r \in Seq(Nat), NEW s \in Seq(Nat), NEW j \in Nat, Agree(r, s, j)
    PROVE  /\ SubSeq(r, 1, j) = SubSeq(s, 1, j)
           /\ SubSeq(r, 1, j) \in Seq(Nat) /\ Len(SubSeq(r, 1, j)) = j
<1>1. Len(r) \in Nat /\ Len(s) \in Nat /\ j <= Len(r) /\ j <= Len(s)
  BY LenProperties DEF Agree
<1>2. /\ \A i \in 1..j : r[i] \in Nat
      /\ \A i \in 1..j : s[i] \in Nat
  BY <1>1
<1> DEFINE rj == SubSeq(r, 1, j)
           sj == SubSeq(s, 1, j)
<1>3. rj \in Seq(Nat) /\ Len(rj) = j /\ \A i \in 1..j : rj[i] = r[i]
  BY <1>1, <1>2, SubSeqProperties
<1>4. sj \in Seq(Nat) /\ Len(sj) = j /\ \A i \in 1..j : sj[i] = s[i]
  BY <1>1, <1>2, SubSeqProperties
<1>5. \A i \in 1..j : rj[i] = sj[i]
  BY <1>3, <1>4 DEF Agree
<1> HIDE DEF rj, sj
<1>6. rj = sj
  BY <1>3, <1>4, <1>5, SeqEqual
<1> QED
  BY <1>3, <1>6 DEF rj, sj

\* A shorter prefix of logs that agree so far is a prefix of the longer one.
LEMMA AgreeingPrefixes ==
    ASSUME NEW r \in Seq(Nat), NEW s \in Seq(Nat), NEW j \in Nat, NEW k \in Nat,
           j <= k, k <= Len(s), Agree(r, s, j)
    PROVE  Contract!IsPrefix(SubSeq(r, 1, j), SubSeq(s, 1, k))
<1> DEFINE rj == SubSeq(r, 1, j)
           sk == SubSeq(s, 1, k)
<1>1. Len(r) \in Nat /\ Len(s) \in Nat /\ j <= Len(r) /\ j <= Len(s)
  BY LenProperties DEF Agree
<1>2. /\ \A i \in 1..j : r[i] \in Nat
      /\ \A i \in 1..k : s[i] \in Nat
  BY <1>1, SMTT(30)
<1>3. rj \in Seq(Nat) /\ Len(rj) = j /\ \A i \in 1..j : rj[i] = r[i]
  BY <1>1, <1>2, SubSeqProperties
<1>4. sk \in Seq(Nat) /\ Len(sk) = k /\ \A i \in 1..k : sk[i] = s[i]
  BY <1>1, <1>2, SubSeqProperties
<1>5. \A i \in 1..j : rj[i] = sk[i]
  BY <1>3, <1>4 DEF Agree
<1> HIDE DEF rj, sk
<1>6. Agree(rj, sk, j)
  BY <1>3, <1>4, <1>5 DEF Agree
<1>7. SubSeq(rj, 1, j) = SubSeq(sk, 1, j)
  BY <1>3, <1>4, <1>6, SamePrefix
<1>8. Contract!IsPrefix(rj, sk)
  BY <1>3, <1>4, <1>7 DEF Contract!IsPrefix
<1> QED
  BY <1>8 DEF rj, sk

-----------------------------------------------------------------------------
(* Steps *)

\* A step moves the commit index of at most one node.
LEMMA OneCommits ==
    ASSUME TypeOK, VotingInv, HintInv, LineageInv, [Next]_vars
    PROVE  \E q \in Node : \A p \in Node \ {q} : last_committed'[p] = last_committed[p]
<1>1. last_committed \in [Node -> Nat]
  BY DEF TypeOK
<1>2. ASSUME UNCHANGED last_committed
      PROVE  \E q \in Node : \A p \in Node \ {q} : last_committed'[p] = last_committed[p]
  BY <1>2, NodeAssumption
<1>3. ASSUME NEW m \in rpcs, Accepts(m) \/ Hears(m.dst, m)
      PROVE  \E q \in Node : \A p \in Node \ {q} : last_committed'[p] = last_committed[p]
  <2>1. m.dst \in Node
    BY AppendTypes
  <2>2. UNCHANGED last_committed \/ \E v : last_committed' = [last_committed EXCEPT ![m.dst] = v]
    BY <1>3, HeardCommit DEF Accepts
  <2> QED
    BY <1>1, <1>2, <2>1, <2>2
<1>4. ASSUME NEW n \in Node, SendHeartbeat(n) \/ propose(n) PROVE UNCHANGED last_committed
  BY <1>4 DEF SendHeartbeat, propose, logState
<1>5. ASSUME NEW m \in rpcs, PrepareReplication(m) PROVE UNCHANGED last_committed
  BY <1>5 DEF PrepareReplication, logState
<1> QED
  BY <1>2, <1>3, <1>4, <1>5, StepKinds DEF StepKind, Tame, Campaigns, Wins, Votes, Crashes

\* The committed prefixes are prefixes of each other.
PrefixesNest ==
    \A a, b \in Node : last_committed[a] <= last_committed[b] =>
        Agree(log[a], log[b], last_committed[a])

\* State machine safety, said of prefixes.
LEMMA SafetyAgrees ==
    ASSUME TypeOK, CommitBacked, StateMachineSafety, NEW a \in Node, NEW b \in Node,
           last_committed[a] <= last_committed[b]
    PROVE  Agree(log[a], log[b], last_committed[a])
<1>1. /\ last_committed[a] \in Nat /\ last_committed[b] \in Nat
      /\ Len(log[a]) \in Nat /\ Len(log[b]) \in Nat
      /\ last_committed[a] <= Len(log[a]) /\ last_committed[b] <= Len(log[b])
  BY LogTypes DEF TypeOK, CommitBacked
<1>2. Min({last_committed[a], last_committed[b]}) = last_committed[a]
  <2>1. /\ Min({last_committed[a], last_committed[b]}) \in {last_committed[a], last_committed[b]}
        /\ Min({last_committed[a], last_committed[b]}) <= last_committed[a]
    BY <1>1, MinOfTwo
  <2> QED
    BY <1>1, <2>1
<1>3. \A i \in 1..last_committed[a] : get_term_at(log[a], i) = get_term_at(log[b], i)
  BY <1>2 DEF StateMachineSafety
<1>4. \A i \in 1..last_committed[a] : i \in 1..Len(log[a]) /\ i \in 1..Len(log[b])
  BY <1>1
<1> QED
  BY <1>1, <1>3, <1>4 DEF get_term_at, Agree

\* Where every step starts and ends.
ContractInv == RaftInv /\ CommitInv /\ PrefixesNest

\* It holds in every reachable state.
LEMMA ContractInvHolds == Spec => []ContractInv
<1>1. RaftInv /\ CommitInv /\ StateMachineSafety => ContractInv
  BY SafetyAgrees DEF ContractInv, RaftInv, CommitInv, PrefixesNest
<1> QED
  BY <1>1, CommitInvHolds, StateMachinesAgree, PTL

\* A step of Raft is a step of ReplicatedLog: the node that commits learns
\* more, nobody else learns anything, and what is chosen only grows, although
\* the node furthest ahead may be another one afterwards.
LEMMA ContractStep ==
    ASSUME ContractInv, ContractInv', [Next]_vars
    PROVE  Contract!Next
<1> DEFINE f == FurthestNode
           g == FurthestNode'
           lc == last_committed
<1>1. /\ TypeOK /\ TypeOK' /\ VotingInv /\ HintInv /\ LineageInv
      /\ DecidedSafe /\ CommitBacked /\ CommitBacked' /\ PrefixesNest'
  BY DEF ContractInv, RaftInv, CommitInv
<1>2. /\ \A p \in Node : /\ lc[p] \in Nat /\ lc'[p] \in Nat
                         /\ log[p] \in Seq(Nat) /\ log'[p] \in Seq(Nat)
                         /\ Len(log[p]) \in Nat /\ Len(log'[p]) \in Nat
      /\ last_committed' \in [Node -> Nat]
  BY <1>1, LogTypes, LogTypesAfter DEF TypeOK
<1>3. \A p \in Node : lc'[p] <= Len(log'[p])
  BY <1>1 DEF CommitBacked
<1>4. \A p \in Node : lc'[p] >= lc[p] /\ Agree(log'[p], log[p], lc[p])
  BY <1>1, CommitGrows, PrefixKept
<1>5. f \in Node /\ \A p \in Node : lc[p] <= lc[f]
  BY <1>1, FurthestIs DEF TypeOK
<1>6. g \in Node /\ \A p \in Node : lc'[p] <= lc'[g]
  BY <1>2, GreatestExists DEF FurthestNode
<1>7. PICK q \in Node : \A p \in Node \ {q} : lc'[p] = lc[p]
  BY <1>1, OneCommits
<1> HIDE DEF f, g
<1>8. \A p \in Node : Agree(log[p], log'[p], lc[p])
  BY <1>2, <1>4, AgreeRules
<1>9. \A p \in Node : Contract!IsPrefix(SubSeq(log[p], 1, lc[p]), SubSeq(log'[p], 1, lc'[p]))
  BY <1>2, <1>3, <1>4, <1>8, AgreeingPrefixes
<1>10. \A p \in Node \ {q} : SubSeq(log'[p], 1, lc'[p]) = SubSeq(log[p], 1, lc[p])
  <2> SUFFICES ASSUME NEW p \in Node \ {q}
               PROVE  SubSeq(log'[p], 1, lc'[p]) = SubSeq(log[p], 1, lc[p])
    OBVIOUS
  <2>1. lc'[p] = lc[p]
    BY <1>7
  <2>2. SubSeq(log[p], 1, lc[p]) = SubSeq(log'[p], 1, lc[p])
    BY <1>2, <1>8, SamePrefix, SMTT(30)
  <2> QED
    BY <2>1, <2>2
<1>11. \A p \in Node : Contract!IsPrefix(SubSeq(log'[p], 1, lc'[p]), SubSeq(log'[g], 1, lc'[g]))
  <2> SUFFICES ASSUME NEW p \in Node
               PROVE  Contract!IsPrefix(SubSeq(log'[p], 1, lc'[p]), SubSeq(log'[g], 1, lc'[g]))
    OBVIOUS
  <2>1. lc'[p] <= lc'[g] /\ Agree(log'[p], log'[g], lc'[p])
    BY <1>1, <1>6 DEF PrefixesNest
  <2> QED
    BY <1>2, <1>3, <1>6, <2>1, AgreeingPrefixes
<1>12. Contract!IsPrefix(SubSeq(log[f], 1, lc[f]), SubSeq(log'[g], 1, lc'[g]))
  <2>1. lc'[f] <= lc'[g] /\ Agree(log'[f], log'[g], lc'[f])
    BY <1>1, <1>5, <1>6 DEF PrefixesNest
  <2>2. lc[f] <= lc'[f] /\ lc[f] <= lc'[g]
    BY <1>2, <1>4, <1>5, <1>6, <2>1
  <2>3. Agree(log'[f], log'[g], lc[f])
    BY <1>2, <1>5, <1>6, <2>1, <2>2, AgreeRules
  <2>4. Agree(log[f], log'[g], lc[f])
    BY <1>2, <1>5, <1>6, <1>8, <2>3, AgreeRules
  <2> QED
    BY <1>2, <1>3, <1>5, <1>6, <2>2, <2>4, AgreeingPrefixes
<1> DEFINE chosen == committed_entries(FurthestNode)
           learned == [n \in Node |-> committed_entries(n)]
<1>13. /\ chosen = SubSeq(log[f], 1, lc[f])
       /\ chosen' = SubSeq(log'[g], 1, lc'[g])
  BY DEF committed_entries, f, g
<1>14. \A p \in Node : /\ learned[p] = SubSeq(log[p], 1, lc[p])
                       /\ learned'[p] = SubSeq(log'[p], 1, lc'[p])
  BY DEF committed_entries
<1> HIDE DEF chosen, learned
<1>15. /\ Contract!IsPrefix(chosen, chosen')
       /\ Contract!IsPrefix(learned[q], learned'[q])
       /\ Contract!IsPrefix(learned'[q], chosen')
       /\ \A p \in Node \ {q} : learned'[p] = learned[p]
  BY <1>9, <1>10, <1>11, <1>12, <1>13, <1>14
<1>16. Contract!Learn(q)
  BY <1>15 DEF Contract!Learn, chosen, learned
<1>17. CASE chosen' = chosen
  BY <1>16, <1>17 DEF Contract!Next, chosen
<1>18. CASE chosen' # chosen
  <2>1. Contract!Choose(q)
    BY <1>15, <1>16, <1>18 DEF Contract!Choose, chosen
  <2> QED
    BY <2>1 DEF Contract!Next
<1> QED
  BY <1>17, <1>18

\* Raft implements the replicated log that the gateways rely on.
THEOREM RaftImplementsReplicatedLog == Spec => ImplementsReplicatedLog
<1>1. Init => Contract!Init
  <2> SUFFICES ASSUME Init PROVE Contract!Init
    OBVIOUS
  <2>1. last_committed = [n \in Node |-> 0] /\ \A n \in Node : log[n] = << >>
    BY DEF Init
  <2>2. FurthestNode \in Node
    BY <2>1, FurthestIs
  <2>3. \A n \in Node : committed_entries(n) = << >>
    BY <2>1 DEF committed_entries
  <2> QED
    BY <2>2, <2>3 DEF Contract!Init
<1>2. ContractInv /\ ContractInv' /\ [Next]_vars => [Contract!Next]_(Contract!rlVars)
  BY ContractStep
<1> QED
  BY <1>1, <1>2, ContractInvHolds, PTL DEF Spec, ImplementsReplicatedLog, Contract!Spec
=============================================================================
