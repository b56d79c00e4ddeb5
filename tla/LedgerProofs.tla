---------------------------- MODULE LedgerProofs ----------------------------
(***************************************************************************)
(* Proofs about Ledger, for any nodes, clients, intents and bounds: what   *)
(* the stores hold follows the log, no sequence gap reaches them, queries  *)
(* read what is as recent as they asked for, and clients are told what is  *)
(* recorded.                                                               *)
(***************************************************************************)
EXTENDS Ledger, WellFoundedInduction, SequenceTheorems, TLAPS

-----------------------------------------------------------------------------
(* Naturals *)

\* A nonempty set of naturals has the least element Min chooses.
LEMMA MinIs ==
    ASSUME NEW S \in SUBSET Nat, S # {}
    PROVE  Min(S) \in S /\ \A y \in S : Min(S) <= y
<1> DEFINE R == {ss \in Nat \X Nat : ss[1] < ss[2]}
<1>1. IsWellFoundedOn(R, Nat)
  BY NatLessThanWellFounded, Zenon DEF OpToRel
<1> HIDE DEF R
<1>2. PICK x \in S : \A y \in S : ~ (<<y, x>> \in R)
  BY <1>1, WFMin
<1>3. \A y \in S : x <= y
  <2> SUFFICES ASSUME NEW y \in S, ~ (x <= y) PROVE FALSE
    OBVIOUS
  <2>1. x \in Nat /\ y \in Nat /\ y < x
    OBVIOUS
  <2>2. <<y, x>> \in R
    BY <2>1 DEF R
  <2> QED
    BY <1>2, <2>2
<1> QED
  BY <1>3 DEF Min

-----------------------------------------------------------------------------
(* The store as a value *)

Intent == Intents \cup {"none"}

Mutation == [client : Clients, seq : Nat, status : {"Committed", "Vetoed"}, key : {Item},
             qty : Nat, is_delete : BOOLEAN, time : Nat]

Entry == [term : Nat, m : Mutation]

ItemRecord == [quantity : Nat, last_modified_by : Clients, version : Nat]
SessionRecord == [seq : Nat, status : {"Committed", "Vetoed"}, index : Nat]

\* Tables with any of the keys K.
Tables(K, V) == UNION {[D -> V] : D \in SUBSET K}

Store == [items : Tables({Item}, ItemRecord), sessions : Tables(Clients, SessionRecord),
          time : Nat, applied : Nat, poisoned : BOOLEAN]

\* Looking into a table.
LEMMA TableHas ==
    ASSUME NEW K, NEW V, NEW f \in Tables(K, V)
    PROVE  DOMAIN f \subseteq K /\ \A x \in DOMAIN f : f[x] \in V
BY DEF Tables

\* One more key.
LEMMA TableWith ==
    ASSUME NEW K, NEW V, NEW f \in Tables(K, V), NEW x \in K, NEW v \in V
    PROVE  With(f, x, v) \in Tables(K, V)
<1>1. DOMAIN f \cup {x} \in SUBSET K /\ \A y \in DOMAIN f : f[y] \in V
  BY TableHas
<1>2. With(f, x, v) \in [DOMAIN f \cup {x} -> V]
  BY <1>1 DEF With
<1> QED
  BY <1>1, <1>2 DEF Tables

\* One key less.
LEMMA TableWithout ==
    ASSUME NEW K, NEW V, NEW f \in Tables(K, V), NEW x
    PROVE  Without(f, x) \in Tables(K, V)
<1>1. DOMAIN f \ {x} \in SUBSET K /\ \A y \in DOMAIN f : f[y] \in V
  BY TableHas
<1>2. Without(f, x) \in [DOMAIN f \ {x} -> V]
  BY <1>1 DEF Without
<1> QED
  BY <1>1, <1>2 DEF Tables

\* A new store.
LEMMA NewStore == new \in Store
<1>1. \A V : << >> \in [{} -> V]
  OBVIOUS
<1>2. \A K, V : << >> \in Tables(K, V)
  BY <1>1 DEF Tables
<1> QED
  BY <1>2 DEF new, Store

\* The sequence number a store has recorded for a client.
Latest(st, c) == get_session_record(st, c).seq

\* A recorded sequence number is a natural, 0 without a session.
LEMMA LatestType ==
    ASSUME NEW st \in Store, NEW c
    PROVE  Latest(st, c) \in Nat
<1>1. CASE c \in DOMAIN st.sessions
  <2>1. st.sessions[c] \in SessionRecord
    BY <1>1, TableHas DEF Store
  <2> QED
    BY <1>1, <2>1 DEF Latest, get_session_record, SessionRecord
<1>2. CASE c \notin DOMAIN st.sessions
  BY <1>2 DEF Latest, get_session_record, NoSession
<1> QED
  BY <1>1, <1>2

\* The transaction.
LEMMA CommittedStore ==
    ASSUME NEW st \in Store, NEW i \in Nat, NEW m \in Mutation
    PROVE  /\ Committed(st, i, m) \in Store
           /\ Committed(st, i, m).applied = i /\ ~ Committed(st, i, m).poisoned
           /\ Committed(st, i, m).time >= st.time
           /\ Committed(st, i, m).sessions =
                 With(st.sessions, m.client, [seq |-> m.seq, status |-> m.status, index |-> i])
<1>1. /\ st.items \in Tables({Item}, ItemRecord) /\ st.sessions \in Tables(Clients, SessionRecord)
      /\ st.time \in Nat
  BY DEF Store
<1>2. /\ m.client \in Clients /\ m.time \in Nat /\ m.key = Item
      /\ [seq |-> m.seq, status |-> m.status, index |-> i] \in SessionRecord
      /\ item_from_mutation(i, m) \in ItemRecord
  BY DEF Mutation, SessionRecord, ItemRecord, item_from_mutation
<1>3. With(st.sessions, m.client, [seq |-> m.seq, status |-> m.status, index |-> i])
          \in Tables(Clients, SessionRecord)
  BY <1>1, <1>2, TableWith
<1>4. /\ Without(st.items, m.key) \in Tables({Item}, ItemRecord)
      /\ With(st.items, m.key, item_from_mutation(i, m)) \in Tables({Item}, ItemRecord)
  <2>1. m.key \in {Item}
    BY <1>2
  <2> QED
    BY <1>1, <1>2, <2>1, TableWith, TableWithout
<1>5. max_timestamp(m.time, st.time) \in Nat /\ max_timestamp(m.time, st.time) >= st.time
  BY <1>1, <1>2 DEF max_timestamp
<1> DEFINE its == IF m.status # "Committed" THEN st.items
                  ELSE IF m.is_delete THEN Without(st.items, m.key)
                  ELSE With(st.items, m.key, item_from_mutation(i, m))
<1>6. its \in Tables({Item}, ItemRecord)
  <2>1. CASE m.status # "Committed"
    <3>1. its = st.items
      BY <2>1
    <3> QED
      BY <1>1, <3>1
  <2>2. CASE m.status = "Committed" /\ m.is_delete
    BY <1>4, <2>2
  <2>3. CASE m.status = "Committed" /\ ~ m.is_delete
    BY <1>4, <2>3
  <2> QED
    BY <2>1, <2>2, <2>3
<1> HIDE DEF its
<1>7. Committed(st, i, m) =
        [items |-> its,
         sessions |-> With(st.sessions, m.client, [seq |-> m.seq, status |-> m.status, index |-> i]),
         time |-> max_timestamp(m.time, st.time), applied |-> i, poisoned |-> FALSE]
  BY DEF Committed, its
<1> QED
  BY <1>3, <1>5, <1>6, <1>7 DEF Store

\* Applying an entry keeps a store a store.
LEMMA ApplyStore ==
    ASSUME NEW st \in Store, NEW i \in Nat, NEW m \in Mutation
    PROVE  apply(st, i, m) \in Store
<1>1. [st EXCEPT !.poisoned = TRUE] \in Store
  BY DEF Store
<1>2. advance_last_applied_for_duplicate(st, i) \in Store
  BY DEF Store, advance_last_applied_for_duplicate
<1>3. Committed(st, i, m) \in Store
  BY CommittedStore
<1> QED
  BY <1>1, <1>2, <1>3 DEF apply

\* What the transaction records for each client.
LEMMA CommittedLatest ==
    ASSUME NEW st \in Store, NEW i \in Nat, NEW m \in Mutation
    PROVE  /\ Latest(Committed(st, i, m), m.client) = m.seq
           /\ \A c : c # m.client => Latest(Committed(st, i, m), c) = Latest(st, c)
<1> DEFINE rec == [seq |-> m.seq, status |-> m.status, index |-> i]
           nu == Committed(st, i, m)
<1>1. nu.sessions = With(st.sessions, m.client, rec)
  BY CommittedStore
<1>2. st.sessions \in Tables(Clients, SessionRecord) /\ m.client \in Clients /\ rec \in SessionRecord
  BY DEF Store, Mutation, SessionRecord
<1>3. rec.seq = m.seq
  OBVIOUS
<1> HIDE DEF rec, nu
<1>4. /\ DOMAIN nu.sessions = DOMAIN st.sessions \cup {m.client}
      /\ nu.sessions[m.client] = rec
      /\ \A c \in DOMAIN st.sessions \ {m.client} : nu.sessions[c] = st.sessions[c]
  <2>1. /\ DOMAIN With(st.sessions, m.client, rec) = DOMAIN st.sessions \cup {m.client}
        /\ With(st.sessions, m.client, rec)[m.client] = rec
        /\ \A c \in DOMAIN st.sessions \ {m.client} : With(st.sessions, m.client, rec)[c] = st.sessions[c]
    BY DEF With
  <2> QED
    BY <1>1, <2>1
<1>5. Latest(nu, m.client) = m.seq
  BY <1>3, <1>4 DEF Latest, get_session_record
<1>6. ASSUME NEW c, c # m.client PROVE Latest(nu, c) = Latest(st, c)
  BY <1>4, <1>6 DEF Latest, get_session_record
<1> QED
  BY <1>5, <1>6 DEF nu

\* The next entry, when it is no gap, is a repetition or is recorded.
LEMMA ApplyNext ==
    ASSUME NEW st \in Store, NEW m \in Mutation, ~ st.poisoned, m.seq <= Latest(st, m.client) + 1
    PROVE  LET nu == apply(st, st.applied + 1, m)
           IN  /\ nu.applied = st.applied + 1 /\ ~ nu.poisoned
               /\ m.seq <= Latest(st, m.client) => nu = [st EXCEPT !.applied = st.applied + 1]
               /\ m.seq <= Latest(nu, m.client)
               /\ \A c : Latest(nu, c) >= Latest(st, c)
               /\ \A c : Latest(nu, c) = Latest(st, c) \/ (c = m.client /\ Latest(nu, c) = m.seq)
<1> DEFINE i == st.applied + 1
           nu == apply(st, i, m)
<1>1. st.applied \in Nat /\ i \in Nat /\ i = st.applied + 1 /\ m.seq \in Nat /\ m.client \in Clients
  BY DEF Store, Mutation
<1>2. \A c : Latest(st, c) \in Nat
  BY LatestType
<1> HIDE DEF i
<1>3. CASE m.seq <= Latest(st, m.client)
  <2>1. is_duplicate(st, m)
    BY <1>3 DEF is_duplicate, Latest
  <2>2. nu = [st EXCEPT !.applied = i]
    BY <1>1, <2>1 DEF apply, validate_log_monotonicity, advance_last_applied_for_duplicate
  <2>3. nu.sessions = st.sessions /\ nu.applied = i /\ ~ nu.poisoned
    BY <2>2 DEF Store
  <2>4. \A c : Latest(nu, c) = Latest(st, c)
    BY <2>3 DEF Latest, get_session_record
  <2>5. \A c : Latest(nu, c) >= Latest(st, c)
    BY <1>2, <2>4
  <2> QED
    BY <1>1, <1>3, <2>2, <2>3, <2>4, <2>5 DEF i
<1>4. CASE m.seq > Latest(st, m.client)
  <2>1. ~ is_duplicate(st, m) /\ ~ (m.seq > get_session_record(st, m.client).seq + 1)
    BY <1>1, <1>2, <1>4 DEF is_duplicate, Latest
  <2>2. nu = Committed(st, i, m)
    BY <1>1, <2>1 DEF apply, validate_log_monotonicity
  <2>3. nu.applied = i /\ ~ nu.poisoned
    <3>1. Committed(st, i, m).applied = i /\ ~ Committed(st, i, m).poisoned
      BY <1>1, CommittedStore
    <3> QED
      BY <2>2, <3>1
  <2>4. Latest(nu, m.client) = m.seq /\ \A c : c # m.client => Latest(nu, c) = Latest(st, c)
    BY <1>1, <2>2, CommittedLatest
  <2>5. \A c : Latest(nu, c) = Latest(st, c) \/ (c = m.client /\ Latest(nu, c) = m.seq)
    BY <2>4
  <2>6. \A c : Latest(nu, c) >= Latest(st, c)
    BY <1>1, <1>2, <1>4, <2>4
  <2>7. m.seq <= Latest(nu, m.client) /\ ~ (m.seq <= Latest(st, m.client))
    BY <1>1, <1>2, <1>4, <2>4
  <2> QED
    BY <1>1, <2>3, <2>5, <2>6, <2>7 DEF i
<1> QED
  BY <1>1, <1>2, <1>3, <1>4

-----------------------------------------------------------------------------
(* Stores advance *)

\* What SessionsAdvance says of a store and a later one.
Advances(st, nu) ==
    /\ nu.time >= st.time
    /\ \A c \in DOMAIN st.sessions :
        c \in DOMAIN nu.sessions /\
        (nu.sessions[c] = st.sessions[c] \/ nu.sessions[c].seq > st.sessions[c].seq)

\* Advancing twice is advancing.
LEMMA AdvancesCompose ==
    ASSUME NEW r \in Store, NEW s \in Store, NEW t \in Store, Advances(r, s), Advances(s, t)
    PROVE  Advances(r, t)
<1>1. r.time \in Nat /\ s.time \in Nat /\ t.time \in Nat
  BY DEF Store
<1>2. t.time >= r.time
  BY <1>1 DEF Advances
<1>3. ASSUME NEW c \in DOMAIN r.sessions
      PROVE  c \in DOMAIN t.sessions /\
             (t.sessions[c] = r.sessions[c] \/ t.sessions[c].seq > r.sessions[c].seq)
  <2>1. /\ c \in DOMAIN s.sessions
        /\ s.sessions[c] = r.sessions[c] \/ s.sessions[c].seq > r.sessions[c].seq
    BY DEF Advances
  <2>2. /\ c \in DOMAIN t.sessions
        /\ t.sessions[c] = s.sessions[c] \/ t.sessions[c].seq > s.sessions[c].seq
    BY <2>1 DEF Advances
  <2>3. r.sessions[c] \in SessionRecord /\ s.sessions[c] \in SessionRecord /\ t.sessions[c] \in SessionRecord
    BY <2>1, <2>2, TableHas DEF Store
  <2>4. r.sessions[c].seq \in Nat /\ s.sessions[c].seq \in Nat /\ t.sessions[c].seq \in Nat
    BY <2>3 DEF SessionRecord
  <2> QED
    BY <2>1, <2>2, <2>4
<1> QED
  BY <1>2, <1>3 DEF Advances

\* A store whose sessions and clock stay has not gone back.
LEMMA AdvancesStays ==
    ASSUME NEW st \in Store
    PROVE  /\ Advances(st, st)
           /\ \A nu : nu.time = st.time /\ nu.sessions = st.sessions => Advances(st, nu)
BY DEF Advances, Store

\* Applying advances, or leaves the trees alone.
LEMMA ApplyAdvances ==
    ASSUME NEW st \in Store, NEW i \in Nat, NEW m \in Mutation
    PROVE  Advances(st, apply(st, i, m))
<1>1. [st EXCEPT !.poisoned = TRUE].time = st.time /\ [st EXCEPT !.poisoned = TRUE].sessions = st.sessions
  BY DEF Store
<1>2. [st EXCEPT !.applied = i].time = st.time /\ [st EXCEPT !.applied = i].sessions = st.sessions
  BY DEF Store
<1>3. Advances(st, st) /\ Advances(st, [st EXCEPT !.poisoned = TRUE]) /\ Advances(st, [st EXCEPT !.applied = i])
  BY <1>1, <1>2, AdvancesStays
<1>4. ASSUME ~ is_duplicate(st, m) PROVE Advances(st, Committed(st, i, m))
  <2> DEFINE rec == [seq |-> m.seq, status |-> m.status, index |-> i]
             nu == Committed(st, i, m)
  <2>1. nu.sessions = With(st.sessions, m.client, rec) /\ nu.time >= st.time
    BY CommittedStore
  <2>2. st.sessions \in Tables(Clients, SessionRecord) /\ m.client \in Clients /\ rec \in SessionRecord
    BY DEF Store, Mutation, SessionRecord
  <2>3. rec.seq = m.seq /\ m.seq \in Nat
    BY DEF Mutation
  <2> HIDE DEF rec, nu
  <2>4. /\ DOMAIN nu.sessions = DOMAIN st.sessions \cup {m.client}
        /\ nu.sessions[m.client] = rec
        /\ \A c \in DOMAIN st.sessions \ {m.client} : nu.sessions[c] = st.sessions[c]
    <3>1. /\ DOMAIN With(st.sessions, m.client, rec) = DOMAIN st.sessions \cup {m.client}
          /\ With(st.sessions, m.client, rec)[m.client] = rec
          /\ \A c \in DOMAIN st.sessions \ {m.client} : With(st.sessions, m.client, rec)[c] = st.sessions[c]
      BY DEF With
    <3> QED
      BY <2>1, <3>1
  <2>5. m.client \in DOMAIN st.sessions => m.seq > st.sessions[m.client].seq
    <3>1. Latest(st, m.client) \in Nat
      BY LatestType
    <3> QED
      BY <1>4, <2>3, <3>1 DEF is_duplicate, get_session_record, Latest
  <2> QED
    BY <2>1, <2>3, <2>4, <2>5 DEF Advances, nu
<1> QED
  BY <1>3, <1>4 DEF apply, advance_last_applied_for_duplicate

-----------------------------------------------------------------------------
(* The reference *)

\* f[0], f[1], ..., f[n] are the stores after 0, 1, ..., n of the mutations.
IsRun(f, ms, n) ==
    f = [i \in 0..n |-> IF i = 0 THEN new ELSE apply(f[i - 1], f[i - 1].applied + 1, ms[i])]

\* A run starts with a new store and applies one mutation after the other.
LEMMA RunSteps ==
    ASSUME NEW f, NEW ms, NEW n \in Nat, IsRun(f, ms, n)
    PROVE  /\ DOMAIN f = 0..n
           /\ f[0] = new
           /\ \A i \in 1..n : f[i] = apply(f[i - 1], f[i - 1].applied + 1, ms[i])
<1> DEFINE g == [i \in 0..n |-> IF i = 0 THEN new ELSE apply(f[i - 1], f[i - 1].applied + 1, ms[i])]
<1>1. f = g
  BY DEF IsRun
<1>2. DOMAIN g = 0..n /\ \A i \in 0..n : g[i] = IF i = 0 THEN new ELSE apply(f[i - 1], f[i - 1].applied + 1, ms[i])
  OBVIOUS
<1> HIDE DEF g
<1>3. 0 \in 0..n /\ \A i \in 1..n : i \in 0..n /\ i # 0
  OBVIOUS
<1> QED
  BY <1>1, <1>2, <1>3

\* A longer run, one step at a time.
LEMMA RunExtends ==
    ASSUME NEW f, NEW ms, NEW n \in Nat, IsRun(f, ms, n)
    PROVE  \E g : IsRun(g, ms, n + 1)
<1> DEFINE g == [i \in 0..(n + 1) |->
                    IF i = n + 1 THEN apply(f[n], f[n].applied + 1, ms[i]) ELSE f[i]]
<1>1. /\ DOMAIN f = 0..n /\ f[0] = new
      /\ \A i \in 1..n : f[i] = apply(f[i - 1], f[i - 1].applied + 1, ms[i])
  BY RunSteps
<1>2. /\ \A i \in 0..n : g[i] = f[i]
      /\ g[n + 1] = apply(f[n], f[n].applied + 1, ms[n + 1])
  OBVIOUS
<1>3. ASSUME NEW i \in 0..(n + 1)
      PROVE  g[i] = IF i = 0 THEN new ELSE apply(g[i - 1], g[i - 1].applied + 1, ms[i])
  <2> HIDE DEF g
  <2>1. CASE i = 0
    BY <1>1, <1>2, <2>1
  <2>2. CASE i \in 1..n
    <3>1. i - 1 \in 0..n /\ i \in 0..n /\ i # 0
      BY <2>2
    <3> QED
      BY <1>1, <1>2, <2>2, <3>1
  <2>3. CASE i = n + 1
    <3>1. i - 1 = n /\ n \in 0..n /\ i # 0
      BY <2>3
    <3> QED
      BY <1>2, <2>3, <3>1
  <2> QED
    BY <2>1, <2>2, <2>3
<1> DEFINE h == [i \in 0..(n + 1) |-> IF i = 0 THEN new ELSE apply(g[i - 1], g[i - 1].applied + 1, ms[i])]
<1>4. g = h
  <2>1. g = [i \in 0..(n + 1) |-> g[i]]
    OBVIOUS
  <2> HIDE DEF g
  <2> QED
    BY <1>3, <2>1
<1> HIDE DEF g
<1>5. IsRun(g, ms, n + 1)
  BY <1>4 DEF IsRun
<1> QED
  BY <1>5

\* Every sequence of mutations has a run.
LEMMA RunExists ==
    ASSUME NEW ms, NEW n \in Nat
    PROVE  \E f : IsRun(f, ms, n)
<1> DEFINE Bad == {k \in Nat : ~ \E f : IsRun(f, ms, k)}
<1> SUFFICES ASSUME Bad # {} PROVE FALSE
  OBVIOUS
<1>1. Bad \in SUBSET Nat
  OBVIOUS
<1> DEFINE k == Min(Bad)
<1>2. k \in Bad /\ \A y \in Bad : k <= y
  <2> HIDE DEF Bad
  <2> QED
    BY <1>1, MinIs
<1> HIDE DEF k
<1>3. CASE k = 0
  <2> DEFINE f == [i \in 0..0 |-> new]
             g == [i \in 0..0 |-> IF i = 0 THEN new ELSE apply(f[i - 1], f[i - 1].applied + 1, ms[i])]
  <2>1. \A i \in 0..0 : i = 0
    OBVIOUS
  <2>2. f = g
    BY <2>1
  <2>3. IsRun(f, ms, 0)
    BY <2>2 DEF IsRun
  <2> QED
    BY <1>2, <1>3, <2>3
<1>4. CASE k # 0
  <2>1. k - 1 \in Nat /\ (k - 1) + 1 = k /\ ~ (k <= k - 1)
    BY <1>2, <1>4
  <2>2. PICK f : IsRun(f, ms, k - 1)
    BY <1>2, <2>1
  <2>3. \E g : IsRun(g, ms, (k - 1) + 1)
    BY <2>1, <2>2, RunExtends
  <2> QED
    BY <1>2, <2>1, <2>3
<1> QED
  BY <1>3, <1>4

\* The run of a longer sequence goes through that of a shorter one.
Alike(r, s, k) == \A i \in 1..k : r[i] = s[i]

\* Runs of sequences that begin alike agree as long as these do.
LEMMA RunsAgree ==
    ASSUME NEW f, NEW g, NEW r, NEW s, NEW n \in Nat, NEW k \in Nat, k <= n,
           IsRun(f, r, k), IsRun(g, s, n), Alike(r, s, k)
    PROVE  f[k] = g[k]
<1> DEFINE Bad == {i \in 0..k : f[i] # g[i]}
<1> SUFFICES ASSUME Bad # {} PROVE FALSE
  OBVIOUS
<1>0. \A j \in 1..k : r[j] = s[j]
  BY DEF Alike
<1>1. Bad \in SUBSET Nat
  OBVIOUS
<1> DEFINE i == Min(Bad)
<1>2. i \in Bad /\ \A y \in Bad : i <= y
  <2> HIDE DEF Bad
  <2> QED
    BY <1>1, MinIs
<1> HIDE DEF i
<1>3. i \in 0..k /\ f[i] # g[i]
  BY <1>2
<1>4. /\ f[0] = new /\ g[0] = new
      /\ \A j \in 1..k : f[j] = apply(f[j - 1], f[j - 1].applied + 1, r[j])
      /\ \A j \in 1..n : g[j] = apply(g[j - 1], g[j - 1].applied + 1, s[j])
  BY RunSteps
<1>5. i \in 1..k /\ i \in 1..n /\ i - 1 \in 0..k /\ ~ (i <= i - 1)
  BY <1>3, <1>4
<1>6. f[i - 1] = g[i - 1]
  BY <1>2, <1>5
<1> QED
  BY <1>0, <1>3, <1>4, <1>5, <1>6

\* Replay is where its run ends.
LEMMA ReplayRun ==
    ASSUME NEW ms \in Seq(Mutation)
    PROVE  \E f : IsRun(f, ms, Len(ms)) /\ Replay(ms) = f[Len(ms)]
<1> DEFINE f == CHOOSE g : IsRun(g, ms, Len(ms))
<1>1. Len(ms) \in Nat
  OBVIOUS
<1>2. IsRun(f, ms, Len(ms))
  BY <1>1, RunExists
<1>3. Replay(ms) = f[Len(ms)]
  BY DEF Replay, IsRun
<1> QED
  BY <1>2, <1>3

\* Prefixes of a sequence.
LEMMA PrefixOf ==
    ASSUME NEW T, NEW s \in Seq(T), NEW k \in Nat, k <= Len(s)
    PROVE  /\ SubSeq(s, 1, k) \in Seq(T) /\ Len(SubSeq(s, 1, k)) = k
           /\ \A i \in 1..k : SubSeq(s, 1, k)[i] = s[i]
<1>1. Len(s) \in Nat /\ \A i \in 1..k : s[i] \in T
  OBVIOUS
<1> QED
  BY <1>1, SubSeqProperties

\* One entry more is one application more.
LEMMA ReplayStep ==
    ASSUME NEW s \in Seq(Mutation), NEW k \in Nat, k + 1 <= Len(s)
    PROVE  Replay(SubSeq(s, 1, k + 1)) =
               apply(Replay(SubSeq(s, 1, k)), Replay(SubSeq(s, 1, k)).applied + 1, s[k + 1])
<1> DEFINE r == SubSeq(s, 1, k)
           t == SubSeq(s, 1, k + 1)
<1>1. Len(s) \in Nat /\ k <= Len(s) /\ k + 1 \in Nat
  OBVIOUS
<1>2. r \in Seq(Mutation) /\ Len(r) = k /\ \A i \in 1..k : r[i] = s[i]
  BY <1>1, PrefixOf
<1>3. t \in Seq(Mutation) /\ Len(t) = k + 1 /\ \A i \in 1..(k + 1) : t[i] = s[i]
  BY <1>1, PrefixOf
<1> HIDE DEF r, t
<1>4. PICK f : IsRun(f, r, k) /\ Replay(r) = f[k]
  BY <1>2, ReplayRun
<1>5. PICK g : IsRun(g, t, k + 1) /\ Replay(t) = g[k + 1]
  BY <1>3, ReplayRun
<1>6. k <= k + 1 /\ (\A i \in 1..k : r[i] = t[i]) /\ k \in 0..k /\ k + 1 \in 1..(k + 1) /\ (k + 1) - 1 = k
  BY <1>2, <1>3
<1>7. f[k] = g[k]
  <2>1. Alike(r, t, k)
    BY <1>6 DEF Alike
  <2> QED
    BY <1>1, <1>4, <1>5, <1>6, <2>1, RunsAgree
<1>8. g[k + 1] = apply(g[k], g[k].applied + 1, t[k + 1])
  BY <1>1, <1>5, <1>6, RunSteps
<1>9. Replay(t) = apply(Replay(r), Replay(r).applied + 1, s[k + 1])
  BY <1>3, <1>4, <1>5, <1>6, <1>7, <1>8
<1> QED
  BY <1>9 DEF r, t

\* Replaying no entry gives a new store.
LEMMA ReplayNothing ==
    ASSUME NEW s \in Seq(Mutation)
    PROVE  Replay(SubSeq(s, 1, 0)) = new
<1> DEFINE r == SubSeq(s, 1, 0)
<1>1. r \in Seq(Mutation) /\ Len(r) = 0
  BY PrefixOf
<1> HIDE DEF r
<1>2. PICK f : IsRun(f, r, 0) /\ Replay(r) = f[0]
  BY <1>1, ReplayRun
<1>3. Replay(r) = new
  BY <1>2, RunSteps
<1> QED
  BY <1>3 DEF r

\* The stages of a replay are stores.
LEMMA ReplayStore ==
    ASSUME NEW s \in Seq(Mutation), NEW k \in 0..Len(s)
    PROVE  Replay(SubSeq(s, 1, k)) \in Store
<1> DEFINE Bad == {i \in 0..Len(s) : Replay(SubSeq(s, 1, i)) \notin Store}
<1> SUFFICES ASSUME Bad # {} PROVE FALSE
  OBVIOUS
<1>1. Bad \in SUBSET Nat
  OBVIOUS
<1> DEFINE i == Min(Bad)
<1>2. i \in Bad /\ \A y \in Bad : i <= y
  <2> HIDE DEF Bad
  <2> QED
    BY <1>1, MinIs
<1> HIDE DEF i
<1>3. i \in 0..Len(s) /\ Replay(SubSeq(s, 1, i)) \notin Store /\ Len(s) \in Nat
  BY <1>2
<1>4. i # 0
  BY <1>3, ReplayNothing, NewStore
<1> DEFINE j == i - 1
<1>5. j \in 0..Len(s) /\ j \in Nat /\ j + 1 = i /\ j + 1 <= Len(s) /\ ~ (i <= j) /\ i \in 1..Len(s)
  BY <1>3, <1>4
<1> HIDE DEF j
<1>6. Replay(SubSeq(s, 1, j)) \in Store
  BY <1>2, <1>5
<1>7. s[i] \in Mutation
  BY <1>5
<1>8. Replay(SubSeq(s, 1, j)).applied + 1 \in Nat
  BY <1>6 DEF Store
<1>9. Replay(SubSeq(s, 1, i)) = apply(Replay(SubSeq(s, 1, j)), Replay(SubSeq(s, 1, j)).applied + 1, s[i])
  BY <1>5, ReplayStep
<1> QED
  BY <1>3, <1>6, <1>7, <1>8, <1>9, ApplyStore

\* What a longer prefix leaves is an advance over what a shorter one leaves.
LEMMA ReplayAdvances ==
    ASSUME NEW s \in Seq(Mutation), NEW k \in 0..Len(s), NEW l \in 0..Len(s), k <= l
    PROVE  Advances(Replay(SubSeq(s, 1, k)), Replay(SubSeq(s, 1, l)))
<1> DEFINE At(i) == Replay(SubSeq(s, 1, i))
           Bad == {i \in k..Len(s) : ~ Advances(At(k), At(i))}
<1>0. \A i \in 0..Len(s) : At(i) \in Store
  BY ReplayStore
<1> SUFFICES ASSUME Bad # {} PROVE FALSE
  OBVIOUS
<1>1. Bad \in SUBSET Nat
  OBVIOUS
<1> DEFINE i == Min(Bad)
<1>2. i \in Bad /\ \A y \in Bad : i <= y
  <2> HIDE DEF Bad
  <2> QED
    BY <1>1, MinIs
<1> HIDE DEF i
<1>3. i \in k..Len(s) /\ ~ Advances(At(k), At(i)) /\ Len(s) \in Nat
  BY <1>2
<1>4. i # k
  <2> HIDE DEF At
  <2> QED
    BY <1>0, <1>3, AdvancesStays
<1> DEFINE j == i - 1
<1>5. j \in k..Len(s) /\ j \in 0..Len(s) /\ j \in Nat /\ j + 1 = i /\ j + 1 <= Len(s) /\ ~ (i <= j)
      /\ i \in 1..Len(s) /\ i \in 0..Len(s)
  BY <1>3, <1>4
<1> HIDE DEF j
<1>6. Advances(At(k), At(j))
  <2> HIDE DEF At
  <2> QED
    BY <1>2, <1>5
<1>7. s[i] \in Mutation
  BY <1>5
<1>8. At(i) = apply(At(j), At(j).applied + 1, s[i])
  BY <1>5, ReplayStep
<1> HIDE DEF At
<1>9. At(j).applied + 1 \in Nat
  <2>1. At(j) \in Store
    BY <1>0, <1>5
  <2>2. At(j).applied \in Nat
    BY <2>1 DEF Store
  <2> QED
    BY <2>2
<1>10. Advances(At(j), At(i))
  BY <1>0, <1>5, <1>7, <1>8, <1>9, ApplyAdvances
<1> QED
  BY <1>0, <1>3, <1>5, <1>6, <1>10, AdvancesCompose

-----------------------------------------------------------------------------
(* The inductive invariant *)

Requests == [op : {"none", "mutate", "query"}, seq : Nat, intent : Intent, min : Nat]

\* The handlers before, in and after the critical section, and of queries.
Arrived == [at : {"sent", "queued"}, live : BOOLEAN, client : Clients, node : Node,
            op : {"none", "mutate", "query"}, seq : Nat, intent : Intent, min : Nat]
Evaluating == [at : {"evaluating"}, live : BOOLEAN, client : Clients, node : Node,
               seq : Nat, intent : Intent, seen : Nat]
Awaiting == [at : {"awaiting"}, live : BOOLEAN, client : Clients, node : Node,
             status : {"Committed", "Vetoed"}, index : Nat, in_term : Nat]
Querying == [at : {"probing", "fencing", "reading"}, live : BOOLEAN, client : Clients,
             node : Node, min : Nat, horizon : Nat, epoch : Nat, in_term : Nat,
             newest : BOOLEAN, quiet : BOOLEAN]

ReplicaTypes ==
    /\ chosen \in Seq(Mutation)
    /\ log \in [Node -> Seq(Entry)]
    /\ committed \in [Node -> Nat]
    /\ leading \in [Node -> Nat]
    /\ term \in Nat
    /\ store \in [Node -> Store]
    /\ covered \in [Node -> Nat]

HandlerTypes == handlers \in [Slots -> {Free} \cup Arrived \cup Evaluating \cup Awaiting \cup Querying]

ProbeTypes ==
    /\ current_read_epoch \in [Node -> Nat]
    /\ confirmed_read_epoch \in [Node -> Nat]
    /\ acks_in_flight \in [Node -> BOOLEAN]

ClientTypes ==
    /\ saved \in [Clients -> 0..MaxSequence]
    /\ wal \in [Clients -> Tables(Nat, Intent)]
    /\ point \in [Clients -> Points]
    /\ current \in [Clients -> Requests]
    /\ retry_count \in [Clients -> 0..max_retries]
    /\ recovering \in [Clients -> BOOLEAN]

\* Sequence numbers in use have been assigned.
SequenceInv ==
    \A c \in Clients :
        /\ DOMAIN wal[c] \subseteq 1..saved[c]
        /\ point[c] = "assigned" => current[c].op = "mutate" /\ current[c].seq \in 1..saved[c]

\* A client that waits has at most one handler that would answer it.
LiveInv ==
    /\ \A h \in Busy : handlers[h].live => point[handlers[h].client] = "waiting"
    /\ \A g, h \in Busy :
        handlers[g].live /\ handlers[h].live /\ handlers[g].client = handlers[h].client => g = h

\* At most one node leads in a term.
LeaderInv ==
    /\ \A n \in Node : leading[n] <= term
    /\ \A n, p \in Node : leading[n] = leading[p] /\ leading[n] # 0 => n = p

\* What a node has committed is chosen, and the newest leader has all that is.
Holds(ch, lg, k) == k <= Len(ch) /\ k <= Len(lg) /\ \A i \in 1..k : lg[i].m = ch[i]

ChoiceInv ==
    /\ \A n \in Node : Holds(chosen, log[n], committed[n])
    /\ \A n \in Node : Newest(n) => Holds(chosen, log[n], Len(chosen))

\* How far stores are: a restored one may reflect more than its label says.
ProgressInv ==
    \A n \in Node :
        /\ store[n].applied <= covered[n] /\ store[n].applied <= committed[n]
        /\ covered[n] <= Len(chosen)

\* Mutation q of client c is the first, or the one before is in ch[1..k].
Follows(ch, c, q, k) ==
    /\ q >= 1
    /\ q > 1 => \E i \in 1..k : ch[i].client = c /\ ch[i].seq = q - 1

\* Nothing gets past the firewall before its predecessor is chosen.
OrderInv ==
    /\ \A h \in Slots : handlers[h].at \in {"queued", "evaluating"} =>
            Follows(chosen, handlers[h].client, handlers[h].seq, Len(chosen))
    /\ \A n \in Node : \A i \in 1..Len(log[n]) :
            Follows(chosen, log[n][i].m.client, log[n][i].m.seq, Len(chosen))
    /\ \A i \in 1..Len(chosen) : Follows(chosen, chosen[i].client, chosen[i].seq, i - 1)

\* A store has recorded for each client the highest sequence number it covers.
SessionInv ==
    \A n \in Node :
        /\ ~ store[n].poisoned
        /\ \A i \in 1..covered[n] : chosen[i].seq <= Latest(store[n], chosen[i].client)
        /\ \A c \in Clients : Latest(store[n], c) # 0 =>
                \E i \in 1..covered[n] : chosen[i].client = c /\ chosen[i].seq = Latest(store[n], c)

\* Somewhere there is a deletion (d), or an addition, with number s of client c.
Carried(c, s, d) ==
    \/ current[c].op = "mutate" /\ current[c].seq = s /\ (d <=> current[c].intent = "delete")
    \/ s \in DOMAIN wal[c] /\ (d <=> wal[c][s] = "delete")
    \/ \E h \in Slots :
        /\ \/ handlers[h].at = "sent" /\ handlers[h].op = "mutate"
           \/ handlers[h].at \in {"queued", "evaluating"}
        /\ handlers[h].client = c /\ handlers[h].seq = s
        /\ d <=> handlers[h].intent = "delete"
    \/ \E n \in Node : \E i \in 1..Len(log[n]) :
        log[n][i].m.client = c /\ log[n][i].m.seq = s /\ (d <=> log[n][i].m.is_delete)
    \/ \E i \in 1..Len(chosen) :
        chosen[i].client = c /\ chosen[i].seq = s /\ (d <=> chosen[i].is_delete)

\* Whatever is under way with a sequence number stems from one command.
IntentInv ==
    /\ \A c \in Clients, s \in Nat, d \in BOOLEAN : Carried(c, s, d) => s <= saved[c]
    /\ \A c \in Clients, s \in Nat : ~ (Carried(c, s, TRUE) /\ Carried(c, s, FALSE))

\* A query past its fence reads a store that has applied what it asked for.
FenceInv ==
    \A h \in Slots : handlers[h].at = "reading" => store[handlers[h].node].applied >= handlers[h].min

\* A quiet probe on a leader that was not the newest hangs: no quorum answers.
Hangs(r) ==
    /\ r.at = "probing" /\ r.in_term # 0 /\ r.in_term < term
    /\ leading[r.node] = r.in_term =>
        /\ confirmed_read_epoch[r.node] < r.epoch
        /\ r.epoch = current_read_epoch[r.node]
        /\ ~ acks_in_flight[r.node]

ProbeInv ==
    \A h \in Slots : handlers[h].at \in {"probing", "fencing", "reading"} =>
        ~ handlers[h].quiet \/ handlers[h].newest \/ Hangs(handlers[h])

-----------------------------------------------------------------------------
(* The clients *)

\* The write-ahead log after an append is one.
LEMMA WalAppend ==
    ASSUME NEW w \in Tables(Nat, Intent), NEW s \in Nat, NEW i \in Intent
    PROVE  wal_append(w, s, i) \in Tables(Nat, Intent)
<1>1. DOMAIN w \cup {s} \in SUBSET Nat /\ \A t \in DOMAIN w : w[t] \in Intent
  BY TableHas
<1>2. wal_append(w, s, i) \in [DOMAIN w \cup {s} -> Intent]
  BY <1>1 DEF wal_append
<1> QED
  BY <1>1, <1>2 DEF Tables

\* The write-ahead log after a removal is one.
LEMMA WalRemove ==
    ASSUME NEW w \in Tables(Nat, Intent), NEW s
    PROVE  wal_remove(w, s) \in Tables(Nat, Intent)
<1>1. DOMAIN w \ {s} \in SUBSET Nat /\ \A t \in DOMAIN w : w[t] \in Intent
  BY TableHas
<1>2. wal_remove(w, s) \in [DOMAIN w \ {s} -> Intent]
  BY <1>1 DEF wal_remove
<1> QED
  BY <1>1, <1>2 DEF Tables

\* Recovery starts with a command the write-ahead log holds.
LEMMA RecoverIs ==
    ASSUME NEW w \in Tables(Nat, Intent), DOMAIN w # {}
    PROVE  /\ recover(w) \in Requests /\ recover(w).op = "mutate"
           /\ recover(w).seq \in DOMAIN w /\ recover(w).intent = w[recover(w).seq]
<1>1. DOMAIN w \in SUBSET Nat /\ \A t \in DOMAIN w : w[t] \in Intent
  BY TableHas
<1> DEFINE s == Min(DOMAIN w)
<1>2. s \in DOMAIN w
  BY <1>1, MinIs
<1> HIDE DEF s
<1>3. s \in Nat /\ w[s] \in Intent
  BY <1>1, <1>2
<1>4. recover(w) = [op |-> "mutate", seq |-> s, intent |-> w[s], min |-> 0]
  BY DEF recover, mutation, s
<1> QED
  BY <1>2, <1>3, <1>4 DEF Requests

\* What a client's step leaves of its request and its write-ahead log: a new
\* number, the log gets the request, or both shrink to what the log held.
ClientStep(c) ==
    \/ \E i \in Intents :
        /\ point[c] = "prompt"
        /\ saved' = [saved EXCEPT ![c] = saved[c] + 1] /\ saved[c] < MaxSequence
        /\ current' = [current EXCEPT ![c] = mutation(saved[c] + 1, i)]
        /\ point' = [point EXCEPT ![c] = "assigned"]
        /\ retry_count' = [retry_count EXCEPT ![c] = 0]
        /\ UNCHANGED <<wal, recovering>>
    \/ /\ point[c] = "assigned"
       /\ wal' = [wal EXCEPT ![c] = wal_append(wal[c], current[c].seq, current[c].intent)]
       /\ point' = [point EXCEPT ![c] = "sending"]
       /\ UNCHANGED <<saved, current, retry_count, recovering>>
    \/ /\ UNCHANGED saved
       /\ wal' = wal \/ wal' = [wal EXCEPT ![c] = wal_remove(wal[c], current[c].seq)]
       /\ \E r \in Requests : current' = [current EXCEPT ![c] = r] /\
            \/ r = current[c]
            \/ r.op # "mutate"
            \/ r.op = "mutate" /\ r.seq \in DOMAIN wal[c] /\ r.intent = wal[c][r.seq]
       /\ \E p \in Points \ {"assigned"} : point' = [point EXCEPT ![c] = p]
       /\ \E k \in 0..max_retries : retry_count' = [retry_count EXCEPT ![c] = k]
       /\ \E b \in BOOLEAN : recovering' = [recovering EXCEPT ![c] = b]

\* The operations of Client that take such a step.
LEMMA IdleRequests ==
    /\ Idle \in Requests /\ Idle.op # "mutate"
    /\ \A v \in Nat : query(v) \in Requests /\ query(v).op # "mutate"
    /\ 0 \in 0..max_retries
BY RetriesAssumption DEF Idle, query, Requests, Intent

\* Executing another request.
LEMMA ExecuteSteps ==
    ASSUME ClientTypes, NEW c \in Clients, NEW r \in Requests, NEW p \in Points \ {"assigned"},
           Execute(c, r, p), UNCHANGED saved,
           wal' = wal \/ wal' = [wal EXCEPT ![c] = wal_remove(wal[c], current[c].seq)],
           NEW b \in BOOLEAN, recovering' = [recovering EXCEPT ![c] = b],
           r.op # "mutate" \/ (r.op = "mutate" /\ r.seq \in DOMAIN wal[c] /\ r.intent = wal[c][r.seq])
    PROVE  ClientStep(c)
BY IdleRequests DEF Execute, ClientStep

\* Leaving the recovery flag alone.
LEMMA SameFlag ==
    ASSUME ClientTypes, NEW c \in Clients, UNCHANGED recovering
    PROVE  recovering[c] \in BOOLEAN /\ recovering' = [recovering EXCEPT ![c] = recovering[c]]
BY DEF ClientTypes

\* A command that ends in an error.
LEMMA FailSteps ==
    ASSUME ClientTypes, NEW c \in Clients, Fail(c), UNCHANGED disk
    PROVE  ClientStep(c)
<1>1. (IF recovering[c] THEN "down" ELSE "prompt") \in Points \ {"assigned"}
  BY DEF Points
<1> QED
  BY <1>1, IdleRequests DEF Fail, disk, ClientStep

\* A command that ends well, and the next intent during recovery.
LEMMA ContinueSteps ==
    ASSUME ClientTypes, NEW c \in Clients, NEW w, Continue(c, w), UNCHANGED saved,
           wal' = [wal EXCEPT ![c] = w],
           w = wal[c] \/ w = wal_remove(wal[c], current[c].seq)
    PROVE  ClientStep(c)
<1>1. wal[c] \in Tables(Nat, Intent) /\ wal = [wal EXCEPT ![c] = wal[c]]
  BY DEF ClientTypes
<1>2. w \in Tables(Nat, Intent) /\ DOMAIN w \subseteq DOMAIN wal[c] /\ \A t \in DOMAIN w : w[t] = wal[c][t]
  <2> DEFINE s == current[c].seq
             x == wal[c]
  <2> HIDE DEF s, x
  <2>1. x \in Tables(Nat, Intent) /\ (w = x \/ w = wal_remove(x, s))
    BY <1>1 DEF s, x
  <2>2. CASE w = x
    BY <2>1, <2>2 DEF x
  <2>3. CASE w = wal_remove(x, s)
    <3>1. DOMAIN w = DOMAIN x \ {s} /\ \A t \in DOMAIN w : w[t] = x[t]
      BY <2>3 DEF wal_remove
    <3> QED
      BY <2>1, <2>3, <3>1, WalRemove DEF x
  <2> QED
    BY <2>1, <2>2, <2>3
<1>3. wal' = wal \/ wal' = [wal EXCEPT ![c] = wal_remove(wal[c], current[c].seq)]
  BY <1>1
<1>4. CASE recovering[c] /\ DOMAIN w # {}
  <2>1. Execute(c, recover(w), "sending") /\ UNCHANGED recovering
    BY <1>4 DEF Continue
  <2>2. /\ recover(w) \in Requests /\ recover(w).op = "mutate"
        /\ recover(w).seq \in DOMAIN w /\ recover(w).intent = w[recover(w).seq]
    BY <1>2, <1>4, RecoverIs
  <2>3. recover(w).seq \in DOMAIN wal[c] /\ recover(w).intent = wal[c][recover(w).seq]
    BY <1>2, <2>2
  <2>4. "sending" \in Points \ {"assigned"}
    BY DEF Points
  <2> QED
    BY <1>3, <2>1, <2>2, <2>3, <2>4, SameFlag, ExecuteSteps
<1>5. CASE ~ (recovering[c] /\ DOMAIN w # {})
  <2>1. Execute(c, Idle, "prompt") /\ recovering' = [recovering EXCEPT ![c] = FALSE]
    BY <1>5 DEF Continue
  <2>2. "prompt" \in Points \ {"assigned"}
    BY DEF Points
  <2> QED
    BY <1>3, <2>1, <2>2, IdleRequests, ExecuteSteps
<1> QED
  BY <1>4, <1>5

\* Every operation of a client takes such a step.
LEMMA ClientSteps ==
    ASSUME ClientTypes, SequenceInv, NEW c \in Clients
    PROVE  /\ \A i \in Intents : next_sequence_id(c, i) => ClientStep(c)
           /\ append(c) => ClientStep(c)
           /\ \A v \in Nat : query_state(c, v) => ClientStep(c)
           /\ GiveUp(c) => ClientStep(c)
           /\ restart(c) => ClientStep(c)
           /\ send(c) => ClientStep(c)
           /\ \A answer : receive(c, answer, None) => ClientStep(c)
           /\ ClientCrash(c) => ClientStep(c)
<1>0. /\ "sending" \in Points \ {"assigned"} /\ "prompt" \in Points \ {"assigned"}
      /\ "down" \in Points \ {"assigned"} /\ "waiting" \in Points \ {"assigned"}
  BY DEF Points
<1>1. ASSUME NEW i \in Intents, next_sequence_id(c, i) PROVE ClientStep(c)
  BY <1>1 DEF next_sequence_id, save_sequence, Execute, ClientStep
<1>2. ASSUME append(c) PROVE ClientStep(c)
  BY <1>2 DEF append, ClientStep, ClientTypes
<1>3. ASSUME NEW v \in Nat, query_state(c, v) PROVE ClientStep(c)
  <2>1. Execute(c, query(v), "sending") /\ UNCHANGED <<saved, wal, recovering>>
    BY <1>3 DEF query_state, disk
  <2> QED
    BY <1>0, <2>1, IdleRequests, SameFlag, ExecuteSteps
<1>4. ASSUME GiveUp(c) PROVE ClientStep(c)
  BY <1>4, FailSteps DEF GiveUp
<1>5. ASSUME restart(c) PROVE ClientStep(c)
  <2>1. UNCHANGED <<saved, wal>> /\ wal[c] \in Tables(Nat, Intent)
    BY <1>5 DEF restart, ClientTypes
  <2>2. CASE DOMAIN wal[c] = {}
    <3>1. Execute(c, Idle, "prompt") /\ UNCHANGED recovering
      BY <1>5, <2>2 DEF restart
    <3> QED
      BY <1>0, <2>1, <3>1, IdleRequests, SameFlag, ExecuteSteps
  <2>3. CASE DOMAIN wal[c] # {}
    <3>1. Execute(c, recover(wal[c]), "sending") /\ recovering' = [recovering EXCEPT ![c] = TRUE]
      BY <1>5, <2>3 DEF restart
    <3>2. /\ recover(wal[c]) \in Requests /\ recover(wal[c]).op = "mutate"
          /\ recover(wal[c]).seq \in DOMAIN wal[c] /\ recover(wal[c]).intent = wal[c][recover(wal[c]).seq]
      BY <2>1, <2>3, RecoverIs
    <3> QED
      BY <1>0, <2>1, <3>1, <3>2, ExecuteSteps
  <2> QED
    BY <2>2, <2>3
<1>6. ASSUME send(c) PROVE ClientStep(c)
  <2>1. /\ UNCHANGED <<saved, wal, current, recovering>>
        /\ retry_count' = [retry_count EXCEPT ![c] = retry_count[c] + 1] /\ retry_count[c] < max_retries
        /\ point' = [point EXCEPT ![c] = "waiting"]
    BY <1>6 DEF send, disk
  <2>2. retry_count[c] + 1 \in 0..max_retries
    BY <2>1, RetriesAssumption DEF ClientTypes
  <2>3. current[c] \in Requests /\ current' = [current EXCEPT ![c] = current[c]]
    BY <2>1 DEF ClientTypes
  <2> QED
    BY <1>0, <2>1, <2>2, <2>3, SameFlag DEF ClientStep
<1>7. ASSUME NEW answer, receive(c, answer, None) PROVE ClientStep(c)
  <2>1. ASSUME reconcile_routing_failure(c, answer.hint, None) PROVE ClientStep(c)
    <3>1. UNCHANGED <<saved, wal, current, retry_count, recovering>> /\ point' = [point EXCEPT ![c] = "sending"]
      BY <2>1 DEF reconcile_routing_failure
    <3>2. /\ current[c] \in Requests /\ current' = [current EXCEPT ![c] = current[c]]
          /\ retry_count[c] \in 0..max_retries /\ retry_count' = [retry_count EXCEPT ![c] = retry_count[c]]
      BY <3>1 DEF ClientTypes
    <3> QED
      BY <1>0, <3>1, <3>2, SameFlag DEF ClientStep
  <2>2. ASSUME Fail(c), UNCHANGED disk PROVE ClientStep(c)
    BY <2>2, FailSteps
  <2>3. ASSUME Execute(c, Idle, "prompt"), UNCHANGED <<disk, recovering>> PROVE ClientStep(c)
    <3>1. UNCHANGED <<saved, wal, recovering>>
      BY <2>3 DEF disk
    <3> QED
      BY <1>0, <2>3, <3>1, IdleRequests, SameFlag, ExecuteSteps
  <2>4. ASSUME execute_mutation(c, answer) PROVE ClientStep(c)
    <3> DEFINE w == IF terminal(answer.status) THEN wal_remove(wal[c], current[c].seq) ELSE wal[c]
    <3>1. wal' = [wal EXCEPT ![c] = w] /\ Continue(c, w) /\ UNCHANGED saved
      BY <2>4 DEF execute_mutation
    <3>2. w = wal[c] \/ w = wal_remove(wal[c], current[c].seq)
      OBVIOUS
    <3> HIDE DEF w
    <3> QED
      BY <3>1, <3>2, ContinueSteps
  <2>5. CASE answer.status \in {"Rejected", "Transient"}
    BY <1>7, <2>1, <2>5 DEF receive
  <2>6. CASE answer.status = "Invalid"
    BY <1>7, <2>2, <2>6 DEF receive
  <2>7. CASE answer.status = "Items"
    BY <1>7, <2>3, <2>7 DEF receive
  <2>8. CASE answer.status \notin {"Rejected", "Transient", "Invalid", "Items"}
    BY <1>7, <2>4, <2>8 DEF receive
  <2> QED
    BY <2>5, <2>6, <2>7, <2>8
<1>8. ASSUME ClientCrash(c) PROVE ClientStep(c)
  <2>1. Execute(c, Idle, "down") /\ recovering' = [recovering EXCEPT ![c] = FALSE] /\ UNCHANGED <<saved, wal>>
    BY <1>8 DEF ClientCrash, disk
  <2> QED
    BY <1>0, <2>1, IdleRequests, ExecuteSteps
<1> QED
  BY <1>1, <1>2, <1>3, <1>4, <1>5, <1>6, <1>7, <1>8

\* Such a step keeps the types, and uses assigned numbers only.
LEMMA ClientStepKeeps ==
    ASSUME ClientTypes, SequenceInv, NEW c \in Clients, ClientStep(c)
    PROVE  ClientTypes' /\ SequenceInv'
<1>1. /\ saved[c] \in Nat /\ wal[c] \in Tables(Nat, Intent) /\ current[c] \in Requests
      /\ current[c].seq \in Nat /\ current[c].intent \in Intent /\ \A e \in Clients : saved[e] \in Nat
  BY LedgerAssumption DEF ClientTypes, Requests
<1>2. ASSUME NEW i \in Intents,
             point[c] = "prompt",
             saved' = [saved EXCEPT ![c] = saved[c] + 1], saved[c] < MaxSequence,
             current' = [current EXCEPT ![c] = mutation(saved[c] + 1, i)],
             point' = [point EXCEPT ![c] = "assigned"],
             retry_count' = [retry_count EXCEPT ![c] = 0],
             UNCHANGED <<wal, recovering>>
      PROVE  ClientTypes' /\ SequenceInv'
  <2>1. /\ mutation(saved[c] + 1, i) \in Requests /\ mutation(saved[c] + 1, i).op = "mutate"
        /\ mutation(saved[c] + 1, i).seq = saved[c] + 1
    BY <1>1 DEF mutation, Requests, Intent
  <2>2. saved[c] + 1 \in 0..MaxSequence /\ saved[c] + 1 \in 1..(saved[c] + 1) /\ "assigned" \in Points
    BY <1>1, <1>2, LedgerAssumption DEF Points
  <2>3. ClientTypes'
    BY <1>2, <2>1, <2>2, IdleRequests DEF ClientTypes
  <2>4. ASSUME NEW e \in Clients
        PROVE  /\ DOMAIN wal[e] \subseteq 1..saved'[e]
               /\ point'[e] = "assigned" => current'[e].op = "mutate" /\ current'[e].seq \in 1..saved'[e]
    <3>1. CASE e = c
      <4>1. saved'[c] = saved[c] + 1 /\ current'[c] = mutation(saved[c] + 1, i)
        BY <1>2 DEF ClientTypes
      <4>2. DOMAIN wal[c] \subseteq 1..(saved[c] + 1)
        BY <1>1 DEF SequenceInv
      <4> QED
        BY <2>1, <2>2, <3>1, <4>1, <4>2
    <3>2. CASE e # c
      <4>1. saved'[e] = saved[e] /\ current'[e] = current[e] /\ point'[e] = point[e]
        BY <1>2, <3>2 DEF ClientTypes
      <4> QED
        BY <4>1 DEF SequenceInv
    <3> QED
      BY <3>1, <3>2
  <2> QED
    BY <1>2, <2>3, <2>4 DEF SequenceInv
<1>3. ASSUME point[c] = "assigned",
             wal' = [wal EXCEPT ![c] = wal_append(wal[c], current[c].seq, current[c].intent)],
             point' = [point EXCEPT ![c] = "sending"],
             UNCHANGED <<saved, current, retry_count, recovering>>
      PROVE  ClientTypes' /\ SequenceInv'
  <2> DEFINE w == wal_append(wal[c], current[c].seq, current[c].intent)
  <2>1. w \in Tables(Nat, Intent) /\ DOMAIN w = DOMAIN wal[c] \cup {current[c].seq}
    <3>1. DOMAIN w = DOMAIN wal[c] \cup {current[c].seq}
      BY DEF wal_append
    <3> QED
      BY <1>1, <3>1, WalAppend
  <2>2. DOMAIN w \subseteq 1..saved[c] /\ "sending" \in Points /\ "sending" # "assigned"
    BY <1>3, <2>1 DEF SequenceInv, Points
  <2> HIDE DEF w
  <2>3. wal' = [wal EXCEPT ![c] = w]
    BY <1>3 DEF w
  <2> QED
    BY <1>3, <2>1, <2>2, <2>3 DEF ClientTypes, SequenceInv
<1>4. ASSUME UNCHANGED saved,
             wal' = wal \/ wal' = [wal EXCEPT ![c] = wal_remove(wal[c], current[c].seq)],
             NEW r \in Requests, current' = [current EXCEPT ![c] = r],
             NEW p \in Points \ {"assigned"}, point' = [point EXCEPT ![c] = p],
             NEW k \in 0..max_retries, retry_count' = [retry_count EXCEPT ![c] = k],
             NEW b \in BOOLEAN, recovering' = [recovering EXCEPT ![c] = b]
      PROVE  ClientTypes' /\ SequenceInv'
  <2>1. PICK w \in Tables(Nat, Intent) : DOMAIN w \subseteq DOMAIN wal[c] /\ wal' = [wal EXCEPT ![c] = w]
    <3>1. CASE wal' = wal
      <4>1. wal' = [wal EXCEPT ![c] = wal[c]]
        BY <3>1 DEF ClientTypes
      <4> QED
        BY <1>1, <4>1
    <3>2. CASE wal' = [wal EXCEPT ![c] = wal_remove(wal[c], current[c].seq)]
      <4>1. /\ wal_remove(wal[c], current[c].seq) \in Tables(Nat, Intent)
            /\ DOMAIN wal_remove(wal[c], current[c].seq) \subseteq DOMAIN wal[c]
        <5>1. DOMAIN wal_remove(wal[c], current[c].seq) = DOMAIN wal[c] \ {current[c].seq}
          BY DEF wal_remove
        <5> QED
          BY <1>1, <5>1, WalRemove
      <4> QED
        BY <3>2, <4>1
    <3> QED
      BY <1>4, <3>1, <3>2
  <2>2. ClientTypes'
    BY <1>4, <2>1 DEF ClientTypes
  <2>3. ASSUME NEW e \in Clients
        PROVE  /\ DOMAIN wal'[e] \subseteq 1..saved[e]
               /\ point'[e] = "assigned" => current'[e].op = "mutate" /\ current'[e].seq \in 1..saved[e]
    BY <1>4, <2>1 DEF ClientTypes, SequenceInv
  <2> QED
    BY <1>4, <2>2, <2>3 DEF SequenceInv
<1> QED
  BY <1>2, <1>3, <1>4 DEF ClientStep

-----------------------------------------------------------------------------
(* The replicas *)

\* The mutations of a log, entry by entry.
LEMMA MutationsIs ==
    ASSUME NEW lg \in Seq(Entry)
    PROVE  /\ Mutations(lg) \in Seq(Mutation) /\ Len(Mutations(lg)) = Len(lg)
           /\ \A i \in 1..Len(lg) : Mutations(lg)[i] = lg[i].m
<1>1. Len(lg) \in Nat /\ \A i \in 1..Len(lg) : lg[i] \in Entry
  OBVIOUS
<1>2. \A i \in 1..Len(lg) : lg[i].m \in Mutation
  BY <1>1 DEF Entry
<1>3. Mutations(lg) \in [1..Len(lg) -> Mutation] /\ \A i \in 1..Len(lg) : Mutations(lg)[i] = lg[i].m
  BY <1>2 DEF Mutations
<1>4. Mutations(lg) \in Seq(Mutation) /\ Len(Mutations(lg)) = Len(lg)
  BY <1>1, <1>3, IsASeq, LenProperties
<1> QED
  BY <1>3, <1>4

\* Prefixes, said entry by entry.
LEMMA PrefixIs ==
    ASSUME NEW T, NEW s \in Seq(T), NEW t \in Seq(T)
    PROVE  IsPrefix(s, t) <=> Len(s) <= Len(t) /\ \A i \in 1..Len(s) : s[i] = t[i]
<1>1. Len(s) \in Nat /\ Len(t) \in Nat
  OBVIOUS
<1>2. ASSUME Len(s) <= Len(t)
      PROVE  SubSeq(s, 1, Len(s)) = SubSeq(t, 1, Len(s)) <=> \A i \in 1..Len(s) : s[i] = t[i]
  <2> DEFINE a == SubSeq(s, 1, Len(s))
             b == SubSeq(t, 1, Len(s))
             n == Len(s)
  <2>1. a \in Seq(T) /\ Len(a) = n /\ \A i \in 1..n : a[i] = s[i]
    BY <1>1, PrefixOf
  <2>2. b \in Seq(T) /\ Len(b) = n /\ \A i \in 1..n : b[i] = t[i]
    BY <1>1, <1>2, PrefixOf
  <2> HIDE DEF a, b, n
  <2>3. a = b => \A i \in 1..n : s[i] = t[i]
    BY <2>1, <2>2
  <2>4. ASSUME \A i \in 1..n : s[i] = t[i] PROVE a = b
    <3>1. \A i \in 1..n : a[i] = b[i]
      BY <2>1, <2>2, <2>4
    <3> QED
      BY <2>1, <2>2, <3>1, SeqEqual
  <2>5. a = b <=> \A i \in 1..n : s[i] = t[i]
    BY <2>3, <2>4
  <2> QED
    BY <2>5 DEF a, b, n
<1> QED
  BY <1>2 DEF IsPrefix

\* A log that begins with what is chosen, or is part of it, holds it.
LEMMA PrefixHolds ==
    ASSUME NEW ch \in Seq(Mutation), NEW lg \in Seq(Entry)
    PROVE  /\ IsPrefix(ch, Mutations(lg)) => Holds(ch, lg, Len(ch))
           /\ IsPrefix(Mutations(lg), ch) => Holds(ch, lg, Len(lg))
<1> DEFINE ms == Mutations(lg)
<1>1. ms \in Seq(Mutation) /\ Len(ms) = Len(lg) /\ \A i \in 1..Len(lg) : ms[i] = lg[i].m
  BY MutationsIs
<1>2. Len(lg) \in Nat /\ Len(ch) \in Nat
  OBVIOUS
<1> HIDE DEF ms
<1>3. ASSUME IsPrefix(ch, ms) PROVE Holds(ch, lg, Len(ch))
  <2>1. Len(ch) <= Len(ms) /\ \A i \in 1..Len(ch) : ch[i] = ms[i]
    BY <1>1, <1>3, PrefixIs
  <2> QED
    BY <1>1, <1>2, <2>1 DEF Holds
<1>4. ASSUME IsPrefix(ms, ch) PROVE Holds(ch, lg, Len(lg))
  <2>1. Len(ms) <= Len(ch) /\ \A i \in 1..Len(ms) : ms[i] = ch[i]
    BY <1>1, <1>4, PrefixIs
  <2> QED
    BY <1>1, <1>2, <2>1 DEF Holds
<1> QED
  BY <1>3, <1>4 DEF ms

\* A shorter part of it.
LEMMA HoldsLess ==
    ASSUME NEW ch, NEW lg, NEW k \in Nat, NEW j \in Nat, j <= k, Len(ch) \in Nat, Len(lg) \in Nat,
           Holds(ch, lg, k)
    PROVE  Holds(ch, lg, j)
BY DEF Holds

\* A node appends the mutation that a handler has evaluated.
Proposes(h, n, m) ==
    /\ handlers[h].at = "evaluating" /\ handlers[h].node = n /\ is_leader(n)
    /\ m.client = handlers[h].client /\ m.seq = handlers[h].seq
    /\ m.is_delete <=> handlers[h].intent = "delete"
    /\ log' = [log EXCEPT ![n] = Append(log[n], [term |-> leading[n], m |-> m])]
    /\ UNCHANGED <<chosen, committed, leading, term, store, covered>>

\* The steps that concern the replicas.
ReplicaStep ==
    \/ UNCHANGED <<raft, fsm>>
    \/ \E h \in Slots, n \in Node, m \in Mutation : Proposes(h, n, m)
    \/ ConsensusNext /\ UNCHANGED handlers

\* Every step of the system leaves the replicas alone, appends what a
\* handler evaluated, or is a step of the consensus.
LEMMA ReplicaSteps ==
    ASSUME HandlerTypes, [Next]_vars
    PROVE  ReplicaStep
<1>1. ASSUME NEW h \in Slots, HandleProposal(h)
      PROVE  \E n \in Node, m \in Mutation : Proposes(h, n, m)
  <2>1. handlers[h].at = "evaluating" /\ is_leader(handlers[h].node)
    BY <1>1 DEF HandleProposal, commit_to_consensus
  <2>2. handlers[h] \in Evaluating
    BY <2>1 DEF HandlerTypes, Free, Arrived, Awaiting, Querying
  <2>3. PICK status \in {"Committed", "Vetoed"} : propose(handlers[h].node, MutationFor(handlers[h], status))
    BY <1>1 DEF HandleProposal, commit_to_consensus
  <2> DEFINE r == handlers[h]
             m == MutationFor(r, status)
  <2>4. /\ r.client \in Clients /\ r.seq \in Nat /\ r.node \in Node /\ r.seen \in Nat
        /\ Clock[r.node] \in Nat
    BY <2>2, LedgerAssumption DEF Evaluating
  <2>5. /\ m \in Mutation /\ m.client = r.client /\ m.seq = r.seq
        /\ m.is_delete <=> r.intent = "delete"
    <3> DEFINE q == IF r.intent = "delete" THEN 0 ELSE r.seen + 1
               d == r.intent = "delete"
    <3>1. q \in Nat /\ d \in BOOLEAN
      BY <2>4
    <3>2. m = [client |-> r.client, seq |-> r.seq, status |-> status, key |-> Item,
               qty |-> q, is_delete |-> d, time |-> Clock[r.node]]
      BY DEF MutationFor
    <3> HIDE DEF q, d, m, r
    <3>3. m \in Mutation /\ m.client = r.client /\ m.seq = r.seq /\ m.is_delete = d
      BY <2>4, <3>1, <3>2 DEF Mutation
    <3>4. d <=> r.intent = "delete"
      BY DEF d
    <3> QED
      BY <3>1, <3>3, <3>4
  <2>6. /\ log' = [log EXCEPT ![r.node] = Append(log[r.node], [term |-> leading[r.node], m |-> m])]
        /\ UNCHANGED <<chosen, committed, leading, term, store, covered>>
    BY <1>1, <2>3 DEF propose, HandleProposal, fsm
  <2> HIDE DEF m
  <2>7. Proposes(h, r.node, m)
    BY <2>1, <2>5, <2>6 DEF Proposes
  <2> QED
    BY <2>4, <2>5, <2>7
<1>2. ASSUME UNCHANGED vars PROVE UNCHANGED <<raft, fsm>>
  BY <1>2 DEF vars
<1>3. ASSUME NEW c \in Clients, Command(c) \/ Timeout(c) \/ Crash(c) \/ \E n \in Node : Send(c, n)
      PROVE  UNCHANGED <<raft, fsm>>
  BY <1>3 DEF Command, Timeout, Crash, Send
<1>4. ASSUME NEW h \in Slots, Handle(h) \/ Reply(h) \/ Drop(h)
      PROVE  UNCHANGED <<raft, fsm>>
  BY <1>4 DEF Handle, Reply, Drop
<1>5. ASSUME Probe PROVE UNCHANGED <<raft, fsm>>
  BY <1>5 DEF Probe
<1>6. ASSUME Replicate PROVE ConsensusNext /\ UNCHANGED handlers
  BY <1>6 DEF Replicate
<1> QED
  BY <1>1, <1>2, <1>3, <1>4, <1>5, <1>6 DEF Next, ReplicaStep

ReplicaInv == ReplicaTypes /\ LeaderInv /\ ChoiceInv /\ ProgressInv

\* A longer log holds what it held.
LEMMA HoldsAppended ==
    ASSUME NEW ch, NEW lg \in Seq(Entry), NEW e \in Entry, NEW k \in Nat, Holds(ch, lg, k)
    PROVE  Append(lg, e) \in Seq(Entry) /\ Holds(ch, Append(lg, e), k)
<1>1. Append(lg, e) \in Seq(Entry) /\ Len(Append(lg, e)) = Len(lg) + 1 /\ Len(lg) \in Nat
      /\ \A i \in 1..Len(lg) : Append(lg, e)[i] = lg[i]
  BY AppendProperties
<1>2. k <= Len(lg)
  BY DEF Holds
<1>3. k <= Len(lg) + 1 /\ \A i \in 1..k : i \in 1..Len(lg)
  BY <1>1, <1>2
<1> HIDE DEF Holds
<1> QED
  BY <1>1, <1>3 DEF Holds

\* Appending to the log of a leader.
LEMMA ProposalKeeps ==
    ASSUME ReplicaInv, NEW h \in Slots, NEW n \in Node, NEW m \in Mutation, Proposes(h, n, m)
    PROVE  ReplicaInv'
<1> USE DEF ReplicaInv
<1>1. /\ log \in [Node -> Seq(Entry)] /\ log[n] \in Seq(Entry) /\ leading[n] \in Nat
      /\ Len(chosen) \in Nat /\ \A p \in Node : committed[p] \in Nat
  BY DEF ReplicaTypes
<1> DEFINE e == [term |-> leading[n], m |-> m]
           lg == Append(log[n], e)
<1>2. e \in Entry
  BY <1>1 DEF Entry
<1>3. log' = [log EXCEPT ![n] = lg] /\ UNCHANGED <<chosen, committed, leading, term, store, covered>>
  BY DEF Proposes
<1> HIDE DEF e
<1>4. /\ lg \in Seq(Entry)
      /\ \A k \in Nat : Holds(chosen, log[n], k) => Holds(chosen, lg, k)
  BY <1>1, <1>2, HoldsAppended, AppendProperties
<1> HIDE DEF lg
<1>5. \A p \in Node : log'[p] = IF p = n THEN lg ELSE log[p]
  BY <1>1, <1>3
<1>6. \A p \in Node, k \in Nat : Holds(chosen, log[p], k) => Holds(chosen, log'[p], k)
  BY <1>4, <1>5
<1>7. ReplicaTypes'
  BY <1>1, <1>3, <1>4 DEF ReplicaTypes
<1>8. LeaderInv' /\ ProgressInv'
  BY <1>3 DEF LeaderInv, ProgressInv
<1>9. ChoiceInv'
  BY <1>1, <1>3, <1>6 DEF ChoiceInv, Newest, is_leader
<1> QED
  BY <1>7, <1>8, <1>9

\* At most one node is the newest leader.
LEMMA NewestIsOne ==
    ASSUME LeaderInv, NEW n \in Node, NEW p \in Node, Newest(n), Newest(p)
    PROVE  n = p
BY DEF LeaderInv, Newest, is_leader

\* Only a node that has all that is chosen becomes leader.
LEMMA ElectionKeeps ==
    ASSUME ReplicaInv, NEW n \in Node, into_leader(n)
    PROVE  ReplicaInv'
<1> USE DEF ReplicaInv
<1>1. /\ leading \in [Node -> Nat] /\ term \in Nat /\ \A p \in Node : leading[p] \in Nat /\ leading[p] <= term
  BY DEF ReplicaTypes, LeaderInv
<1>2. /\ term' = term + 1 /\ leading' = [leading EXCEPT ![n] = term + 1]
      /\ IsPrefix(chosen, Mutations(log[n])) /\ UNCHANGED <<chosen, log, committed, store, covered>>
  BY DEF into_leader, fsm
<1>3. \A p \in Node : leading'[p] = IF p = n THEN term + 1 ELSE leading[p]
  BY <1>1, <1>2
<1>4. Holds(chosen, log[n], Len(chosen))
  BY <1>2, PrefixHolds DEF ReplicaTypes
<1>5. ReplicaTypes'
  BY <1>1, <1>2 DEF ReplicaTypes
<1>6. LeaderInv'
  BY <1>1, <1>2, <1>3 DEF LeaderInv
<1>7. ASSUME NEW p \in Node, leading'[p] = term' PROVE p = n
  BY <1>1, <1>2, <1>3, <1>7
<1>8. ChoiceInv'
  BY <1>2, <1>4, <1>7 DEF ChoiceInv, Newest, is_leader
<1>9. ProgressInv'
  BY <1>2 DEF ProgressInv
<1> QED
  BY <1>5, <1>6, <1>8, <1>9

\* A leader steps down.
LEMMA DemotionKeeps ==
    ASSUME ReplicaInv, NEW n \in Node, into_follower(n)
    PROVE  ReplicaInv'
<1> USE DEF ReplicaInv
<1>1. leading \in [Node -> Nat] /\ term \in Nat
  BY DEF ReplicaTypes
<1>2. /\ leading' = [leading EXCEPT ![n] = 0]
      /\ UNCHANGED <<chosen, log, committed, term, store, covered>>
  BY DEF into_follower, fsm
<1>3. \A p \in Node : leading'[p] = IF p = n THEN 0 ELSE leading[p]
  BY <1>1, <1>2
<1>4. ReplicaTypes'
  BY <1>1, <1>2 DEF ReplicaTypes
<1>5. LeaderInv'
  BY <1>1, <1>2, <1>3 DEF LeaderInv
<1>6. ChoiceInv'
  BY <1>2, <1>3 DEF ChoiceInv, Newest, is_leader
<1>7. ProgressInv'
  BY <1>2 DEF ProgressInv
<1> QED
  BY <1>4, <1>5, <1>6, <1>7

\* What is chosen is kept, and more is chosen.
LEMMA ChoiceGrows ==
    ASSUME ReplicaInv, NEW n \in Node, ReachQuorum(n)
    PROVE  /\ Newest(n) /\ chosen' \in Seq(Mutation) /\ Len(chosen') = Len(log[n]) /\ Len(chosen) < Len(chosen')
           /\ \A i \in 1..Len(chosen') : chosen'[i] = log[n][i].m
           /\ \A i \in 1..Len(chosen) : chosen'[i] = chosen[i]
           /\ UNCHANGED <<log, committed, leading, term, store, covered>>
<1> USE DEF ReplicaInv
<1>1. log[n] \in Seq(Entry) /\ chosen \in Seq(Mutation) /\ Len(log[n]) \in Nat /\ Len(chosen) \in Nat
  BY DEF ReplicaTypes
<1>2. /\ Newest(n) /\ Len(log[n]) > Len(chosen) /\ chosen' = Mutations(log[n])
      /\ UNCHANGED <<log, committed, leading, term, store, covered>>
  BY DEF ReachQuorum, fsm
<1>3. /\ chosen' \in Seq(Mutation) /\ Len(chosen') = Len(log[n])
      /\ \A i \in 1..Len(log[n]) : chosen'[i] = log[n][i].m
  BY <1>1, <1>2, MutationsIs
<1>4. \A i \in 1..Len(chosen) : i \in 1..Len(log[n]) /\ log[n][i].m = chosen[i]
  BY <1>1, <1>2 DEF ChoiceInv, Holds
<1> QED
  BY <1>1, <1>2, <1>3, <1>4

\* A quorum stores the log of the newest leader.
LEMMA ChoiceKeeps ==
    ASSUME ReplicaInv, NEW n \in Node, ReachQuorum(n)
    PROVE  ReplicaInv'
<1> USE DEF ReplicaInv
<1>1. /\ Newest(n) /\ chosen' \in Seq(Mutation) /\ Len(chosen') = Len(log[n]) /\ Len(chosen) < Len(chosen')
      /\ \A i \in 1..Len(chosen') : chosen'[i] = log[n][i].m
      /\ \A i \in 1..Len(chosen) : chosen'[i] = chosen[i]
      /\ UNCHANGED <<log, committed, leading, term, store, covered>>
  BY ChoiceGrows
<1>2. Len(chosen) \in Nat /\ Len(chosen') \in Nat /\ log[n] \in Seq(Entry) /\ \A p \in Node : committed[p] \in Nat
  BY <1>1 DEF ReplicaTypes
<1>3. ReplicaTypes'
  BY <1>1 DEF ReplicaTypes
<1>4. LeaderInv'
  BY <1>1 DEF LeaderInv
<1>5. ASSUME NEW p \in Node PROVE Holds(chosen', log[p], committed[p])
  <2>1. Holds(chosen, log[p], committed[p])
    BY DEF ChoiceInv
  <2>2. committed[p] <= Len(chosen') /\ \A i \in 1..committed[p] : i \in 1..Len(chosen)
    BY <1>1, <1>2, <2>1 DEF Holds
  <2> QED
    BY <1>1, <2>1, <2>2 DEF Holds
<1>6. Holds(chosen', log[n], Len(chosen'))
  BY <1>1, <1>2 DEF Holds
<1>7. ASSUME NEW p \in Node, Newest(p)' PROVE p = n
  <2>1. Newest(p)
    BY <1>1, <1>7 DEF Newest, is_leader
  <2> QED
    BY <1>1, <2>1, NewestIsOne
<1>8. ChoiceInv'
  BY <1>1, <1>5, <1>6, <1>7 DEF ChoiceInv
<1>9. ProgressInv'
  <2>1. \A p \in Node : covered[p] \in Nat
    BY DEF ReplicaTypes
  <2> QED
    BY <1>1, <1>2, <2>1 DEF ProgressInv
<1> QED
  BY <1>3, <1>4, <1>8, <1>9

\* A leader commits what its quorum has stored, even when it is not the newest.
LEMMA CommitKeeps ==
    ASSUME ReplicaInv, NEW n \in Node, update_commit_index(n)
    PROVE  ReplicaInv'
<1> USE DEF ReplicaInv
<1>1. /\ committed \in [Node -> Nat] /\ chosen \in Seq(Mutation) /\ log[n] \in Seq(Entry)
      /\ Len(log[n]) \in Nat /\ \A p \in Node : store[p].applied \in Nat
  BY DEF ReplicaTypes, Store
<1>2. /\ committed[n] < Len(log[n]) /\ IsPrefix(Mutations(log[n]), chosen)
      /\ committed' = [committed EXCEPT ![n] = Len(log[n])]
      /\ UNCHANGED <<chosen, log, leading, term, store, covered>>
  BY DEF update_commit_index, fsm, stored_by_quorum
<1>3. Holds(chosen, log[n], Len(log[n]))
  BY <1>1, <1>2, PrefixHolds
<1>4. \A p \in Node : committed'[p] = IF p = n THEN Len(log[n]) ELSE committed[p]
  BY <1>1, <1>2
<1>5. ReplicaTypes'
  BY <1>1, <1>2 DEF ReplicaTypes
<1>6. LeaderInv'
  BY <1>2 DEF LeaderInv
<1>7. ChoiceInv'
  BY <1>2, <1>3, <1>4 DEF ChoiceInv, Newest, is_leader
<1>8. ProgressInv'
  BY <1>1, <1>2, <1>4 DEF ProgressInv
<1> QED
  BY <1>5, <1>6, <1>7, <1>8

\* A follower takes over the log and the commit index of the newest leader.
LEMMA ReconcileKeeps ==
    ASSUME ReplicaInv, NEW n \in Node, NEW leader \in Node, reconcile_log(n, leader)
    PROVE  ReplicaInv'
<1> USE DEF ReplicaInv
<1> DEFINE k == IF committed[leader] > committed[n] THEN committed[leader] ELSE committed[n]
<1>1. /\ committed \in [Node -> Nat] /\ chosen \in Seq(Mutation) /\ log \in [Node -> Seq(Entry)]
      /\ Len(chosen) \in Nat /\ Len(log[leader]) \in Nat /\ committed[n] \in Nat /\ committed[leader] \in Nat
      /\ \A p \in Node : store[p].applied \in Nat
  BY DEF ReplicaTypes, Store
<1>2. /\ ~ is_leader(n) /\ Newest(leader)
      /\ log' = [log EXCEPT ![n] = log[leader]] /\ committed' = [committed EXCEPT ![n] = k]
      /\ UNCHANGED <<chosen, leading, term, store, covered>>
  BY DEF reconcile_log, fsm
<1>3. k \in Nat /\ k <= Len(chosen) /\ committed[n] <= k
  BY <1>1 DEF ChoiceInv, Holds
<1> HIDE DEF k
<1>4. Holds(chosen, log[leader], Len(chosen)) /\ Holds(chosen, log[leader], k)
  BY <1>1, <1>2, <1>3, HoldsLess DEF ChoiceInv
<1>5. \A p \in Node : /\ log'[p] = IF p = n THEN log[leader] ELSE log[p]
                      /\ committed'[p] = IF p = n THEN k ELSE committed[p]
  BY <1>1, <1>2
<1>6. ReplicaTypes'
  BY <1>1, <1>2, <1>3 DEF ReplicaTypes
<1>7. LeaderInv'
  BY <1>2 DEF LeaderInv
<1>8. ChoiceInv'
  <2>1. ASSUME NEW p \in Node PROVE Holds(chosen, log'[p], committed'[p])
    BY <1>4, <1>5 DEF ChoiceInv
  <2>2. ASSUME NEW p \in Node, Newest(p)' PROVE Holds(chosen, log'[p], Len(chosen))
    BY <1>2, <1>4, <1>5, <2>2 DEF ChoiceInv, Newest, is_leader
  <2> QED
    BY <1>2, <2>1, <2>2 DEF ChoiceInv
<1>9. ProgressInv'
  BY <1>1, <1>2, <1>3, <1>5 DEF ProgressInv
<1> QED
  BY <1>6, <1>7, <1>8, <1>9

-----------------------------------------------------------------------------
(* The stores *)

\* The parts of the stores have their types.
LEMMA StoreFields ==
    ASSUME ReplicaTypes, NEW n \in Node
    PROVE  /\ store[n] \in Store /\ store[n].applied \in Nat /\ covered[n] \in Nat
           /\ committed[n] \in Nat /\ Len(chosen) \in Nat
<1>1. store[n] \in Store /\ covered[n] \in Nat /\ committed[n] \in Nat /\ Len(chosen) \in Nat
  BY DEF ReplicaTypes
<1> QED
  BY <1>1 DEF Store

\* Node n applies its next entry, i, and nu is its store then.
Applies(n, i, nu) ==
    /\ i = store[n].applied + 1 /\ i \in 1..committed[n] /\ i \in 1..Len(chosen)
    /\ nu = apply(store[n], i, chosen[i])
    /\ store' = [store EXCEPT ![n] = nu]
    /\ covered' = [covered EXCEPT ![n] = IF i > covered[n] THEN i ELSE covered[n]]
    /\ UNCHANGED <<chosen, log, committed, leading, term>>

\* apply_committed applies the next chosen entry.
LEMMA ApplyIs ==
    ASSUME ReplicaInv, NEW n \in Node, apply_committed(n)
    PROVE  \E i \in Nat, nu \in Store : Applies(n, i, nu) /\ chosen[i] \in Mutation
<1> USE DEF ReplicaInv
<1>1. /\ store[n] \in Store /\ store[n].applied \in Nat /\ committed[n] \in Nat /\ Len(chosen) \in Nat
      /\ chosen \in Seq(Mutation)
  BY StoreFields DEF ReplicaTypes
<1> DEFINE i == store[n].applied + 1
<1>2. Holds(chosen, log[n], committed[n]) /\ store[n].applied < committed[n]
  BY DEF ChoiceInv, apply_committed
<1>3. i \in Nat /\ i \in 1..committed[n] /\ i \in 1..Len(chosen) /\ log[n][i].m = chosen[i]
  <2>1. i \in Nat /\ i \in 1..committed[n]
    BY <1>1, <1>2
  <2>2. committed[n] <= Len(chosen) /\ \A j \in 1..committed[n] : log[n][j].m = chosen[j]
    BY <1>2 DEF Holds
  <2>3. i \in 1..Len(chosen)
    BY <1>1, <2>1, <2>2
  <2> QED
    BY <2>1, <2>2, <2>3
<1>4. chosen[i] \in Mutation
  BY <1>1, <1>3
<1> DEFINE nu == apply(store[n], i, chosen[i])
<1>5. nu \in Store
  BY <1>1, <1>3, <1>4, ApplyStore
<1>6. /\ store' = [store EXCEPT ![n] = apply(store[n], i, log[n][i].m)]
      /\ covered' = [covered EXCEPT ![n] = IF i > covered[n] THEN i ELSE covered[n]]
      /\ UNCHANGED <<chosen, log, committed, leading, term>>
  BY DEF apply_committed, raft
<1>7. Applies(n, i, nu)
  BY <1>3, <1>6 DEF Applies
<1> QED
  BY <1>3, <1>4, <1>5, <1>7

\* The next entry is no gap: its predecessor is covered by the store.
LEMMA NoGap ==
    ASSUME ReplicaInv, OrderInv, SessionInv, NEW n \in Node, NEW i \in Nat, NEW nu, Applies(n, i, nu),
           chosen[i] \in Mutation
    PROVE  chosen[i].seq <= Latest(store[n], chosen[i].client) + 1
<1> USE DEF ReplicaInv
<1> DEFINE m == chosen[i]
<1>1. /\ store[n] \in Store /\ store[n].applied \in Nat /\ covered[n] \in Nat
      /\ i = store[n].applied + 1 /\ store[n].applied <= covered[n] /\ i \in 1..Len(chosen)
  BY StoreFields DEF ReplicaTypes, ProgressInv, Applies
<1>2. m.seq \in Nat /\ Latest(store[n], m.client) \in Nat
  BY <1>1, LatestType DEF Mutation
<1>3. \A j \in 1..covered[n] : chosen[j].seq <= Latest(store[n], chosen[j].client)
  BY DEF SessionInv
<1>4. Follows(chosen, m.client, m.seq, i - 1)
  BY <1>1 DEF OrderInv
<1> HIDE DEF m
<1>5. CASE i <= covered[n]
  BY <1>1, <1>2, <1>3, <1>5 DEF m
<1>6. CASE i > covered[n] /\ m.seq > 1
  <2>1. i - 1 = covered[n]
    BY <1>1, <1>6
  <2>2. PICK j \in 1..covered[n] : chosen[j].client = m.client /\ chosen[j].seq = m.seq - 1
    BY <1>4, <1>6, <2>1 DEF Follows
  <2>3. m.seq - 1 <= Latest(store[n], m.client)
    BY <1>3, <2>2
  <2> QED
    BY <1>2, <2>3 DEF m
<1>7. CASE m.seq <= 1
  BY <1>2, <1>7 DEF m
<1> QED
  BY <1>1, <1>2, <1>5, <1>6, <1>7

\* Applying an entry keeps the replicas in order and meets no gap.
LEMMA ApplyKeeps ==
    ASSUME ReplicaInv, OrderInv, SessionInv, NEW n \in Node, NEW i \in Nat, NEW nu \in Store, Applies(n, i, nu),
           chosen[i] \in Mutation
    PROVE  ReplicaInv' /\ SessionInv'
<1> USE DEF ReplicaInv
<1> DEFINE m == chosen[i]
           st == store[n]
           k == IF i > covered[n] THEN i ELSE covered[n]
<1>1. /\ st \in Store /\ st.applied \in Nat /\ covered \in [Node -> Nat] /\ store \in [Node -> Store]
      /\ covered[n] \in Nat /\ i = st.applied + 1 /\ st.applied <= covered[n]
      /\ i \in 1..Len(chosen) /\ i \in 1..committed[n] /\ covered[n] <= Len(chosen)
      /\ Len(chosen) \in Nat /\ committed[n] \in Nat
  BY StoreFields DEF ReplicaTypes, ProgressInv, Applies
<1>2. /\ store' = [store EXCEPT ![n] = nu] /\ covered' = [covered EXCEPT ![n] = k]
      /\ UNCHANGED <<chosen, log, committed, leading, term>> /\ nu = apply(st, st.applied + 1, m)
  BY <1>1 DEF Applies
<1>3. ~ st.poisoned /\ m.seq <= Latest(st, m.client) + 1
  BY NoGap DEF SessionInv
<1> HIDE DEF m, st
<1>4. m \in Mutation
  BY DEF m
<1>5. /\ nu.applied = i /\ ~ nu.poisoned /\ m.seq <= Latest(nu, m.client)
      /\ \A c : Latest(nu, c) >= Latest(st, c)
      /\ \A c : Latest(nu, c) = Latest(st, c) \/ (c = m.client /\ Latest(nu, c) = m.seq)
  <2> DEFINE x == apply(st, st.applied + 1, m)
  <2>1. x.applied = st.applied + 1 /\ ~ x.poisoned /\ m.seq <= Latest(x, m.client)
    BY <1>1, <1>3, <1>4, ApplyNext
  <2>2. \A c : Latest(x, c) >= Latest(st, c)
    BY <1>1, <1>3, <1>4, ApplyNext
  <2>3. \A c : Latest(x, c) = Latest(st, c) \/ (c = m.client /\ Latest(x, c) = m.seq)
    BY <1>1, <1>3, <1>4, ApplyNext
  <2> HIDE DEF x
  <2>4. nu = x
    BY <1>2 DEF x
  <2> QED
    BY <1>1, <2>1, <2>2, <2>3, <2>4
<1>6. k \in Nat /\ k <= Len(chosen) /\ i <= k /\ covered[n] <= k /\ (k = covered[n] \/ (k = i /\ i = covered[n] + 1))
  BY <1>1
<1> HIDE DEF k
<1>7. \A p \in Node : store'[p] = (IF p = n THEN nu ELSE store[p]) /\ covered'[p] = (IF p = n THEN k ELSE covered[p])
  BY <1>1, <1>2
<1>8. ReplicaTypes'
  BY <1>1, <1>2, <1>6 DEF ReplicaTypes
<1>9. LeaderInv' /\ ChoiceInv'
  BY <1>2 DEF LeaderInv, ChoiceInv, Newest, is_leader
<1>10. ProgressInv'
  BY <1>1, <1>2, <1>5, <1>6, <1>7 DEF ProgressInv
<1>11. ASSUME NEW j \in 1..k PROVE chosen[j].seq <= Latest(nu, chosen[j].client)
  <2>1. CASE j = i
    BY <1>5, <2>1 DEF m
  <2>2. CASE j # i
    <3>1. j \in 1..covered[n]
      BY <1>1, <1>6, <2>2
    <3>2. chosen[j].seq <= Latest(st, chosen[j].client)
      BY <3>1 DEF SessionInv, st
    <3>3. chosen[j].seq \in Nat
      <4>1. chosen \in Seq(Mutation) /\ j \in 1..Len(chosen)
        BY <1>6 DEF ReplicaTypes
      <4>2. chosen[j] \in Mutation
        BY <4>1
      <4> QED
        BY <4>2 DEF Mutation
    <3>4. Latest(st, chosen[j].client) \in Nat /\ Latest(nu, chosen[j].client) \in Nat
      BY <1>1, LatestType
    <3>5. Latest(nu, chosen[j].client) >= Latest(st, chosen[j].client)
      BY <1>5
    <3> QED
      BY <3>2, <3>3, <3>4, <3>5
  <2> QED
    BY <2>1, <2>2
<1>12. ASSUME NEW c \in Clients, Latest(nu, c) # 0
       PROVE  \E j \in 1..k : chosen[j].client = c /\ chosen[j].seq = Latest(nu, c)
  <2>1. CASE Latest(nu, c) = Latest(st, c)
    <3>1. PICK j \in 1..covered[n] : chosen[j].client = c /\ chosen[j].seq = Latest(st, c)
      BY <1>12, <2>1 DEF SessionInv, st
    <3>2. j \in 1..k
      BY <1>1, <1>6
    <3> QED
      BY <2>1, <3>1, <3>2
  <2>2. CASE c = m.client /\ Latest(nu, c) = m.seq
    <3>1. i \in 1..k
      BY <1>1, <1>6
    <3> QED
      BY <2>2, <3>1 DEF m
  <2> QED
    BY <1>5, <2>1, <2>2
<1>13. SessionInv'
  <2> SUFFICES ASSUME NEW p \in Node
               PROVE  /\ ~ store'[p].poisoned
                      /\ \A j \in 1..covered'[p] : chosen[j].seq <= Latest(store'[p], chosen[j].client)
                      /\ \A c \in Clients : Latest(store'[p], c) # 0 =>
                            \E j \in 1..covered'[p] : chosen[j].client = c /\ chosen[j].seq = Latest(store'[p], c)
    BY <1>2 DEF SessionInv, Latest
  <2>1. CASE p = n
    <3>1. store'[p] = nu /\ covered'[p] = k
      BY <1>7, <2>1
    <3> QED
      BY <1>5, <1>11, <1>12, <3>1
  <2>2. CASE p # n
    <3>1. store'[p] = store[p] /\ covered'[p] = covered[p]
      BY <1>7, <2>2
    <3> QED
      BY <3>1 DEF SessionInv
  <2> QED
    BY <2>1, <2>2
<1> QED
  BY <1>8, <1>9, <1>10, <1>13

\* What it reflects, and that it advances.
LEMMA ApplyFollows ==
    ASSUME ReplicaInv, OrderInv, SessionInv, StoresFollowTheLog, NEW n \in Node, NEW i \in Nat, NEW nu \in Store,
           Applies(n, i, nu), chosen[i] \in Mutation
    PROVE  StoresFollowTheLog' /\ Advances(store[n], nu)
<1> USE DEF ReplicaInv
<1> DEFINE m == chosen[i]
           st == store[n]
           k == covered[n]
<1>1. /\ st \in Store /\ st.applied \in Nat /\ covered \in [Node -> Nat] /\ store \in [Node -> Store]
      /\ k \in Nat /\ i = st.applied + 1 /\ st.applied <= k /\ chosen \in Seq(Mutation)
      /\ i \in 1..Len(chosen) /\ k <= Len(chosen) /\ Len(chosen) \in Nat
  BY StoreFields DEF ReplicaTypes, ProgressInv, Applies
<1>2. /\ store' = [store EXCEPT ![n] = nu] /\ covered' = [covered EXCEPT ![n] = IF i > k THEN i ELSE k]
      /\ chosen' = chosen /\ nu = apply(st, i, m) /\ nu = apply(st, st.applied + 1, m)
  BY <1>1 DEF Applies
<1>3. ~ st.poisoned /\ m.seq <= Latest(st, m.client) + 1
  BY NoGap DEF SessionInv
<1>4. [st EXCEPT !.applied = k] = Replay(SubSeq(chosen, 1, k))
  BY DEF StoresFollowTheLog
<1>5. i <= k => m.seq <= Latest(st, m.client)
  BY <1>1 DEF SessionInv
<1> HIDE DEF m, st, k
<1>6. m \in Mutation
  BY DEF m
<1>7. Advances(st, nu)
  BY <1>1, <1>2, <1>6, ApplyAdvances
<1>8. nu.applied = i /\ (m.seq <= Latest(st, m.client) => nu = [st EXCEPT !.applied = st.applied + 1])
  <2> DEFINE na == apply(st, st.applied + 1, m)
  <2>1. na.applied = st.applied + 1 /\ (m.seq <= Latest(st, m.client) => na = [st EXCEPT !.applied = st.applied + 1])
    BY <1>1, <1>3, <1>6, ApplyNext
  <2>2. nu = na
    BY <1>2
  <2> HIDE DEF na
  <2> QED
    BY <1>1, <2>1, <2>2
<1>9. CASE i <= k
  <2>1. nu = [st EXCEPT !.applied = i]
    BY <1>1, <1>5, <1>8, <1>9
  <2>2. [nu EXCEPT !.applied = k] = [st EXCEPT !.applied = k]
    BY <1>1, <2>1 DEF Store
  <2>3. ~ (i > k)
    BY <1>1, <1>9
  <2>4. \A p \in Node : store'[p] = (IF p = n THEN nu ELSE store[p]) /\ covered'[p] = covered[p]
    BY <1>1, <1>2, <2>3 DEF k
  <2>5. StoresFollowTheLog'
    <3> SUFFICES ASSUME NEW p \in Node
                 PROVE  [store'[p] EXCEPT !.applied = covered'[p]] = Replay(SubSeq(chosen, 1, covered'[p]))
      BY <1>2 DEF StoresFollowTheLog
    <3>1. CASE p = n
      BY <1>4, <2>2, <2>4, <3>1 DEF k
    <3>2. CASE p # n
      BY <2>4, <3>2 DEF StoresFollowTheLog
    <3> QED
      BY <3>1, <3>2
  <2> QED
    BY <1>7, <2>5 DEF st
<1>10. CASE i > k
  <2>1. st.applied = k /\ i = k + 1
    BY <1>1, <1>10
  <2>2. [st EXCEPT !.applied = k] = st
    BY <1>1, <2>1 DEF Store
  <2>3. Replay(SubSeq(chosen, 1, i)) = nu
    BY <1>1, <1>2, <1>4, <2>1, <2>2, ReplayStep DEF m
  <2>4. [nu EXCEPT !.applied = i] = nu
    BY <1>8 DEF Store
  <2>5. \A p \in Node : /\ store'[p] = (IF p = n THEN nu ELSE store[p])
                        /\ covered'[p] = (IF p = n THEN i ELSE covered[p])
    BY <1>1, <1>2, <1>10
  <2>6. StoresFollowTheLog'
    <3> SUFFICES ASSUME NEW p \in Node
                 PROVE  [store'[p] EXCEPT !.applied = covered'[p]] = Replay(SubSeq(chosen, 1, covered'[p]))
      BY <1>2 DEF StoresFollowTheLog
    <3>1. CASE p = n
      BY <2>3, <2>4, <2>5, <3>1
    <3>2. CASE p # n
      BY <2>5, <3>2 DEF StoresFollowTheLog
    <3> QED
      BY <3>1, <3>2
  <2> QED
    BY <1>7, <2>6 DEF st
<1> QED
  BY <1>1, <1>9, <1>10

\* A log that is replaced up to the label of a snapshot.
LEMMA SplicedHolds ==
    ASSUME NEW ch \in Seq(Mutation), NEW a \in Seq(Entry), NEW b \in Seq(Entry), NEW l \in Nat, NEW k \in Nat,
           Holds(ch, a, l), Holds(ch, b, k)
    PROVE  LET lg == SubSeq(a, 1, l) \o SubSeq(b, l + 1, Len(b))
           IN  lg \in Seq(Entry) /\ Holds(ch, lg, IF l > k THEN l ELSE k)
<1> DEFINE x == SubSeq(a, 1, l)
           y == SubSeq(b, l + 1, Len(b))
           lg == x \o y
<1>1. /\ Len(a) \in Nat /\ Len(b) \in Nat /\ Len(ch) \in Nat
      /\ l <= Len(a) /\ l <= Len(ch) /\ k <= Len(b) /\ k <= Len(ch)
      /\ \A i \in 1..l : a[i].m = ch[i]
      /\ \A i \in 1..k : b[i].m = ch[i]
  BY DEF Holds
<1>2. x \in Seq(Entry) /\ Len(x) = l /\ \A i \in 1..l : x[i] = a[i]
  BY <1>1, PrefixOf
<1>3. /\ y \in Seq(Entry) /\ Len(y) \in Nat
      /\ Len(y) = IF l + 1 <= Len(b) THEN Len(b) - l ELSE 0
      /\ \A i \in 1..Len(y) : y[i] = b[l + i]
  <2>1. \A i \in (l + 1)..Len(b) : b[i] \in Entry
    BY <1>1
  <2>2. /\ y \in Seq(Entry)
        /\ Len(y) = IF l + 1 <= Len(b) THEN Len(b) - (l + 1) + 1 ELSE 0
        /\ \A i \in 1..(Len(b) - (l + 1) + 1) : y[i] = b[(l + 1) + i - 1]
    BY <1>1, <2>1, SubSeqProperties
  <2> HIDE DEF y
  <2>3. \A i \in 1..Len(y) : i \in 1..(Len(b) - (l + 1) + 1) /\ (l + 1) + i - 1 = l + i
    BY <1>1, <2>2
  <2> QED
    BY <1>1, <2>2, <2>3
<1> HIDE DEF x, y
<1>4. /\ lg \in Seq(Entry) /\ Len(lg) = l + Len(y)
      /\ \A i \in 1..(l + Len(y)) : lg[i] = IF i <= l THEN x[i] ELSE y[i - l]
  <2>1. x \in Seq(Entry) /\ y \in Seq(Entry)
    BY <1>2, <1>3
  <2>2. /\ x \o y \in Seq(Entry) /\ Len(x \o y) = Len(x) + Len(y)
        /\ \A i \in 1..(Len(x) + Len(y)) : (x \o y)[i] = IF i <= Len(x) THEN x[i] ELSE y[i - Len(x)]
    BY <2>1, ConcatProperties
  <2>3. Len(x) = l
    BY <1>2
  <2> QED
    BY <2>2, <2>3
<1> HIDE DEF lg
<1> DEFINE kk == IF l > k THEN l ELSE k
<1>5. kk \in Nat /\ kk <= Len(ch) /\ kk <= Len(lg)
  BY <1>1, <1>3, <1>4
<1>6. ASSUME NEW i \in 1..kk PROVE lg[i].m = ch[i]
  <2>1. CASE i <= l
    <3>1. i \in 1..(l + Len(y)) /\ i \in 1..l
      BY <1>3, <2>1
    <3>2. lg[i] = a[i]
      BY <1>2, <1>4, <2>1, <3>1
    <3> QED
      BY <1>1, <3>1, <3>2
  <2>2. CASE i > l
    <3>1. i \in 1..k /\ i \in 1..(l + Len(y)) /\ i - l \in 1..Len(y) /\ l + (i - l) = i /\ ~ (i <= l)
      BY <1>1, <1>3, <2>2
    <3>2. lg[i] = y[i - l]
      BY <1>4, <3>1
    <3>3. y[i - l] = b[i]
      BY <1>3, <3>1
    <3> QED
      BY <1>1, <3>1, <3>2, <3>3
  <2> QED
    BY <2>1, <2>2
<1>7. Holds(ch, lg, kk)
  BY <1>5, <1>6 DEF Holds
<1> QED
  BY <1>4, <1>7 DEF lg, x, y

\* Node n takes over the trees of the leader's store, under an older label.
Installs(n, leader, label, nu) ==
    /\ label > store[n].applied /\ label <= store[leader].applied
    /\ ~ is_leader(n) /\ Newest(leader)
    /\ nu = [items |-> store[leader].items, sessions |-> store[leader].sessions,
             time |-> store[leader].time, applied |-> label, poisoned |-> FALSE]
    /\ store' = [store EXCEPT ![n] = nu]
    /\ covered' = [covered EXCEPT ![n] = covered[leader]]
    /\ committed' = [committed EXCEPT ![n] = IF label > committed[n] THEN label ELSE committed[n]]
    /\ log' = [log EXCEPT ![n] = SubSeq(log[leader], 1, label) \o SubSeq(log[n], label + 1, Len(log[n]))]
    /\ UNCHANGED <<chosen, leading, term>>

\* What restoring a snapshot does to a follower that is not poisoned.
LEMMA InstallIs ==
    ASSUME ReplicaInv, SessionInv, NEW n \in Node, NEW leader \in Node, InstallSnapshot(n, leader)
    PROVE  \E label \in Nat, nu \in Store : Installs(n, leader, label, nu)
<1> USE DEF ReplicaInv
<1>1. /\ store[n] \in Store /\ store[leader] \in Store /\ store[n].applied \in Nat
      /\ store[leader].applied \in Nat /\ ~ store[n].poisoned
  BY StoreFields DEF SessionInv
<1>2. PICK label \in (store[n].applied + 1)..store[leader].applied :
        /\ store' = [store EXCEPT ![n] = install_snapshot(store[n], label, snapshot(store[leader]))]
        /\ covered' = [covered EXCEPT ![n] = covered[leader]]
        /\ committed' = [committed EXCEPT ![n] = advance_horizon_after_snapshot(n, label)]
        /\ log' = [log EXCEPT ![n] =
                SubSeq(log[leader], 1, label) \o SubSeq(log[n], label + 1, Len(log[n]))]
  BY DEF InstallSnapshot
<1>3. label \in Nat /\ label > store[n].applied /\ label <= store[leader].applied
  BY <1>1, <1>2
<1> DEFINE nu == [items |-> store[leader].items, sessions |-> store[leader].sessions,
                  time |-> store[leader].time, applied |-> label, poisoned |-> FALSE]
<1>4. install_snapshot(store[n], label, snapshot(store[leader])) = nu
  BY <1>1 DEF install_snapshot, snapshot
<1>5. nu \in Store
  BY <1>1, <1>3 DEF Store
<1>6. ~ is_leader(n) /\ Newest(leader) /\ UNCHANGED <<chosen, leading, term>>
  BY DEF InstallSnapshot
<1> HIDE DEF nu
<1>7. Installs(n, leader, label, nu)
  BY <1>2, <1>3, <1>4, <1>6 DEF Installs, advance_horizon_after_snapshot, nu
<1> QED
  BY <1>3, <1>5, <1>7

\* Restoring a snapshot keeps the replicas in order.
LEMMA InstallKeeps ==
    ASSUME ReplicaInv, SessionInv, NEW n \in Node, NEW leader \in Node, NEW label \in Nat, NEW nu \in Store,
           Installs(n, leader, label, nu)
    PROVE  ReplicaInv' /\ SessionInv'
<1> USE DEF ReplicaInv
<1> DEFINE lg == SubSeq(log[leader], 1, label) \o SubSeq(log[n], label + 1, Len(log[n]))
           k == IF label > committed[n] THEN label ELSE committed[n]
<1>1. /\ store \in [Node -> Store] /\ covered \in [Node -> Nat] /\ committed \in [Node -> Nat]
      /\ log \in [Node -> Seq(Entry)] /\ log[n] \in Seq(Entry) /\ log[leader] \in Seq(Entry)
      /\ chosen \in Seq(Mutation) /\ Len(chosen) \in Nat
      /\ committed[n] \in Nat /\ committed[leader] \in Nat /\ covered[leader] \in Nat
      /\ store[leader].applied \in Nat /\ Len(log[leader]) \in Nat
  BY StoreFields DEF ReplicaTypes
<1>2. /\ label <= store[leader].applied /\ ~ is_leader(n)
      /\ nu.applied = label /\ ~ nu.poisoned /\ nu.sessions = store[leader].sessions
      /\ store' = [store EXCEPT ![n] = nu]
      /\ covered' = [covered EXCEPT ![n] = covered[leader]]
      /\ committed' = [committed EXCEPT ![n] = k]
      /\ log' = [log EXCEPT ![n] = lg]
      /\ UNCHANGED <<chosen, leading, term>>
  BY DEF Installs
<1>3. /\ store[leader].applied <= covered[leader] /\ store[leader].applied <= committed[leader]
      /\ covered[leader] <= Len(chosen)
  BY DEF ProgressInv
<1>4. Holds(chosen, log[leader], label) /\ Holds(chosen, log[n], committed[n])
  <2>1. label <= committed[leader]
    BY <1>1, <1>2, <1>3
  <2> QED
    BY <1>1, <2>1, HoldsLess DEF ChoiceInv
<1>5. lg \in Seq(Entry) /\ Holds(chosen, lg, k)
  BY <1>1, <1>4, SplicedHolds
<1>6. k \in Nat /\ label <= k
  BY <1>1
<1> HIDE DEF lg, k
<1>7. \A p \in Node : /\ store'[p] = (IF p = n THEN nu ELSE store[p])
                      /\ covered'[p] = (IF p = n THEN covered[leader] ELSE covered[p])
                      /\ committed'[p] = (IF p = n THEN k ELSE committed[p])
                      /\ log'[p] = (IF p = n THEN lg ELSE log[p])
  BY <1>1, <1>2
<1>8. ReplicaTypes'
  BY <1>1, <1>2, <1>5, <1>6 DEF ReplicaTypes
<1>9. LeaderInv'
  BY <1>2 DEF LeaderInv
<1>10. ChoiceInv'
  <2>1. ASSUME NEW p \in Node PROVE Holds(chosen, log'[p], committed'[p])
    BY <1>5, <1>7 DEF ChoiceInv
  <2>2. ASSUME NEW p \in Node, Newest(p)' PROVE Holds(chosen, log'[p], Len(chosen))
    BY <1>2, <1>7, <2>2 DEF ChoiceInv, Newest, is_leader
  <2> QED
    BY <1>2, <2>1, <2>2 DEF ChoiceInv
<1>11. ProgressInv'
  <2>1. label <= covered[leader]
    BY <1>1, <1>2, <1>3
  <2> QED
    BY <1>2, <1>3, <1>6, <1>7, <2>1 DEF ProgressInv
<1>12. \A c : Latest(nu, c) = Latest(store[leader], c)
  BY <1>2 DEF Latest, get_session_record
<1>13. SessionInv'
  <2> SUFFICES ASSUME NEW p \in Node
               PROVE  /\ ~ store'[p].poisoned
                      /\ \A j \in 1..covered'[p] : chosen[j].seq <= Latest(store'[p], chosen[j].client)
                      /\ \A c \in Clients : Latest(store'[p], c) # 0 =>
                            \E j \in 1..covered'[p] : chosen[j].client = c /\ chosen[j].seq = Latest(store'[p], c)
    BY <1>2 DEF SessionInv, Latest
  <2>1. CASE p = n
    <3>1. store'[p] = nu /\ covered'[p] = covered[leader]
      BY <1>7, <2>1
    <3> QED
      BY <1>2, <1>12, <3>1 DEF SessionInv
  <2>2. CASE p # n
    <3>1. store'[p] = store[p] /\ covered'[p] = covered[p]
      BY <1>7, <2>2
    <3> QED
      BY <3>1 DEF SessionInv
  <2> QED
    BY <2>1, <2>2
<1> QED
  BY <1>8, <1>9, <1>10, <1>11, <1>13

\* A restored store reflects the prefix its leader covered, whatever the label.
LEMMA InstallFollows ==
    ASSUME ReplicaInv, SessionInv, StoresFollowTheLog, NEW n \in Node, NEW leader \in Node, NEW label \in Nat,
           NEW nu \in Store, Installs(n, leader, label, nu)
    PROVE  /\ StoresFollowTheLog'
           /\ covered'[n] >= covered[n] => Advances(store[n], nu)
<1> USE DEF ReplicaInv
<1>1. /\ store \in [Node -> Store] /\ covered \in [Node -> Nat] /\ chosen \in Seq(Mutation)
      /\ store[leader] \in Store /\ store[n] \in Store /\ covered[leader] \in Nat /\ covered[n] \in Nat
      /\ Len(chosen) \in Nat /\ covered[leader] <= Len(chosen) /\ covered[n] <= Len(chosen)
  BY StoreFields DEF ReplicaTypes, ProgressInv
<1> DEFINE st == store[leader]
           k == covered[leader]
           old == store[n]
           j == covered[n]
<1>2. /\ nu = [items |-> st.items, sessions |-> st.sessions, time |-> st.time, applied |-> label, poisoned |-> FALSE]
      /\ store' = [store EXCEPT ![n] = nu] /\ covered' = [covered EXCEPT ![n] = k] /\ chosen' = chosen
  BY DEF Installs
<1>3. ~ st.poisoned
  BY DEF SessionInv
<1>4. /\ [st EXCEPT !.applied = k] = Replay(SubSeq(chosen, 1, k))
      /\ [old EXCEPT !.applied = j] = Replay(SubSeq(chosen, 1, j))
  BY DEF StoresFollowTheLog
<1>5. \A p \in Node : /\ store'[p] = (IF p = n THEN nu ELSE store[p])
                      /\ covered'[p] = (IF p = n THEN k ELSE covered[p])
  BY <1>1, <1>2
<1>6. st \in Store /\ old \in Store /\ k \in 0..Len(chosen) /\ j \in 0..Len(chosen)
  BY <1>1
<1> HIDE DEF st, k, old, j
<1>7. [nu EXCEPT !.applied = k] = [st EXCEPT !.applied = k]
  <2>1. st.poisoned = FALSE
    BY <1>3, <1>6 DEF Store
  <2>2. st = [items |-> st.items, sessions |-> st.sessions, time |-> st.time,
              applied |-> st.applied, poisoned |-> st.poisoned]
    BY <1>6 DEF Store
  <2>3. [st EXCEPT !.applied = k] = [items |-> st.items, sessions |-> st.sessions, time |-> st.time,
                                     applied |-> k, poisoned |-> st.poisoned]
    BY <2>2
  <2>4. nu = [items |-> st.items, sessions |-> st.sessions, time |-> st.time,
              applied |-> label, poisoned |-> st.poisoned]
    BY <1>2, <2>1, Zenon
  <2>5. [nu EXCEPT !.applied = k] = [items |-> st.items, sessions |-> st.sessions, time |-> st.time,
                                     applied |-> k, poisoned |-> st.poisoned]
    BY <2>4
  <2> QED
    BY <2>3, <2>5
<1>8. StoresFollowTheLog'
  <2> SUFFICES ASSUME NEW p \in Node
               PROVE  [store'[p] EXCEPT !.applied = covered'[p]] = Replay(SubSeq(chosen, 1, covered'[p]))
    BY <1>2 DEF StoresFollowTheLog
  <2>1. CASE p = n
    BY <1>4, <1>5, <1>7, <2>1
  <2>2. CASE p # n
    BY <1>5, <2>2 DEF StoresFollowTheLog
  <2> QED
    BY <2>1, <2>2
<1>9. ASSUME k >= j PROVE Advances(old, nu)
  <2>1. Advances([old EXCEPT !.applied = j], [st EXCEPT !.applied = k])
    BY <1>1, <1>4, <1>6, <1>9, ReplayAdvances
  <2>2. /\ [old EXCEPT !.applied = j].time = old.time /\ [old EXCEPT !.applied = j].sessions = old.sessions
        /\ [st EXCEPT !.applied = k].time = st.time /\ [st EXCEPT !.applied = k].sessions = st.sessions
        /\ nu.time = st.time /\ nu.sessions = st.sessions
    BY <1>2, <1>6 DEF Store
  <2> QED
    BY <2>1, <2>2 DEF Advances
<1>10. covered'[n] = k
  BY <1>5
<1> QED
  BY <1>8, <1>9, <1>10 DEF old, j

-----------------------------------------------------------------------------
(* The handlers *)

\* What a step makes of the handler in a slot.
Sends(h) ==
    \E c \in Clients, n \in Node :
        /\ handlers'[h] = Request(c, current[c], n)
        /\ point[c] = "sending"

Ends(h) == handlers'[h] = Free \/ handlers'[h] = [handlers[h] EXCEPT !.live = FALSE]

Admits(h) ==
    LET r == handlers[h]
    IN  /\ r.at = "sent" /\ r.op = "mutate"
        /\ r.seq = Latest(store[r.node], r.client) + 1
        /\ handlers'[h] = [r EXCEPT !.at = "queued"]

Enters(h) ==
    LET r == handlers[h]
    IN  /\ r.at = "queued"
        /\ handlers'[h] = [at |-> "evaluating", live |-> r.live, client |-> r.client, node |-> r.node,
                           seq |-> r.seq, intent |-> r.intent, seen |-> quantity(store[r.node].items)]

Awaits(h) ==
    LET r == handlers[h]
    IN  /\ r.at = "evaluating"
        /\ \E status \in {"Committed", "Vetoed"} :
            handlers'[h] = [at |-> "awaiting", live |-> r.live, client |-> r.client, node |-> r.node,
                            status |-> status, index |-> Len(log[r.node]) + 1,
                            in_term |-> leading[r.node]]

Confirms(h) ==
    LET r == handlers[h]
    IN  /\ r.at = "probing" /\ leading[r.node] = r.in_term
        /\ confirmed_read_epoch[r.node] >= r.epoch
        /\ handlers'[h] = [r EXCEPT !.at = "fencing"]

Passes(h) ==
    LET r == handlers[h]
    IN  /\ r.at = "fencing" /\ (r.min # 0 => store[r.node].applied >= r.min)
        /\ handlers'[h] = [r EXCEPT !.at = "reading"]

HandlerStep(h) ==
    \/ handlers'[h] = handlers[h]
    \/ Ends(h) \/ Sends(h) \/ Admits(h) \/ Enters(h) \/ Awaits(h)
    \/ verify_leadership(h) \/ Confirms(h) \/ Passes(h)

\* A step of one handler leaves the others alone.
LEMMA GoOnIs ==
    ASSUME HandlerTypes, NEW g, NEW r, GoOn(g, r)
    PROVE  /\ handlers' = [h \in Slots |-> handlers'[h]]
           /\ \A h \in Slots : handlers'[h] = IF h = g THEN r ELSE handlers[h]
BY DEF HandlerTypes, GoOn

\* A client that stops waiting leaves its handlers, or they end.
LEMMA OrphanedIs ==
    ASSUME HandlerTypes, NEW c, handlers' = Orphaned(c)
    PROVE  /\ handlers' = [h \in Slots |-> handlers'[h]]
           /\ \A h \in Slots : handlers'[h] = handlers[h] \/ Ends(h)
           /\ \A h \in Slots : handlers[h].at # "free" /\ handlers[h].client = c => Ends(h)
BY DEF HandlerTypes, Orphaned, Ends, Busy

\* A node that may serve leads, and its store is not poisoned.
LEMMA AuthorizedIs ==
    ASSUME NEW n, Unauthorized(n) = {}
    PROVE  is_leader(n)
<1>1. None \in Hints(n)
  BY DEF Hints
<1>2. {redirection_response(n, hint) : hint \in Hints(n)} # {}
  BY <1>1
<1> QED
  BY <1>2 DEF Unauthorized

\* The steps of a handler between its awaits.
LEMMA ProceedSteps ==
    ASSUME HandlerTypes, NEW g \in Slots, Proceed(g)
    PROVE  /\ handlers' = [h \in Slots |-> handlers'[h]]
           /\ \A h \in Slots : h # g => handlers'[h] = handlers[h]
           /\ Admits(g) \/ Enters(g) \/ verify_leadership(g) \/ Confirms(g) \/ Passes(g)
<1>1. \E r : GoOn(g, r)
  BY DEF Proceed, Admit, EnterCriticalSection, verify_leadership, Verified, PassFence
<1>2. PICK r : GoOn(g, r)
  BY <1>1
<1>3. /\ handlers' = [h \in Slots |-> handlers'[h]]
      /\ \A h \in Slots : h # g => handlers'[h] = handlers[h]
  BY <1>2, GoOnIs
<1>4. ASSUME Admit(g) PROVE Admits(g)
  <2>1. GoOn(g, [handlers[g] EXCEPT !.at = "queued"])
    BY <1>4 DEF Admit
  <2>2. handlers'[g] = [handlers[g] EXCEPT !.at = "queued"]
    BY <2>1, GoOnIs
  <2> QED
    BY <1>4, <2>2 DEF Admit, Admits, passes_firewall, check_session, Latest
<1>5. ASSUME EnterCriticalSection(g) PROVE Enters(g)
  <2> DEFINE q == handlers[g]
             s == [at |-> "evaluating", live |-> q.live, client |-> q.client, node |-> q.node,
                   seq |-> q.seq, intent |-> q.intent, seen |-> quantity(store[q.node].items)]
  <2>1. GoOn(g, s) /\ q.at = "queued"
    BY <1>5 DEF EnterCriticalSection, get_inventory
  <2> HIDE DEF s
  <2>2. handlers'[g] = s
    BY <2>1, GoOnIs
  <2> QED
    BY <2>1, <2>2 DEF Enters, s
<1>6. ASSUME Verified(g) PROVE Confirms(g)
  <2>1. GoOn(g, [handlers[g] EXCEPT !.at = "fencing"])
    BY <1>6 DEF Verified
  <2>2. handlers'[g] = [handlers[g] EXCEPT !.at = "fencing"]
    BY <2>1, GoOnIs
  <2> QED
    BY <1>6, <2>2 DEF Verified, Confirms
<1>7. ASSUME PassFence(g) PROVE Passes(g)
  <2>1. GoOn(g, [handlers[g] EXCEPT !.at = "reading"])
    BY <1>7 DEF PassFence
  <2>2. handlers'[g] = [handlers[g] EXCEPT !.at = "reading"]
    BY <2>1, GoOnIs
  <2> QED
    BY <1>7, <2>2 DEF PassFence, Passes, await_apply, current_version
<1> QED
  BY <1>3, <1>4, <1>5, <1>6, <1>7 DEF Proceed

\* A handler that has proposed waits for the commit.
LEMMA AwaitSteps ==
    ASSUME HandlerTypes, NEW g \in Slots, commit_to_consensus(g)
    PROVE  /\ handlers' = [h \in Slots |-> handlers'[h]]
           /\ \A h \in Slots : h # g => handlers'[h] = handlers[h]
           /\ Awaits(g)
<1> DEFINE r == handlers[g]
           s(status) == [at |-> "awaiting", live |-> r.live, client |-> r.client, node |-> r.node,
                         status |-> status, index |-> Len(log[r.node]) + 1,
                         in_term |-> leading[r.node]]
<1>1. r.at = "evaluating" /\ \E status \in {"Committed", "Vetoed"} : GoOn(g, s(status))
  BY DEF commit_to_consensus
<1> HIDE DEF s
<1>2. PICK status \in {"Committed", "Vetoed"} : GoOn(g, s(status))
  BY <1>1
<1>3. /\ handlers' = [h \in Slots |-> handlers'[h]]
      /\ \A h \in Slots : handlers'[h] = IF h = g THEN s(status) ELSE handlers[h]
  BY <1>2, GoOnIs
<1>4. handlers'[g] = s(status)
  BY <1>3
<1>5. Awaits(g)
  BY <1>1, <1>4 DEF Awaits, s
<1> QED
  BY <1>3, <1>5

\* Every step of the system is, for each slot, one of these.
LEMMA HandlerSteps ==
    ASSUME HandlerTypes, [Next]_vars
    PROVE  /\ handlers' = [h \in Slots |-> handlers'[h]]
           /\ \A h \in Slots : HandlerStep(h)
<1> DEFINE Goal == /\ handlers' = [h \in Slots |-> handlers'[h]]
                   /\ \A h \in Slots : HandlerStep(h)
<1>1. ASSUME UNCHANGED handlers PROVE Goal
  BY <1>1 DEF HandlerTypes, HandlerStep
<1>2. ASSUME NEW c, handlers' = Orphaned(c) PROVE Goal
  BY <1>2, OrphanedIs DEF HandlerStep
<1>3. ASSUME NEW g, GoOn(g, Free) PROVE Goal
  <2>1. /\ handlers' = [h \in Slots |-> handlers'[h]]
        /\ \A h \in Slots : handlers'[h] = IF h = g THEN Free ELSE handlers[h]
    BY <1>3, GoOnIs
  <2> QED
    BY <2>1 DEF HandlerStep, Ends
<1>4. ASSUME NEW c \in Clients, NEW n \in Node, Send(c, n) PROVE Goal
  <2> DEFINE q == Request(c, current[c], n)
             g == Min(Slots \ Busy)
  <2>1. GoOn(g, q) /\ point[c] = "sending"
    BY <1>4 DEF Send, send
  <2> HIDE DEF g
  <2>2. /\ handlers' = [h \in Slots |-> handlers'[h]]
        /\ \A h \in Slots : handlers'[h] = IF h = g THEN q ELSE handlers[h]
    BY <2>1, GoOnIs
  <2>3. ASSUME NEW h \in Slots PROVE HandlerStep(h)
    BY <2>1, <2>2 DEF HandlerStep, Sends
  <2> QED
    BY <2>2, <2>3
<1>5. ASSUME NEW g \in Slots, Handle(g) PROVE Goal
  <2>1. Proceed(g)
    BY <1>5 DEF Handle
  <2> QED
    BY <2>1, ProceedSteps DEF HandlerStep
<1>6. ASSUME NEW g \in Slots, HandleProposal(g) PROVE Goal
  <2>1. commit_to_consensus(g)
    BY <1>6 DEF HandleProposal
  <2> QED
    BY <2>1, AwaitSteps DEF HandlerStep
<1>7. ASSUME UNCHANGED vars PROVE UNCHANGED handlers
  BY <1>7 DEF vars
<1>8. ASSUME NEW c \in Clients, Command(c) PROVE UNCHANGED handlers
  BY <1>8 DEF Command
<1>9. ASSUME NEW c \in Clients, Timeout(c) \/ Crash(c) PROVE handlers' = Orphaned(c)
  BY <1>9 DEF Timeout, Crash
<1>10. ASSUME NEW h \in Slots, Reply(h) \/ Drop(h) PROVE GoOn(h, Free)
  BY <1>10 DEF Reply, Drop
<1>11. ASSUME Replicate PROVE UNCHANGED handlers
  BY <1>11 DEF Replicate
<1>12. ASSUME Probe PROVE UNCHANGED handlers
  BY <1>12 DEF Probe, Heartbeat, ReceiveAcks
<1> HIDE DEF Goal
<1>13. Goal
  BY <1>1, <1>2, <1>3, <1>4, <1>5, <1>6, <1>7, <1>8, <1>9, <1>10, <1>11, <1>12 DEF Next
<1> QED
  BY <1>13 DEF Goal

AnyHandler == {Free} \cup Arrived \cup Evaluating \cup Awaiting \cup Querying

\* Which handlers are where.
LEMMA HandlerKinds ==
    ASSUME HandlerTypes, NEW h \in Slots
    PROVE  /\ handlers[h] \in AnyHandler
           /\ handlers[h].at \in {"sent", "queued"} => handlers[h] \in Arrived
           /\ handlers[h].at = "evaluating" => handlers[h] \in Evaluating
           /\ handlers[h].at = "awaiting" => handlers[h] \in Awaiting
           /\ handlers[h].at \in {"probing", "fencing", "reading"} => handlers[h] \in Querying
BY DEF HandlerTypes, AnyHandler, Free, Arrived, Evaluating, Awaiting, Querying

\* The quantity an evaluation reads is a natural.
LEMMA QuantityType ==
    ASSUME NEW st \in Store
    PROVE  quantity(st.items) \in Nat
<1>1. Item \in DOMAIN st.items => st.items[Item] \in ItemRecord
  BY TableHas DEF Store
<1>2. Item \in DOMAIN st.items => st.items[Item].quantity \in Nat
  BY <1>1 DEF ItemRecord
<1> QED
  BY <1>2 DEF quantity

\* A query opens a read epoch, or joins the one that is open.
Verifies(h, r, late, target) ==
    /\ target = prepare_read_probe(r.node) /\ is_leader(r.node) /\ r.at = "sent"
    /\ late => target > current_read_epoch[r.node]
    /\ handlers'[h] = [at |-> "probing", live |-> r.live, client |-> r.client,
                       node |-> r.node, min |-> r.min,
                       horizon |-> committed[r.node], epoch |-> target,
                       in_term |-> leading[r.node], newest |-> Newest(r.node),
                       quiet |-> /\ target > current_read_epoch[r.node]
                                 /\ ~ late /\ ~ acks_in_flight[r.node]]
    /\ acks_in_flight' = [acks_in_flight EXCEPT ![r.node] = acks_in_flight[r.node] \/ late]
    /\ current_read_epoch' = [current_read_epoch EXCEPT ![r.node] = target]
    /\ UNCHANGED confirmed_read_epoch

\* What opening or joining a read epoch does.
LEMMA VerifyIs ==
    ASSUME ReplicaTypes, HandlerTypes, ProbeTypes, NEW h \in Slots, verify_leadership(h)
    PROVE  /\ handlers[h] \in Arrived
           /\ \E late \in BOOLEAN, target \in Nat : Verifies(h, handlers[h], late, target)
<1> DEFINE r == handlers[h]
           target == prepare_read_probe(r.node)
           s(late) == [at |-> "probing", live |-> r.live, client |-> r.client,
                       node |-> r.node, min |-> r.min,
                       horizon |-> committed[r.node], epoch |-> target,
                       in_term |-> leading[r.node], newest |-> Newest(r.node),
                       quiet |-> /\ target > current_read_epoch[r.node]
                                 /\ ~ late /\ ~ acks_in_flight[r.node]]
<1>1. r.at = "sent" /\ Unauthorized(r.node) = {}
  BY DEF verify_leadership
<1>2. r \in Arrived /\ r.node \in Node
  BY <1>1, HandlerKinds DEF Arrived
<1>3. is_leader(r.node)
  BY <1>1, AuthorizedIs
<1>4. target \in Nat
  BY <1>2 DEF prepare_read_probe, ProbeTypes
<1>5. /\ \E late \in BOOLEAN :
            /\ late => target > current_read_epoch[r.node]
            /\ GoOn(h, s(late))
            /\ acks_in_flight' = [acks_in_flight EXCEPT ![r.node] = acks_in_flight[r.node] \/ late]
      /\ current_read_epoch' = [current_read_epoch EXCEPT ![r.node] = target]
      /\ UNCHANGED confirmed_read_epoch
  BY DEF verify_leadership
<1> HIDE DEF s
<1>6. PICK late \in BOOLEAN :
            /\ late => target > current_read_epoch[r.node]
            /\ GoOn(h, s(late))
            /\ acks_in_flight' = [acks_in_flight EXCEPT ![r.node] = acks_in_flight[r.node] \/ late]
  BY <1>5
<1>7. \A g \in Slots : handlers'[g] = IF g = h THEN s(late) ELSE handlers[g]
  BY <1>6, GoOnIs
<1>8. handlers'[h] = s(late)
  BY <1>7
<1> HIDE DEF target
<1>9. Verifies(h, r, late, target)
  BY <1>1, <1>3, <1>5, <1>6, <1>8 DEF Verifies, s, target
<1> QED
  BY <1>2, <1>4, <1>9

\* A handler stays well formed.
LEMMA HandlerTypesKept ==
    ASSUME ReplicaTypes, HandlerTypes, ProbeTypes, ClientTypes, NEW h \in Slots, HandlerStep(h)
    PROVE  handlers'[h] \in AnyHandler
<1> DEFINE r == handlers[h]
<1>0. r \in AnyHandler
  BY HandlerKinds
<1>1. ASSUME Ends(h) PROVE handlers'[h] \in AnyHandler
  <2>1. r = Free => [r EXCEPT !.live = FALSE] = Free
    BY DEF Free
  <2>2. r \in Arrived => [r EXCEPT !.live = FALSE] \in Arrived
    BY DEF Arrived
  <2>3. r \in Evaluating => [r EXCEPT !.live = FALSE] \in Evaluating
    BY DEF Evaluating
  <2>4. r \in Awaiting => [r EXCEPT !.live = FALSE] \in Awaiting
    BY DEF Awaiting
  <2>5. r \in Querying => [r EXCEPT !.live = FALSE] \in Querying
    BY DEF Querying
  <2> QED
    BY <1>0, <1>1, <2>1, <2>2, <2>3, <2>4, <2>5 DEF Ends, AnyHandler
<1>2. ASSUME Sends(h) PROVE handlers'[h] \in AnyHandler
  <2>1. PICK c \in Clients, n \in Node : handlers'[h] = Request(c, current[c], n)
    BY <1>2 DEF Sends
  <2>2. current[c] \in Requests
    BY DEF ClientTypes
  <2>3. Request(c, current[c], n) \in Arrived
    BY <2>2 DEF Request, Requests, Arrived
  <2> QED
    BY <2>1, <2>3 DEF AnyHandler
<1>3. ASSUME Admits(h) PROVE handlers'[h] \in AnyHandler
  <2>1. r \in Arrived /\ handlers'[h] = [r EXCEPT !.at = "queued"]
    BY <1>3, HandlerKinds DEF Admits
  <2>2. [r EXCEPT !.at = "queued"] \in Arrived
    BY <2>1 DEF Arrived
  <2> QED
    BY <2>1, <2>2 DEF AnyHandler
<1>4. ASSUME Enters(h) PROVE handlers'[h] \in AnyHandler
  <2>1. r \in Arrived
    BY <1>4, HandlerKinds DEF Enters
  <2>2. /\ r.live \in BOOLEAN /\ r.client \in Clients /\ r.node \in Node /\ r.seq \in Nat /\ r.intent \in Intent
    BY <2>1 DEF Arrived
  <2> DEFINE q == quantity(store[r.node].items)
  <2>3. q \in Nat
    BY <2>2, QuantityType DEF ReplicaTypes
  <2>4. handlers'[h] = [at |-> "evaluating", live |-> r.live, client |-> r.client, node |-> r.node,
                        seq |-> r.seq, intent |-> r.intent, seen |-> q]
    BY <1>4 DEF Enters
  <2> HIDE DEF q, r
  <2>5. handlers'[h] \in Evaluating
    BY <2>2, <2>3, <2>4 DEF Evaluating
  <2> QED
    BY <2>5 DEF AnyHandler
<1>5. ASSUME Awaits(h) PROVE handlers'[h] \in AnyHandler
  <2>1. r \in Evaluating
    BY <1>5, HandlerKinds DEF Awaits
  <2>2. r.live \in BOOLEAN /\ r.client \in Clients /\ r.node \in Node
    BY <2>1 DEF Evaluating
  <2>3. Len(log[r.node]) + 1 \in Nat /\ leading[r.node] \in Nat
    BY <2>2 DEF ReplicaTypes
  <2>4. PICK status \in {"Committed", "Vetoed"} :
          handlers'[h] = [at |-> "awaiting", live |-> r.live, client |-> r.client, node |-> r.node,
                          status |-> status, index |-> Len(log[r.node]) + 1,
                          in_term |-> leading[r.node]]
    BY <1>5 DEF Awaits
  <2>5. handlers'[h] \in Awaiting
    BY <2>2, <2>3, <2>4 DEF Awaiting
  <2> QED
    BY <2>5 DEF AnyHandler
<1>6. ASSUME verify_leadership(h) PROVE handlers'[h] \in AnyHandler
  <2>1. r \in Arrived
    BY <1>6, VerifyIs
  <2>2. PICK late \in BOOLEAN, target \in Nat : Verifies(h, r, late, target)
    BY <1>6, VerifyIs
  <2>3. r.live \in BOOLEAN /\ r.client \in Clients /\ r.node \in Node /\ r.min \in Nat
    BY <2>1 DEF Arrived
  <2>4. committed[r.node] \in Nat /\ leading[r.node] \in Nat
    BY <2>3 DEF ReplicaTypes
  <2> DEFINE nw == Newest(r.node)
             qt == target > current_read_epoch[r.node] /\ ~ late /\ ~ acks_in_flight[r.node]
  <2>5. nw \in BOOLEAN /\ qt \in BOOLEAN
    BY DEF Newest
  <2>6. handlers'[h] = [at |-> "probing", live |-> r.live, client |-> r.client, node |-> r.node, min |-> r.min,
                        horizon |-> committed[r.node], epoch |-> target, in_term |-> leading[r.node],
                        newest |-> nw, quiet |-> qt]
    BY <2>2 DEF Verifies
  <2> HIDE DEF nw, qt, r
  <2>7. handlers'[h] \in Querying
    BY <2>3, <2>4, <2>5, <2>6 DEF Querying
  <2> QED
    BY <2>7 DEF AnyHandler
<1>7. ASSUME Confirms(h) \/ Passes(h) PROVE handlers'[h] \in AnyHandler
  <2>1. /\ r \in Querying
        /\ handlers'[h] = [r EXCEPT !.at = "fencing"] \/ handlers'[h] = [r EXCEPT !.at = "reading"]
    BY <1>7, HandlerKinds DEF Confirms, Passes
  <2>2. [r EXCEPT !.at = "fencing"] \in Querying /\ [r EXCEPT !.at = "reading"] \in Querying
    BY <2>1 DEF Querying
  <2> QED
    BY <2>1, <2>2 DEF AnyHandler
<1> QED
  BY <1>0, <1>1, <1>2, <1>3, <1>4, <1>5, <1>6, <1>7 DEF HandlerStep

-----------------------------------------------------------------------------
(* Who waits for whom *)

\* A handler that answers a client after the step did so before it.
LiveFrom(h) ==
    handlers'[h].at # "free" /\ handlers'[h].live =>
        handlers[h].at # "free" /\ handlers[h].live /\ handlers'[h].client = handlers[h].client

\* No step but a new request makes a handler live.
LEMMA StepLive ==
    ASSUME ReplicaTypes, HandlerTypes, ProbeTypes, NEW h \in Slots,
           \/ handlers'[h] = handlers[h]
           \/ Ends(h) \/ Admits(h) \/ Enters(h) \/ Awaits(h)
           \/ verify_leadership(h) \/ Confirms(h) \/ Passes(h)
    PROVE  LiveFrom(h)
<1> DEFINE r == handlers[h]
<1>0. r \in AnyHandler
  BY HandlerKinds
<1>1. ASSUME Ends(h) PROVE LiveFrom(h)
  <2>1. handlers'[h] = Free => handlers'[h].at = "free"
    BY DEF Free
  <2>2. r = Free => [r EXCEPT !.live = FALSE].at = "free"
    BY DEF Free
  <2>3. r \in Arrived \cup Evaluating \cup Awaiting \cup Querying => ~ [r EXCEPT !.live = FALSE].live
    BY DEF Arrived, Evaluating, Awaiting, Querying
  <2> QED
    BY <1>0, <1>1, <2>1, <2>2, <2>3 DEF Ends, AnyHandler, LiveFrom
<1>2. ASSUME Admits(h) PROVE LiveFrom(h)
  <2>1. r \in Arrived /\ r.at = "sent" /\ handlers'[h] = [r EXCEPT !.at = "queued"]
    BY <1>2, HandlerKinds DEF Admits
  <2>2. handlers'[h].live = r.live /\ handlers'[h].client = r.client /\ r.at # "free"
    BY <2>1 DEF Arrived
  <2> QED
    BY <2>2 DEF LiveFrom
<1>3. ASSUME Enters(h) PROVE LiveFrom(h)
  <2>1. handlers'[h].live = r.live /\ handlers'[h].client = r.client /\ r.at # "free"
    BY <1>3 DEF Enters
  <2> QED
    BY <2>1 DEF LiveFrom
<1>4. ASSUME Awaits(h) PROVE LiveFrom(h)
  <2>1. handlers'[h].live = r.live /\ handlers'[h].client = r.client /\ r.at # "free"
    BY <1>4 DEF Awaits
  <2> QED
    BY <2>1 DEF LiveFrom
<1>5. ASSUME verify_leadership(h) PROVE LiveFrom(h)
  <2>1. PICK late \in BOOLEAN, target \in Nat : Verifies(h, r, late, target)
    BY <1>5, VerifyIs
  <2>2. handlers'[h].live = r.live /\ handlers'[h].client = r.client /\ r.at # "free"
    BY <2>1 DEF Verifies
  <2> QED
    BY <2>2 DEF LiveFrom
<1>6. ASSUME Confirms(h) \/ Passes(h) PROVE LiveFrom(h)
  <2>1. /\ r \in Querying
        /\ handlers'[h] = [r EXCEPT !.at = "fencing"] \/ handlers'[h] = [r EXCEPT !.at = "reading"]
    BY <1>6, HandlerKinds DEF Confirms, Passes
  <2>2. handlers'[h].live = r.live /\ handlers'[h].client = r.client /\ r.at # "free"
    BY <2>1 DEF Querying
  <2> QED
    BY <2>2 DEF LiveFrom
<1> QED
  BY <1>1, <1>2, <1>3, <1>4, <1>5, <1>6 DEF LiveFrom

\* The invariant survives when live handlers and their clients stay.
LEMMA LiveRest ==
    ASSUME LiveInv, \A h \in Slots : LiveFrom(h),
           \A h \in Slots : handlers'[h].at # "free" /\ handlers'[h].live =>
                point'[handlers'[h].client] = point[handlers'[h].client]
    PROVE  LiveInv'
<1>1. ASSUME NEW h \in Slots, handlers'[h].at # "free", handlers'[h].live
      PROVE  /\ h \in Busy /\ handlers[h].live /\ handlers'[h].client = handlers[h].client
             /\ point'[handlers'[h].client] = "waiting"
  <2>1. h \in Busy /\ handlers[h].live /\ handlers'[h].client = handlers[h].client
    BY <1>1 DEF LiveFrom, Busy
  <2> QED
    BY <1>1, <2>1 DEF LiveInv
<1> QED
  BY <1>1 DEF LiveInv, Busy

\* Points of other clients stay.
LEMMA OtherPoints ==
    ASSUME ClientTypes, NEW c \in Clients, ClientStep(c), NEW e \in Clients, e # c
    PROVE  point'[e] = point[e]
BY DEF ClientStep, ClientTypes

\* A handler belongs to a client.
LEMMA LiveClient ==
    ASSUME HandlerTypes, NEW h \in Slots, handlers[h].at # "free"
    PROVE  handlers[h].client \in Clients
BY DEF HandlerTypes, Free, Arrived, Evaluating, Awaiting, Querying

\* Versions a user may ask for are naturals.
LEMMA VersionsType ==
    ASSUME ReplicaTypes PROVE Versions \subseteq Nat
BY DEF ReplicaTypes, Versions

\* Which client moves.
ClientMoves ==
    \/ UNCHANGED clientVars
    \/ \E c \in Clients : ClientStep(c)

\* A command at the prompt moves its client only, which is not waiting.
LEMMA CommandMoves ==
    ASSUME ReplicaTypes, ClientTypes, SequenceInv, NEW c \in Clients, Command(c)
    PROVE  ClientStep(c) /\ point[c] # "waiting" /\ UNCHANGED handlers
<1>1. ClientStep(c)
  BY ClientSteps, VersionsType DEF Command
<1>2. point[c] # "waiting"
  BY DEF Command, next_sequence_id, append, query_state, GiveUp, restart
<1> QED
  BY <1>1, <1>2 DEF Command

\* An answer moves the client of its handler, if that still waits.
LEMMA ReplyMoves ==
    ASSUME ReplicaTypes, HandlerTypes, ClientTypes, SequenceInv, NEW h \in Slots, Reply(h)
    PROVE  /\ handlers[h].client \in Clients /\ GoOn(h, Free)
           /\ IF handlers[h].live THEN ClientStep(handlers[h].client) ELSE UNCHANGED clientVars
<1>1. handlers[h].client \in Clients /\ GoOn(h, Free)
  BY LiveClient DEF Reply, Busy
<1>2. PICK answer \in Answers(handlers[h]) :
          IF handlers[h].live THEN receive(handlers[h].client, answer, None) ELSE UNCHANGED clientVars
  BY DEF Reply
<1> QED
  BY <1>1, <1>2, ClientSteps

\* In every step at most one client moves.
LEMMA ClientMovesAre ==
    ASSUME ReplicaTypes, HandlerTypes, ClientTypes, SequenceInv, [Next]_vars
    PROVE  ClientMoves
<1>1. ASSUME UNCHANGED vars PROVE UNCHANGED clientVars
  BY <1>1 DEF vars
<1>2. ASSUME NEW c \in Clients, Timeout(c) \/ Crash(c) \/ \E n \in Node : Send(c, n) PROVE ClientStep(c)
  BY <1>2, ClientSteps DEF Timeout, Crash, Send
<1>3. ASSUME NEW h \in Slots, Handle(h) \/ HandleProposal(h) \/ Drop(h) PROVE UNCHANGED clientVars
  BY <1>3 DEF Handle, HandleProposal, Drop
<1>4. ASSUME Replicate \/ Probe PROVE UNCHANGED clientVars
  BY <1>4 DEF Replicate, Probe
<1> QED
  BY <1>1, <1>2, <1>3, <1>4, CommandMoves, ReplyMoves DEF Next, ClientMoves

\* Only a client that waits has a live handler, and one at most.
LEMMA LiveKept ==
    ASSUME ReplicaTypes, HandlerTypes, ProbeTypes, ClientTypes, SequenceInv, LiveInv, [Next]_vars
    PROVE  LiveInv'
<1>1. ASSUME UNCHANGED clientVars, \A h \in Slots : LiveFrom(h) PROVE LiveInv'
  <2>1. UNCHANGED point
    BY <1>1 DEF clientVars, session
  <2> QED
    BY <1>1, <2>1, LiveRest
<1>2. ASSUME UNCHANGED handlers PROVE \A h \in Slots : LiveFrom(h)
  BY <1>2 DEF LiveFrom
<1>3. ASSUME NEW c \in Clients, Command(c) PROVE LiveInv'
  <2>1. ClientStep(c) /\ point[c] # "waiting" /\ UNCHANGED handlers
    BY <1>3, CommandMoves
  <2>2. ASSUME NEW h \in Slots, handlers'[h].at # "free", handlers'[h].live
        PROVE  point'[handlers'[h].client] = point[handlers'[h].client]
    <3>1. handlers'[h].client # c /\ handlers'[h].client \in Clients
      BY <2>1, <2>2, LiveClient DEF LiveInv, Busy
    <3> QED
      BY <2>1, <3>1, OtherPoints
  <2> QED
    BY <1>2, <2>1, <2>2, LiveRest
<1>4. ASSUME NEW c \in Clients, Timeout(c) \/ Crash(c) PROVE LiveInv'
  <2>1. ClientStep(c) /\ handlers' = Orphaned(c)
    BY <1>4, ClientSteps DEF Timeout, Crash
  <2>2. /\ \A h \in Slots : handlers'[h] = handlers[h] \/ Ends(h)
        /\ \A h \in Slots : handlers[h].at # "free" /\ handlers[h].client = c => Ends(h)
    BY <2>1, OrphanedIs
  <2>3. \A h \in Slots : LiveFrom(h)
    BY <2>2, StepLive
  <2>4. ASSUME NEW h \in Slots, handlers'[h].at # "free", handlers'[h].live
        PROVE  point'[handlers'[h].client] = point[handlers'[h].client]
    <3>1. handlers[h].at # "free" /\ handlers'[h].client = handlers[h].client
      BY <2>3, <2>4 DEF LiveFrom
    <3>2. ~ Ends(h)
      <4>1. handlers[h] \in Arrived \cup Evaluating \cup Awaiting \cup Querying
        BY <3>1, HandlerKinds DEF AnyHandler, Free
      <4>2. ~ [handlers[h] EXCEPT !.live = FALSE].live
        BY <4>1 DEF Arrived, Evaluating, Awaiting, Querying
      <4>3. Free.at = "free"
        BY DEF Free
      <4> QED
        BY <2>4, <4>2, <4>3 DEF Ends
    <3>3. handlers[h].client # c /\ handlers[h].client \in Clients
      BY <2>2, <3>1, <3>2, LiveClient
    <3> QED
      BY <2>1, <3>1, <3>3, OtherPoints
  <2> QED
    BY <2>3, <2>4, LiveRest
<1>5. ASSUME NEW c \in Clients, NEW n \in Node, Send(c, n) PROVE LiveInv'
  <2> DEFINE q == Request(c, current[c], n)
             g == Min(Slots \ Busy)
  <2>1. GoOn(g, q) /\ point[c] = "sending" /\ point' = [point EXCEPT ![c] = "waiting"]
    BY <1>5 DEF Send, send
  <2> HIDE DEF g
  <2>2. \A h \in Slots : handlers'[h] = IF h = g THEN q ELSE handlers[h]
    BY <2>1, GoOnIs
  <2>3. q.client = c /\ q.live /\ q.at # "free"
    BY DEF Request
  <2> HIDE DEF q
  <2>4. point'[c] = "waiting" /\ \A e \in Clients : e # c => point'[e] = point[e]
    BY <2>1 DEF ClientTypes
  <2>5. ASSUME NEW h \in Slots, handlers'[h].at # "free", handlers'[h].live, h # g
        PROVE  /\ h \in Busy /\ handlers[h].live /\ handlers'[h] = handlers[h]
               /\ handlers[h].client # c /\ point'[handlers[h].client] = "waiting"
    <3>1. handlers'[h] = handlers[h] /\ h \in Busy
      BY <2>2, <2>5 DEF Busy
    <3>2. point[handlers[h].client] = "waiting" /\ handlers[h].client \in Clients
      BY <2>5, <3>1, LiveClient DEF LiveInv
    <3> QED
      BY <2>1, <2>4, <2>5, <3>1, <3>2
  <2>6. ASSUME NEW h \in Slots, handlers'[h].at # "free", handlers'[h].live
        PROVE  point'[handlers'[h].client] = "waiting" /\ (handlers'[h].client = c => h = g)
    <3>1. CASE h = g
      BY <2>2, <2>3, <2>4, <3>1
    <3>2. CASE h # g
      BY <2>5, <2>6, <3>2
    <3> QED
      BY <3>1, <3>2
  <2>7. ASSUME NEW f \in Slots, NEW h \in Slots, handlers'[h].at # "free", handlers'[h].live,
               handlers'[f].at # "free", handlers'[f].live, handlers'[f].client = handlers'[h].client
        PROVE  f = h
    <3>1. CASE f = g
      BY <2>2, <2>3, <2>6, <2>7, <3>1
    <3>2. CASE h = g
      BY <2>2, <2>3, <2>6, <2>7, <3>2
    <3>3. CASE f # g /\ h # g
      BY <2>5, <2>7, <3>3 DEF LiveInv
    <3> QED
      BY <3>1, <3>2, <3>3
  <2> QED
    BY <2>6, <2>7 DEF LiveInv, Busy
<1>6. ASSUME NEW g \in Slots, GoOn(g, Free)
      PROVE  /\ \A h \in Slots : LiveFrom(h)
             /\ handlers'[g].at = "free"
  <2>1. \A h \in Slots : handlers'[h] = IF h = g THEN Free ELSE handlers[h]
    BY <1>6, GoOnIs
  <2>2. \A h \in Slots : handlers'[h] = handlers[h] \/ Ends(h)
    BY <2>1 DEF Ends
  <2>3. \A h \in Slots : LiveFrom(h)
    BY <2>2, StepLive
  <2> QED
    BY <2>1, <2>3 DEF Free
<1>7. ASSUME NEW g \in Slots, Reply(g) PROVE LiveInv'
  <2>1. /\ handlers[g].client \in Clients /\ GoOn(g, Free)
        /\ IF handlers[g].live THEN ClientStep(handlers[g].client) ELSE UNCHANGED clientVars
    BY <1>7, ReplyMoves
  <2>2. (\A h \in Slots : LiveFrom(h)) /\ handlers'[g].at = "free"
    BY <1>6, <2>1
  <2>3. CASE ~ handlers[g].live
    BY <1>1, <2>1, <2>2, <2>3
  <2>4. CASE handlers[g].live
    <3>1. ASSUME NEW h \in Slots, handlers'[h].at # "free", handlers'[h].live
          PROVE  point'[handlers'[h].client] = point[handlers'[h].client]
      <4>1. h # g /\ h \in Busy /\ handlers[h].live /\ handlers'[h].client = handlers[h].client
        BY <2>2, <3>1 DEF LiveFrom, Busy
      <4>2. g \in Busy
        BY <1>7 DEF Reply
      <4>3. handlers[h].client # handlers[g].client /\ handlers[h].client \in Clients
        BY <2>4, <4>1, <4>2, LiveClient DEF LiveInv, Busy
      <4> QED
        BY <2>1, <2>4, <4>1, <4>3, OtherPoints
    <3> QED
      BY <2>2, <3>1, LiveRest
  <2> QED
    BY <2>3, <2>4
<1>8. ASSUME NEW g \in Slots, Drop(g) PROVE LiveInv'
  <2>1. GoOn(g, Free) /\ UNCHANGED clientVars
    BY <1>8 DEF Drop
  <2> QED
    BY <1>1, <1>6, <2>1
<1>9. ASSUME NEW g \in Slots, Handle(g) PROVE LiveInv'
  <2>1. Proceed(g) /\ UNCHANGED clientVars
    BY <1>9 DEF Handle
  <2>2. \A h \in Slots : LiveFrom(h)
    BY <2>1, ProceedSteps, StepLive
  <2> QED
    BY <1>1, <2>1, <2>2
<1>10. ASSUME NEW g \in Slots, HandleProposal(g) PROVE LiveInv'
  <2>1. commit_to_consensus(g) /\ UNCHANGED clientVars
    BY <1>10 DEF HandleProposal
  <2>2. \A h \in Slots : LiveFrom(h)
    BY <2>1, AwaitSteps, StepLive
  <2> QED
    BY <1>1, <2>1, <2>2
<1>11. ASSUME Replicate \/ Probe \/ UNCHANGED vars PROVE LiveInv'
  <2>1. UNCHANGED handlers /\ UNCHANGED clientVars
    BY <1>11 DEF Replicate, Probe, Heartbeat, ReceiveAcks, vars
  <2> QED
    BY <1>1, <1>2, <2>1
<1> QED
  BY <1>3, <1>4, <1>5, <1>7, <1>8, <1>9, <1>10, <1>11 DEF Next

-----------------------------------------------------------------------------
(* Steps of the replicas *)

\* What is chosen stays chosen.
ChosenGrows ==
    /\ chosen' \in Seq(Mutation) /\ Len(chosen) <= Len(chosen')
    /\ \A i \in 1..Len(chosen) : chosen'[i] = chosen[i]

\* The stores see no difference when more is chosen.
LEMMA StoresStay ==
    ASSUME ReplicaInv, SessionInv, StoresFollowTheLog, ChosenGrows, UNCHANGED <<store, covered>>
    PROVE  SessionInv' /\ StoresFollowTheLog'
<1> USE DEF ReplicaInv
<1>1. /\ chosen \in Seq(Mutation) /\ chosen' \in Seq(Mutation) /\ Len(chosen) \in Nat /\ Len(chosen') \in Nat
      /\ Len(chosen) <= Len(chosen') /\ \A i \in 1..Len(chosen) : chosen'[i] = chosen[i]
  BY DEF ReplicaTypes, ChosenGrows
<1>2. \A n \in Node : covered[n] \in Nat /\ covered[n] <= Len(chosen)
  BY DEF ReplicaTypes, ProgressInv
<1>3. ASSUME NEW n \in Node PROVE \A i \in 1..covered[n] : chosen'[i] = chosen[i]
  BY <1>1, <1>2
<1>4. SessionInv'
  <2> SUFFICES ASSUME NEW n \in Node
               PROVE  /\ ~ store[n].poisoned
                      /\ \A i \in 1..covered[n] : chosen'[i].seq <= Latest(store[n], chosen'[i].client)
                      /\ \A c \in Clients : Latest(store[n], c) # 0 =>
                            \E i \in 1..covered[n] : chosen'[i].client = c /\ chosen'[i].seq = Latest(store[n], c)
    BY DEF SessionInv, Latest
  <2> QED
    BY <1>3 DEF SessionInv
<1>5. ASSUME NEW n \in Node PROVE SubSeq(chosen', 1, covered[n]) = SubSeq(chosen, 1, covered[n])
  <2> DEFINE k == covered[n]
             a == SubSeq(chosen, 1, k)
             b == SubSeq(chosen', 1, k)
  <2>1. k \in Nat /\ k <= Len(chosen) /\ k <= Len(chosen')
    BY <1>1, <1>2
  <2> HIDE DEF k
  <2>2. a \in Seq(Mutation) /\ Len(a) = k /\ \A i \in 1..k : a[i] = chosen[i]
    BY <1>1, <2>1, PrefixOf
  <2>3. b \in Seq(Mutation) /\ Len(b) = k /\ \A i \in 1..k : b[i] = chosen'[i]
    BY <1>1, <2>1, PrefixOf
  <2> HIDE DEF a, b
  <2>4. \A i \in 1..k : a[i] = b[i]
    BY <1>3, <2>2, <2>3 DEF k
  <2>5. a = b
    BY <2>2, <2>3, <2>4, SeqEqual
  <2> QED
    BY <2>5 DEF a, b, k
<1>6. StoresFollowTheLog'
  BY <1>5 DEF StoresFollowTheLog
<1> QED
  BY <1>4, <1>6

\* What one step does to the stores.
StoresAdvance ==
    \A n \in Node : /\ covered'[n] >= covered[n] => Advances(store[n], store'[n])
                    /\ store'[n].applied >= store[n].applied

\* Stores that stay have not gone back.
LEMMA SameStoresAdvance ==
    ASSUME ReplicaTypes, UNCHANGED <<store, covered>>
    PROVE  StoresAdvance
<1>1. ASSUME NEW n \in Node PROVE Advances(store[n], store[n]) /\ store[n].applied >= store[n].applied
  <2>1. store[n] \in Store /\ store[n].applied \in Nat
    BY StoreFields
  <2> QED
    BY <2>1, AdvancesStays
<1> QED
  BY <1>1 DEF StoresAdvance

\* One store advances and the others stay.
LEMMA OneStoreAdvances ==
    ASSUME ReplicaTypes, NEW n \in Node, NEW nu, NEW k, store' = [store EXCEPT ![n] = nu],
           covered' = [covered EXCEPT ![n] = k],
           k >= covered[n] => Advances(store[n], nu), nu.applied >= store[n].applied
    PROVE  StoresAdvance
<1>1. ASSUME NEW p \in Node, p # n PROVE Advances(store[p], store[p]) /\ store[p].applied >= store[p].applied
  <2>1. store[p] \in Store /\ store[p].applied \in Nat
    BY StoreFields
  <2> QED
    BY <2>1, AdvancesStays
<1>2. \A p \in Node : /\ store'[p] = (IF p = n THEN nu ELSE store[p])
                      /\ covered'[p] = (IF p = n THEN k ELSE covered[p])
  BY DEF ReplicaTypes
<1> QED
  BY <1>1, <1>2 DEF StoresAdvance

\* What is chosen may stay.
LEMMA SameChosenGrows ==
    ASSUME ReplicaTypes, UNCHANGED chosen
    PROVE  ChosenGrows
<1>1. chosen \in Seq(Mutation) /\ Len(chosen) \in Nat
  BY DEF ReplicaTypes
<1> QED
  BY <1>1 DEF ChosenGrows

\* Every step keeps the replicas' invariants.
LEMMA ReplicaKept ==
    ASSUME ReplicaInv, HandlerTypes, OrderInv, SessionInv, StoresFollowTheLog, [Next]_vars
    PROVE  /\ ReplicaInv' /\ SessionInv' /\ StoresFollowTheLog'
           /\ ChosenGrows /\ StoresAdvance
<1> DEFINE Goal == /\ ReplicaInv' /\ SessionInv' /\ StoresFollowTheLog'
                   /\ ChosenGrows /\ StoresAdvance
<1>0. ReplicaTypes
  BY DEF ReplicaInv
<1>1. ASSUME ReplicaInv', UNCHANGED <<store, covered>>, UNCHANGED chosen \/ ChosenGrows PROVE Goal
  <2>1. ChosenGrows
    BY <1>0, <1>1, SameChosenGrows
  <2> QED
    BY <1>0, <1>1, <2>1, StoresStay, SameStoresAdvance
<1>2. ASSUME UNCHANGED <<raft, fsm>> PROVE Goal
  <2>1. UNCHANGED <<chosen, log, committed, leading, term, store, covered>>
    BY <1>2 DEF raft, fsm
  <2>2. ReplicaInv'
    BY <2>1 DEF ReplicaInv, ReplicaTypes, LeaderInv, ChoiceInv, ProgressInv, Newest, is_leader
  <2> QED
    BY <1>1, <2>1, <2>2
<1>3. ASSUME NEW h \in Slots, NEW n \in Node, NEW m \in Mutation, Proposes(h, n, m) PROVE Goal
  <2>1. ReplicaInv'
    BY <1>3, ProposalKeeps
  <2>2. UNCHANGED <<store, covered>> /\ UNCHANGED chosen
    BY <1>3 DEF Proposes
  <2> QED
    BY <1>1, <2>1, <2>2
<1>4. ASSUME NEW n \in Node, into_leader(n) PROVE Goal
  <2>1. ReplicaInv'
    BY <1>4, ElectionKeeps
  <2>2. UNCHANGED <<store, covered>> /\ UNCHANGED chosen
    BY <1>4 DEF into_leader, fsm
  <2> QED
    BY <1>1, <2>1, <2>2
<1>5. ASSUME NEW n \in Node, into_follower(n) PROVE Goal
  <2>1. ReplicaInv'
    BY <1>5, DemotionKeeps
  <2>2. UNCHANGED <<store, covered>> /\ UNCHANGED chosen
    BY <1>5 DEF into_follower, fsm
  <2> QED
    BY <1>1, <2>1, <2>2
<1>6. ASSUME NEW n \in Node, ReachQuorum(n) PROVE Goal
  <2>1. ReplicaInv'
    BY <1>6, ChoiceKeeps
  <2>2. Len(chosen) \in Nat
    BY <1>0 DEF ReplicaTypes
  <2>3. ChosenGrows /\ UNCHANGED <<store, covered>>
    <3>1. /\ chosen' \in Seq(Mutation) /\ Len(chosen) < Len(chosen')
          /\ \A i \in 1..Len(chosen) : chosen'[i] = chosen[i]
          /\ UNCHANGED <<store, covered>>
      BY <1>6, ChoiceGrows
    <3> QED
      BY <2>2, <3>1 DEF ChosenGrows
  <2> QED
    BY <1>1, <2>1, <2>3
<1>7. ASSUME NEW n \in Node, update_commit_index(n) PROVE Goal
  <2>1. ReplicaInv'
    BY <1>7, CommitKeeps
  <2>2. UNCHANGED <<store, covered>> /\ UNCHANGED chosen
    BY <1>7 DEF update_commit_index, fsm
  <2> QED
    BY <1>1, <2>1, <2>2
<1>8. ASSUME NEW n \in Node, NEW leader \in Node, reconcile_log(n, leader) PROVE Goal
  <2>1. ReplicaInv'
    BY <1>8, ReconcileKeeps
  <2>2. UNCHANGED <<store, covered>> /\ UNCHANGED chosen
    BY <1>8 DEF reconcile_log, fsm
  <2> QED
    BY <1>1, <2>1, <2>2
<1>9. ASSUME NEW n \in Node, apply_committed(n) PROVE Goal
  <2>1. PICK i \in Nat, nu \in Store : Applies(n, i, nu) /\ chosen[i] \in Mutation
    BY <1>9, ApplyIs
  <2>2. ReplicaInv' /\ SessionInv'
    BY <2>1, ApplyKeeps
  <2>3. StoresFollowTheLog' /\ Advances(store[n], nu)
    BY <2>1, ApplyFollows
  <2>4. ChosenGrows
    BY <1>0, <2>1, SameChosenGrows DEF Applies
  <2> DEFINE k == IF i > covered[n] THEN i ELSE covered[n]
  <2>5. store' = [store EXCEPT ![n] = nu] /\ covered' = [covered EXCEPT ![n] = k]
    BY <2>1 DEF Applies
  <2>6. nu.applied >= store[n].applied
    <3>1. store[n] \in Store /\ store[n].applied \in Nat /\ i = store[n].applied + 1
          /\ nu = apply(store[n], store[n].applied + 1, chosen[i])
      BY <1>0, <2>1, StoreFields DEF Applies
    <3>2. ~ store[n].poisoned /\ chosen[i].seq <= Latest(store[n], chosen[i].client) + 1
      BY <2>1, NoGap DEF SessionInv
    <3>3. nu.applied = store[n].applied + 1
      BY <2>1, <3>1, <3>2, ApplyNext
    <3> QED
      BY <3>1, <3>3
  <2> HIDE DEF k
  <2>7. StoresAdvance
    BY <1>0, <2>3, <2>5, <2>6, OneStoreAdvances
  <2> QED
    BY <2>2, <2>3, <2>4, <2>7
<1>10. ASSUME NEW n \in Node, NEW leader \in Node, InstallSnapshot(n, leader) PROVE Goal
  <2>1. PICK label \in Nat, nu \in Store : Installs(n, leader, label, nu)
    BY <1>10, InstallIs
  <2>2. ReplicaInv' /\ SessionInv'
    BY <2>1, InstallKeeps
  <2>3. StoresFollowTheLog' /\ (covered'[n] >= covered[n] => Advances(store[n], nu))
    BY <2>1, InstallFollows
  <2>4. ChosenGrows
    BY <1>0, <2>1, SameChosenGrows DEF Installs
  <2>5. /\ store' = [store EXCEPT ![n] = nu] /\ covered' = [covered EXCEPT ![n] = covered[leader]]
        /\ nu.applied = label /\ label > store[n].applied
    BY <2>1 DEF Installs
  <2>6. nu.applied >= store[n].applied /\ covered'[n] = covered[leader]
    <3>1. store[n].applied \in Nat /\ covered \in [Node -> Nat]
      BY <1>0, StoreFields DEF ReplicaTypes
    <3> QED
      BY <2>5, <3>1
  <2>7. StoresAdvance
    BY <1>0, <2>3, <2>5, <2>6, OneStoreAdvances
  <2> QED
    BY <2>2, <2>3, <2>4, <2>7
<1> HIDE DEF Goal
<1>11. ASSUME ConsensusNext PROVE Goal
  BY <1>4, <1>5, <1>6, <1>7, <1>8, <1>9, <1>10, <1>11 DEF ConsensusNext
<1>12. Goal
  BY <1>2, <1>3, <1>11, ReplicaSteps DEF ReplicaStep
<1> QED
  BY <1>12 DEF Goal

-----------------------------------------------------------------------------
(* Where entries come from *)

\* A mutation that some log holds, or that a handler has ready.
Logged(m) == \E p \in Node : \E j \in 1..Len(log[p]) : log[p][j].m = m

Evaluated(m) ==
    \E h \in Slots :
        /\ handlers[h].at = "evaluating"
        /\ m.client = handlers[h].client /\ m.seq = handlers[h].seq
        /\ m.is_delete <=> handlers[h].intent = "delete"

\* An entry of a log was in some log before, or a handler just proposed it.
LEMMA EntriesFrom ==
    ASSUME ReplicaInv, HandlerTypes, SessionInv, [Next]_vars,
           NEW n \in Node, NEW i \in 1..Len(log'[n])
    PROVE  Logged(log'[n][i].m) \/ Evaluated(log'[n][i].m)
<1> USE DEF ReplicaInv
<1>1. log \in [Node -> Seq(Entry)] /\ \A p \in Node : log[p] \in Seq(Entry) /\ Len(log[p]) \in Nat
  BY DEF ReplicaTypes
<1>2. ASSUME log'[n] = log[n] PROVE Logged(log'[n][i].m)
  BY <1>2 DEF Logged
<1>3. ASSUME UNCHANGED log PROVE Logged(log'[n][i].m)
  BY <1>2, <1>3
<1>4. ASSUME NEW h \in Slots, NEW p \in Node, NEW m \in Mutation, Proposes(h, p, m)
      PROVE  Logged(log'[n][i].m) \/ Evaluated(log'[n][i].m)
  <2> DEFINE e == [term |-> leading[p], m |-> m]
  <2>1. log' = [log EXCEPT ![p] = Append(log[p], e)]
    BY <1>4 DEF Proposes
  <2>2. CASE n # p
    <3>1. log'[n] = log[n]
      BY <1>1, <2>1, <2>2
    <3> QED
      BY <1>2, <3>1
  <2>3. CASE n = p
    <3>1. e \in Entry
      BY DEF Entry, ReplicaTypes
    <3>2. e.m = m
      OBVIOUS
    <3> HIDE DEF e
    <3>3. log'[n] = Append(log[n], e)
      BY <1>1, <2>1, <2>3
    <3>4. /\ Len(log'[n]) = Len(log[n]) + 1 /\ log'[n][Len(log[n]) + 1] = e
          /\ \A j \in 1..Len(log[n]) : log'[n][j] = log[n][j]
      BY <1>1, <3>1, <3>3, AppendProperties
    <3>5. CASE i = Len(log[n]) + 1
      <4>1. log'[n][i].m = m
        BY <3>2, <3>4, <3>5
      <4>2. Evaluated(m)
        BY <1>4 DEF Proposes, Evaluated
      <4> QED
        BY <4>1, <4>2
    <3>6. CASE i # Len(log[n]) + 1
      <4>1. i \in 1..Len(log[n])
        BY <1>1, <3>4, <3>6
      <4> QED
        BY <3>4, <4>1 DEF Logged
    <3> QED
      BY <3>5, <3>6
  <2> QED
    BY <2>2, <2>3
<1>5. ASSUME NEW p \in Node, NEW leader \in Node, reconcile_log(p, leader) PROVE Logged(log'[n][i].m)
  <2>1. log' = [log EXCEPT ![p] = log[leader]]
    BY <1>5 DEF reconcile_log
  <2>2. log'[n] = log[n] \/ log'[n] = log[leader]
    BY <1>1, <2>1
  <2> QED
    BY <2>2 DEF Logged
<1>6. ASSUME NEW p \in Node, NEW leader \in Node, InstallSnapshot(p, leader) PROVE Logged(log'[n][i].m)
  <2>1. PICK label \in Nat, nu \in Store : Installs(p, leader, label, nu)
    BY <1>6, InstallIs
  <2> DEFINE x == SubSeq(log[leader], 1, label)
             y == SubSeq(log[p], label + 1, Len(log[p]))
  <2>2. log' = [log EXCEPT ![p] = x \o y]
    BY <2>1 DEF Installs
  <2>3. CASE n # p
    <3>1. log'[n] = log[n]
      BY <1>1, <2>2, <2>3
    <3> QED
      BY <1>2, <3>1
  <2>4. CASE n = p
    <3>1. label <= Len(log[leader])
      <4>1. /\ label <= store[leader].applied /\ store[leader].applied <= committed[leader]
            /\ committed[leader] <= Len(log[leader])
        BY <2>1 DEF Installs, ProgressInv, ChoiceInv, Holds
      <4>2. store[leader].applied \in Nat /\ committed[leader] \in Nat
        BY StoreFields
      <4> QED
        BY <1>1, <4>1, <4>2
    <3>2. x \in Seq(Entry) /\ Len(x) = label /\ \A j \in 1..label : x[j] = log[leader][j]
      BY <1>1, <3>1, PrefixOf
    <3>3. /\ y \in Seq(Entry) /\ Len(y) \in Nat
          /\ \A j \in 1..Len(y) : label + j \in 1..Len(log[p]) /\ y[j] = log[p][label + j]
      <4>1. \A j \in (label + 1)..Len(log[p]) : log[p][j] \in Entry
        BY <1>1
      <4>2. /\ y \in Seq(Entry)
            /\ Len(y) = IF label + 1 <= Len(log[p]) THEN Len(log[p]) - (label + 1) + 1 ELSE 0
            /\ \A j \in 1..(Len(log[p]) - (label + 1) + 1) : y[j] = log[p][(label + 1) + j - 1]
        BY <1>1, <4>1, SubSeqProperties
      <4> HIDE DEF y
      <4>3. \A j \in 1..Len(y) : j \in 1..(Len(log[p]) - (label + 1) + 1) /\ (label + 1) + j - 1 = label + j
                                 /\ label + j \in 1..Len(log[p])
        BY <1>1, <4>2
      <4>4. Len(y) \in Nat
        BY <4>2, LenProperties
      <4>5. ASSUME NEW j \in 1..Len(y) PROVE y[j] = log[p][label + j]
        <5>1. y[j] = log[p][(label + 1) + j - 1] /\ (label + 1) + j - 1 = label + j
          BY <4>2, <4>3
        <5> QED
          BY <5>1
      <4> QED
        BY <4>2, <4>3, <4>4, <4>5
    <3> HIDE DEF x, y
    <3>4. log'[n] = x \o y
      BY <1>1, <2>2, <2>4
    <3>5. /\ Len(log'[n]) = label + Len(y)
          /\ \A j \in 1..(label + Len(y)) : log'[n][j] = IF j <= label THEN x[j] ELSE y[j - label]
      <4>1. /\ Len(x \o y) = Len(x) + Len(y)
            /\ \A j \in 1..(Len(x) + Len(y)) : (x \o y)[j] = IF j <= Len(x) THEN x[j] ELSE y[j - Len(x)]
        BY <3>2, <3>3, ConcatProperties
      <4> QED
        BY <3>2, <3>4, <4>1
    <3>6. CASE i <= label
      <4>1. i \in 1..label /\ i \in 1..Len(log[leader]) /\ i \in 1..(label + Len(y))
        BY <1>1, <3>1, <3>3, <3>5, <3>6
      <4>2. log'[n][i] = log[leader][i]
        BY <3>2, <3>5, <3>6, <4>1
      <4> QED
        BY <4>1, <4>2 DEF Logged
    <3>7. CASE ~ (i <= label)
      <4>1. i - label \in 1..Len(y) /\ label + (i - label) = i /\ i \in 1..(label + Len(y))
        BY <3>3, <3>5, <3>7
      <4>2. i \in 1..Len(log[p]) /\ log'[n][i] = log[p][i]
        BY <3>3, <3>5, <3>7, <4>1
      <4> QED
        BY <4>2 DEF Logged
    <3> QED
      BY <3>6, <3>7
  <2> QED
    BY <2>3, <2>4
<1>7. ASSUME NEW p \in Node, into_leader(p) \/ into_follower(p) \/ ReachQuorum(p) \/ update_commit_index(p)
                             \/ apply_committed(p)
      PROVE  UNCHANGED log
  BY <1>7 DEF into_leader, into_follower, ReachQuorum, update_commit_index, apply_committed, raft
<1>8. ASSUME UNCHANGED <<raft, fsm>> PROVE UNCHANGED log
  BY <1>8 DEF raft
<1>9. ASSUME ConsensusNext PROVE Logged(log'[n][i].m)
  BY <1>3, <1>5, <1>6, <1>7, <1>9 DEF ConsensusNext
<1> QED
  BY <1>3, <1>4, <1>8, <1>9, ReplicaSteps DEF ReplicaStep

\* What is newly chosen comes from a log, at its place.
LEMMA ChosenFrom ==
    ASSUME ReplicaInv, HandlerTypes, [Next]_vars, NEW i \in 1..Len(chosen')
    PROVE  \/ i \in 1..Len(chosen) /\ chosen'[i] = chosen[i]
           \/ i > Len(chosen) /\ Logged(chosen'[i])
<1>0. Len(chosen) \in Nat
  BY DEF ReplicaInv, ReplicaTypes
<1>1. ASSUME UNCHANGED chosen PROVE i \in 1..Len(chosen) /\ chosen'[i] = chosen[i]
  BY <1>1
<1>2. ASSUME NEW n \in Node, ReachQuorum(n)
      PROVE  \/ i \in 1..Len(chosen) /\ chosen'[i] = chosen[i]
             \/ i > Len(chosen) /\ Logged(chosen'[i])
  <2>1. /\ Len(chosen') = Len(log[n])
        /\ \A j \in 1..Len(chosen') : chosen'[j] = log[n][j].m
        /\ \A j \in 1..Len(chosen) : chosen'[j] = chosen[j]
    BY <1>2, ChoiceGrows
  <2>2. Logged(chosen'[i])
    BY <2>1 DEF Logged
  <2> QED
    BY <1>0, <2>1, <2>2
<1>3. ASSUME NEW h \in Slots, NEW n \in Node, NEW m \in Mutation, Proposes(h, n, m) PROVE UNCHANGED chosen
  BY <1>3 DEF Proposes
<1>4. ASSUME NEW p \in Node, \/ into_leader(p) \/ into_follower(p) \/ update_commit_index(p) \/ apply_committed(p)
                             \/ \E leader \in Node \ {p} : reconcile_log(p, leader) \/ InstallSnapshot(p, leader)
      PROVE  UNCHANGED chosen
  BY <1>4 DEF into_leader, into_follower, update_commit_index, apply_committed, raft, reconcile_log, InstallSnapshot
<1>5. ASSUME UNCHANGED <<raft, fsm>> PROVE UNCHANGED chosen
  BY <1>5 DEF raft
<1> QED
  BY <1>1, <1>2, <1>3, <1>4, <1>5, ReplicaSteps DEF ReplicaStep, ConsensusNext

-----------------------------------------------------------------------------
(* Nothing overtakes its predecessor *)

\* A predecessor stays where it is when more is chosen.
LEMMA FollowsMore ==
    ASSUME NEW ch, NEW cn, NEW c, NEW q, NEW k \in Nat, NEW l \in Nat, k <= l, Follows(ch, c, q, k),
           \A i \in 1..k : cn[i] = ch[i]
    PROVE  Follows(cn, c, q, l)
<1>1. \A i \in 1..k : i \in 1..l
  OBVIOUS
<1> QED
  BY <1>1 DEF Follows

\* The firewall reads a store that may lag, before the lock: still nothing is
\* queued, appended or chosen before its predecessor is chosen.
LEMMA OrderKept ==
    ASSUME ReplicaInv, HandlerTypes, ProbeTypes, OrderInv, SessionInv, ChosenGrows, [Next]_vars
    PROVE  OrderInv'
<1> USE DEF ReplicaInv
<1> DEFINE k == Len(chosen)
           l == Len(chosen')
<1>1. /\ k \in Nat /\ l \in Nat /\ k <= l /\ \A i \in 1..k : chosen'[i] = chosen[i]
  BY DEF ReplicaTypes, ChosenGrows
<1> HIDE DEF k, l
<1>2. \A c, q : Follows(chosen, c, q, k) => Follows(chosen', c, q, l)
  BY <1>1, FollowsMore
<1>3. ASSUME NEW h \in Slots, handlers'[h].at \in {"queued", "evaluating"}
      PROVE  Follows(chosen', handlers'[h].client, handlers'[h].seq, l)
  <2> DEFINE r == handlers[h]
             s == handlers'[h]
  <2>1. HandlerStep(h)
    BY HandlerSteps
  <2>2. ASSUME r.at \in {"queued", "evaluating"}, s.client = r.client, s.seq = r.seq
        PROVE  Follows(chosen', s.client, s.seq, l)
    <3>1. Follows(chosen, r.client, r.seq, k)
      BY <2>2 DEF OrderInv, k
    <3> QED
      BY <1>2, <2>2, <3>1
  <2>3. CASE s = r
    BY <1>3, <2>2, <2>3
  <2>4. CASE Ends(h)
    <3>1. s # Free
      BY <1>3 DEF Free
    <3>2. s = [r EXCEPT !.live = FALSE]
      BY <2>4, <3>1 DEF Ends
    <3>3. s.at = r.at /\ s.client = r.client /\ s.seq = r.seq
      <4>1. r \in AnyHandler
        BY HandlerKinds
      <4>2. s.at = r.at
        BY <3>2, <4>1 DEF AnyHandler, Free, Arrived, Evaluating, Awaiting, Querying
      <4>3. r \in Arrived \/ r \in Evaluating
        BY <1>3, <4>2, HandlerKinds
      <4> QED
        BY <3>2, <4>2, <4>3 DEF Arrived, Evaluating
    <3> QED
      BY <1>3, <2>2, <3>3
  <2>5. CASE Sends(h)
    <3>1. s.at = "sent"
      BY <2>5 DEF Sends, Request
    <3> QED
      BY <1>3, <3>1
  <2>6. CASE Admits(h)
    <3>1. r.at = "sent" /\ r.seq = Latest(store[r.node], r.client) + 1 /\ s = [r EXCEPT !.at = "queued"]
      BY <2>6 DEF Admits
    <3>2. r \in Arrived
      BY <3>1, HandlerKinds
    <3>3. r.node \in Node /\ r.client \in Clients /\ r.seq \in Nat /\ s.client = r.client /\ s.seq = r.seq
      BY <3>1, <3>2 DEF Arrived
    <3> DEFINE q == Latest(store[r.node], r.client)
    <3>4. q \in Nat
      BY <3>3, LatestType DEF ReplicaTypes
    <3>5. covered[r.node] \in Nat /\ covered[r.node] <= k
      BY <3>3 DEF ReplicaTypes, ProgressInv, k
    <3>6. q # 0 => \E i \in 1..covered[r.node] : chosen[i].client = r.client /\ chosen[i].seq = q
      BY <3>3 DEF SessionInv
    <3>7. q # 0 => \E i \in 1..k : chosen[i].client = r.client /\ chosen[i].seq = q
      BY <1>1, <3>5, <3>6
    <3>8. r.seq >= 1 /\ r.seq - 1 = q /\ (r.seq > 1 => q # 0)
      BY <3>1, <3>4
    <3> HIDE DEF q, r, s
    <3>9. Follows(chosen, r.client, r.seq, k)
      BY <3>7, <3>8 DEF Follows
    <3>10. Follows(chosen', s.client, s.seq, l)
      BY <1>2, <3>3, <3>9
    <3> QED
      BY <3>10 DEF s
  <2>7. CASE Enters(h)
    <3>1. r.at = "queued" /\ s.client = r.client /\ s.seq = r.seq
      BY <2>7 DEF Enters
    <3> QED
      BY <2>2, <3>1
  <2>8. CASE Awaits(h)
    <3>1. s.at = "awaiting"
      BY <2>8 DEF Awaits
    <3> QED
      BY <1>3, <3>1
  <2>9. CASE verify_leadership(h)
    <3>1. PICK late \in BOOLEAN, target \in Nat : Verifies(h, r, late, target)
      BY <2>9, VerifyIs
    <3>2. s.at = "probing"
      BY <3>1 DEF Verifies
    <3> QED
      BY <1>3, <3>2
  <2>10. CASE Confirms(h) \/ Passes(h)
    <3>1. /\ r \in Querying
          /\ s = [r EXCEPT !.at = "fencing"] \/ s = [r EXCEPT !.at = "reading"]
      BY <2>10, HandlerKinds DEF Confirms, Passes
    <3>2. s.at \in {"fencing", "reading"}
      BY <3>1 DEF Querying
    <3> QED
      BY <1>3, <3>2
  <2> QED
    BY <2>1, <2>3, <2>4, <2>5, <2>6, <2>7, <2>8, <2>9, <2>10 DEF HandlerStep
<1>4. ASSUME NEW m, Logged(m) PROVE Follows(chosen, m.client, m.seq, k)
  BY <1>4 DEF Logged, OrderInv, k
<1>5. ASSUME NEW m, Evaluated(m) PROVE Follows(chosen, m.client, m.seq, k)
  BY <1>5 DEF Evaluated, OrderInv, k
<1>6. ASSUME NEW n \in Node, NEW i \in 1..Len(log'[n])
      PROVE  Follows(chosen', log'[n][i].m.client, log'[n][i].m.seq, l)
  <2>1. Logged(log'[n][i].m) \/ Evaluated(log'[n][i].m)
    BY EntriesFrom
  <2> QED
    BY <1>2, <1>4, <1>5, <2>1
<1>7. ASSUME NEW i \in 1..l
      PROVE  Follows(chosen', chosen'[i].client, chosen'[i].seq, i - 1)
  <2>1. CASE i \in 1..k /\ chosen'[i] = chosen[i]
    <3>1. Follows(chosen, chosen[i].client, chosen[i].seq, i - 1)
      BY <2>1 DEF OrderInv, k
    <3>2. i - 1 \in Nat /\ \A j \in 1..(i - 1) : chosen'[j] = chosen[j]
      BY <1>1, <2>1
    <3> QED
      BY <2>1, <3>1, <3>2, FollowsMore
  <2>2. CASE i > k /\ Logged(chosen'[i])
    <3>1. Follows(chosen, chosen'[i].client, chosen'[i].seq, k)
      BY <1>4, <2>2
    <3>2. i - 1 \in Nat /\ k <= i - 1
      BY <1>1, <2>2
    <3> QED
      BY <1>1, <3>1, <3>2, FollowsMore
  <2> QED
    BY <2>1, <2>2, ChosenFrom DEF k, l
<1> QED
  BY <1>3, <1>6, <1>7 DEF OrderInv, l

-----------------------------------------------------------------------------
(* Queries *)

\* A store that has applied the version a query waited for keeps it.
LEMMA FenceKept ==
    ASSUME ReplicaTypes, HandlerTypes, ProbeTypes, FenceInv, StoresAdvance, ReplicaTypes', [Next]_vars
    PROVE  FenceInv'
<1> SUFFICES ASSUME NEW h \in Slots, handlers'[h].at = "reading"
             PROVE  store'[handlers'[h].node].applied >= handlers'[h].min
  BY DEF FenceInv
<1> DEFINE r == handlers[h]
           s == handlers'[h]
<1>1. HandlerStep(h)
  BY HandlerSteps
<1>2. ASSUME r \in Querying, s.node = r.node, s.min = r.min, store[r.node].applied >= r.min
      PROVE  store'[s.node].applied >= s.min
  <2>1. r.node \in Node /\ r.min \in Nat
    BY <1>2 DEF Querying
  <2>2. store[r.node].applied \in Nat /\ store'[r.node].applied >= store[r.node].applied
    BY <2>1, StoreFields DEF StoresAdvance
  <2>3. store'[r.node].applied \in Nat
    <3>1. store'[r.node] \in Store
      BY <2>1 DEF ReplicaTypes
    <3> QED
      BY <3>1 DEF Store
  <2> QED
    BY <1>2, <2>1, <2>2, <2>3
<1>3. CASE s = r
  <2>1. r \in Querying /\ store[r.node].applied >= r.min
    BY <1>3, HandlerKinds DEF FenceInv
  <2> QED
    BY <1>2, <1>3, <2>1
<1>4. CASE Ends(h)
  <2>1. s = [r EXCEPT !.live = FALSE]
    BY <1>4 DEF Ends, Free
  <2>2. s.at = r.at
    <3>1. r \in AnyHandler
      BY HandlerKinds
    <3> QED
      BY <2>1, <3>1 DEF AnyHandler, Free, Arrived, Evaluating, Awaiting, Querying
  <2>3. r \in Querying /\ store[r.node].applied >= r.min
    BY <2>2, HandlerKinds DEF FenceInv
  <2>4. s.node = r.node /\ s.min = r.min
    BY <2>1, <2>3 DEF Querying
  <2> QED
    BY <1>2, <2>3, <2>4
<1>5. CASE Passes(h)
  <2>1. r.at = "fencing" /\ (r.min # 0 => store[r.node].applied >= r.min) /\ s = [r EXCEPT !.at = "reading"]
    BY <1>5 DEF Passes
  <2>2. r \in Querying
    BY <2>1, HandlerKinds
  <2>3. r.node \in Node /\ r.min \in Nat /\ s.node = r.node /\ s.min = r.min
    BY <2>1, <2>2 DEF Querying
  <2>4. store[r.node].applied \in Nat
    BY <2>3, StoreFields
  <2> QED
    BY <1>2, <2>1, <2>2, <2>3, <2>4
<1>6. CASE Sends(h)
  BY <1>6 DEF Sends, Request
<1>7. CASE Admits(h)
  <2>1. r \in Arrived /\ s = [r EXCEPT !.at = "queued"]
    BY <1>7, HandlerKinds DEF Admits
  <2> QED
    BY <2>1 DEF Arrived
<1>8. CASE Enters(h)
  BY <1>8 DEF Enters
<1>9. CASE Awaits(h)
  BY <1>9 DEF Awaits
<1>10. CASE verify_leadership(h)
  <2>1. PICK late \in BOOLEAN, target \in Nat : Verifies(h, r, late, target)
    BY <1>10, VerifyIs
  <2> QED
    BY <2>1 DEF Verifies
<1>11. CASE Confirms(h)
  <2>1. r \in Querying /\ s = [r EXCEPT !.at = "fencing"]
    BY <1>11, HandlerKinds DEF Confirms
  <2> QED
    BY <2>1 DEF Querying
<1> QED
  BY <1>1, <1>3, <1>4, <1>5, <1>6, <1>7, <1>8, <1>9, <1>10, <1>11 DEF HandlerStep

\* What a step makes of the epochs of node p, which leads in the term t.
EpochsStay(p) ==
    /\ current_read_epoch'[p] = current_read_epoch[p]
    /\ confirmed_read_epoch'[p] = confirmed_read_epoch[p]
    /\ acks_in_flight'[p] = acks_in_flight[p]

\* A quorum answers the newest leader only.
EpochStep(p) ==
    \/ EpochsStay(p)
    \/ Newest(p)
    \/ acks_in_flight[p]
    \/ /\ current_read_epoch'[p] = prepare_read_probe(p)
       /\ confirmed_read_epoch'[p] = confirmed_read_epoch[p]
       /\ acks_in_flight'[p] => acks_in_flight[p] \/ current_read_epoch'[p] > current_read_epoch[p]
    \/ leading'[p] = 0

\* How read epochs and their acknowledgements change in a step.
LEMMA EpochSteps ==
    ASSUME ReplicaTypes, HandlerTypes, ProbeTypes, [Next]_vars
    PROVE  ProbeTypes' /\ \A p \in Node : EpochStep(p)
<1> DEFINE Goal == ProbeTypes' /\ \A p \in Node : EpochStep(p)
<1>1. ASSUME UNCHANGED probe PROVE Goal
  BY <1>1 DEF probe, ProbeTypes, EpochStep, EpochsStay
<1>2. ASSUME NEW n \in Node, Heartbeat(n) PROVE Goal
  <2>1. ProbeTypes'
    BY <1>2 DEF Heartbeat, ProbeTypes
  <2>2. ASSUME NEW p \in Node PROVE EpochStep(p)
    BY <1>2 DEF Heartbeat, ProbeTypes, EpochStep, EpochsStay
  <2> QED
    BY <2>1, <2>2
<1>3. ASSUME NEW n \in Node, ReceiveAcks(n) PROVE Goal
  <2>1. ProbeTypes'
    BY <1>3 DEF ReceiveAcks, ProbeTypes
  <2>2. ASSUME NEW p \in Node PROVE EpochStep(p)
    BY <1>3 DEF ReceiveAcks, acknowledge_heartbeat, ProbeTypes, EpochStep, EpochsStay
  <2> QED
    BY <2>1, <2>2
<1>4. ASSUME NEW h \in Slots, verify_leadership(h) PROVE Goal
  <2> DEFINE r == handlers[h]
  <2>1. r \in Arrived /\ r.node \in Node
    BY <1>4, VerifyIs DEF Arrived
  <2>2. PICK late \in BOOLEAN, target \in Nat : Verifies(h, r, late, target)
    BY <1>4, VerifyIs
  <2> HIDE DEF r
  <2>3. /\ target = prepare_read_probe(r.node)
        /\ late => target > current_read_epoch[r.node]
        /\ acks_in_flight' = [acks_in_flight EXCEPT ![r.node] = acks_in_flight[r.node] \/ late]
        /\ current_read_epoch' = [current_read_epoch EXCEPT ![r.node] = target]
        /\ UNCHANGED confirmed_read_epoch
    BY <2>2 DEF Verifies
  <2>4. PICK b \in BOOLEAN : (b <=> acks_in_flight[r.node] \/ late) /\ acks_in_flight' = [acks_in_flight EXCEPT ![r.node] = b]
    BY <2>3
  <2>5. ProbeTypes'
    BY <2>1, <2>3, <2>4 DEF ProbeTypes
  <2>6. ASSUME NEW p \in Node PROVE EpochStep(p)
    <3>1. CASE p = r.node
      <4>1. current_read_epoch'[p] = target /\ acks_in_flight'[p] = b /\ confirmed_read_epoch'[p] = confirmed_read_epoch[p]
        BY <2>3, <2>4, <3>1 DEF ProbeTypes
      <4> QED
        BY <2>3, <2>4, <3>1, <4>1 DEF EpochStep
    <3>2. CASE p # r.node
      BY <2>3, <2>4, <3>2 DEF ProbeTypes, EpochStep, EpochsStay
    <3> QED
      BY <3>1, <3>2
  <2> QED
    BY <2>5, <2>6
<1>5. ASSUME Replicate PROVE Goal
  <2> DEFINE lost == {n \in Node : is_leader(n) /\ leading'[n] = 0}
  <2>1. CASE lost = {}
    BY <1>1, <1>5, <2>1 DEF Replicate
  <2>2. CASE lost # {}
    <3>1. PICK n \in Node : leading'[n] = 0 /\ ForgetProbe(n)
      BY <1>5, <2>2 DEF Replicate
    <3>2. ProbeTypes'
      BY <3>1 DEF ForgetProbe, ProbeTypes
    <3>3. ASSUME NEW p \in Node PROVE EpochStep(p)
      BY <3>1 DEF ForgetProbe, ProbeTypes, EpochStep, EpochsStay
    <3> QED
      BY <3>2, <3>3
  <2> QED
    BY <2>1, <2>2
<1>6. ASSUME NEW h \in Slots, Handle(h) PROVE UNCHANGED probe \/ verify_leadership(h)
  BY <1>6 DEF Handle, Proceed, Admit, EnterCriticalSection, Verified, PassFence
<1>7. ASSUME NEW h \in Slots, HandleProposal(h) \/ Reply(h) \/ Drop(h) PROVE UNCHANGED probe
  BY <1>7 DEF HandleProposal, commit_to_consensus, Reply, Drop
<1>8. ASSUME NEW c \in Clients, Command(c) \/ Timeout(c) \/ Crash(c) \/ \E n \in Node : Send(c, n)
      PROVE  UNCHANGED probe
  BY <1>8 DEF Command, Timeout, Crash, Send
<1>9. ASSUME UNCHANGED vars PROVE UNCHANGED probe
  BY <1>9 DEF vars
<1> HIDE DEF Goal
<1>10. Goal
  BY <1>1, <1>2, <1>3, <1>4, <1>5, <1>6, <1>7, <1>8, <1>9 DEF Next, Probe
<1> QED
  BY <1>10 DEF Goal

\* How leaderships change.
LEMMA LeaderSteps ==
    ASSUME ReplicaInv, HandlerTypes, [Next]_vars, NEW p \in Node
    PROVE  /\ term' \in Nat /\ term' >= term
           /\ leading'[p] = leading[p] \/ leading'[p] = 0 \/ leading'[p] > term
<1> USE DEF ReplicaInv
<1>1. term \in Nat /\ leading \in [Node -> Nat]
  BY DEF ReplicaTypes
<1>2. ASSUME UNCHANGED <<leading, term>>
      PROVE  term' \in Nat /\ term' >= term /\ leading'[p] = leading[p]
  BY <1>1, <1>2
<1>3. ASSUME NEW n \in Node, into_leader(n)
      PROVE  term' \in Nat /\ term' >= term /\ (leading'[p] = leading[p] \/ leading'[p] > term)
  BY <1>1, <1>3 DEF into_leader
<1>4. ASSUME NEW n \in Node, into_follower(n)
      PROVE  term' \in Nat /\ term' >= term /\ (leading'[p] = leading[p] \/ leading'[p] = 0)
  BY <1>1, <1>4 DEF into_follower
<1>5. ASSUME NEW n \in Node, \/ ReachQuorum(n) \/ update_commit_index(n) \/ apply_committed(n)
                             \/ \E leader \in Node \ {n} : reconcile_log(n, leader) \/ InstallSnapshot(n, leader)
      PROVE  UNCHANGED <<leading, term>>
  BY <1>5 DEF ReachQuorum, update_commit_index, apply_committed, raft, reconcile_log, InstallSnapshot
<1>6. ASSUME NEW h \in Slots, NEW n \in Node, NEW m \in Mutation, Proposes(h, n, m)
      PROVE  UNCHANGED <<leading, term>>
  BY <1>6 DEF Proposes
<1>7. ASSUME UNCHANGED <<raft, fsm>> PROVE UNCHANGED <<leading, term>>
  BY <1>7 DEF raft
<1> QED
  BY <1>2, <1>3, <1>4, <1>5, <1>6, <1>7, ReplicaSteps DEF ReplicaStep, ConsensusNext

\* A probe hangs after the step.
HangsNext(r) ==
    /\ r.at = "probing" /\ r.in_term # 0 /\ r.in_term < term'
    /\ leading'[r.node] = r.in_term =>
        /\ confirmed_read_epoch'[r.node] < r.epoch
        /\ r.epoch = current_read_epoch'[r.node]
        /\ ~ acks_in_flight'[r.node]

\* A probe that hangs goes on hanging.
LEMMA HangsOn ==
    ASSUME ReplicaInv, HandlerTypes, ProbeTypes, [Next]_vars, NEW r \in Querying, Hangs(r)
    PROVE  HangsNext(r)
<1> USE DEF ReplicaInv
<1> DEFINE p == r.node
<1>1. p \in Node /\ r.in_term \in Nat /\ r.epoch \in Nat /\ r.at = "probing" /\ r.in_term # 0 /\ r.in_term < term
  BY DEF Querying, Hangs
<1>2. term \in Nat /\ leading[p] \in Nat /\ leading[p] <= term
  BY <1>1 DEF ReplicaTypes, LeaderInv
<1>3. /\ term' \in Nat /\ term' >= term
      /\ leading'[p] = leading[p] \/ leading'[p] = 0 \/ leading'[p] > term
  BY <1>1, LeaderSteps
<1>4. r.in_term < term'
  BY <1>1, <1>2, <1>3
<1>5. ASSUME leading'[p] = r.in_term
      PROVE  /\ confirmed_read_epoch'[p] < r.epoch
             /\ r.epoch = current_read_epoch'[p]
             /\ ~ acks_in_flight'[p]
  <2>1. leading[p] = r.in_term /\ leading'[p] # 0
    BY <1>1, <1>2, <1>3, <1>5
  <2>2. confirmed_read_epoch[p] < r.epoch /\ r.epoch = current_read_epoch[p] /\ ~ acks_in_flight[p]
    BY <2>1 DEF Hangs
  <2>3. ~ Newest(p)
    BY <1>1, <1>2, <2>1 DEF Newest
  <2>4. current_read_epoch[p] \in Nat /\ confirmed_read_epoch[p] \in Nat
    BY <1>1 DEF ProbeTypes
  <2>5. prepare_read_probe(p) = current_read_epoch[p]
    BY <2>2, <2>4 DEF prepare_read_probe
  <2>6. EpochStep(p)
    BY <1>1, EpochSteps
  <2>7. CASE EpochsStay(p)
    BY <2>2, <2>7 DEF EpochsStay
  <2>8. CASE /\ current_read_epoch'[p] = prepare_read_probe(p)
             /\ confirmed_read_epoch'[p] = confirmed_read_epoch[p]
             /\ acks_in_flight'[p] => acks_in_flight[p] \/ current_read_epoch'[p] > current_read_epoch[p]
    BY <2>2, <2>4, <2>5, <2>8
  <2> QED
    BY <2>1, <2>2, <2>3, <2>6, <2>7, <2>8 DEF EpochStep
<1> QED
  BY <1>1, <1>4, <1>5 DEF HangsNext

\* A quiet probe of a leader that is not the newest never passes.
LEMMA ProbeKept ==
    ASSUME ReplicaInv, HandlerTypes, ProbeTypes, ProbeInv, [Next]_vars
    PROVE  ProbeInv'
<1> USE DEF ReplicaInv
<1> SUFFICES ASSUME NEW h \in Slots, handlers'[h].at \in {"probing", "fencing", "reading"},
                    handlers'[h].quiet, ~ handlers'[h].newest
             PROVE  HangsNext(handlers'[h])
  BY DEF ProbeInv, Hangs, HangsNext
<1> DEFINE r == handlers[h]
           s == handlers'[h]
<1>1. HandlerStep(h)
  BY HandlerSteps
<1>2. ASSUME r \in Querying, s.quiet = r.quiet, s.newest = r.newest PROVE r.at = "probing" /\ Hangs(r)
  <2>1. r.at \in {"probing", "fencing", "reading"}
    BY <1>2 DEF Querying
  <2> QED
    BY <1>2, <2>1 DEF ProbeInv, Hangs
<1>3. CASE s = r
  <2>1. r \in Querying
    BY <1>3, HandlerKinds
  <2>2. Hangs(r)
    BY <1>2, <1>3, <2>1
  <2>3. HangsNext(r)
    BY <2>1, <2>2, HangsOn
  <2> QED
    BY <1>3, <2>3
<1>4. CASE Ends(h)
  <2>1. s = [r EXCEPT !.live = FALSE]
    BY <1>4 DEF Ends, Free
  <2>2. s.at = r.at
    <3>1. r \in AnyHandler
      BY HandlerKinds
    <3> QED
      BY <2>1, <3>1 DEF AnyHandler, Free, Arrived, Evaluating, Awaiting, Querying
  <2>3. r \in Querying
    BY <2>2, HandlerKinds
  <2>4. /\ s.node = r.node /\ s.in_term = r.in_term /\ s.epoch = r.epoch
        /\ s.quiet = r.quiet /\ s.newest = r.newest
    BY <2>1, <2>3 DEF Querying
  <2>5. Hangs(r)
    BY <1>2, <2>3, <2>4
  <2>6. HangsNext(r)
    BY <2>3, <2>5, HangsOn
  <2> QED
    BY <2>2, <2>4, <2>6 DEF HangsNext
<1>5. CASE Passes(h)
  <2>1. r \in Querying /\ r.at = "fencing" /\ s = [r EXCEPT !.at = "reading"]
    BY <1>5, HandlerKinds DEF Passes
  <2>2. s.quiet = r.quiet /\ s.newest = r.newest
    BY <2>1 DEF Querying
  <2> QED
    BY <1>2, <2>1, <2>2
<1>6. CASE Sends(h)
  BY <1>6 DEF Sends, Request
<1>7. CASE Admits(h)
  <2>1. r \in Arrived /\ s = [r EXCEPT !.at = "queued"]
    BY <1>7, HandlerKinds DEF Admits
  <2> QED
    BY <2>1 DEF Arrived
<1>8. CASE Enters(h)
  BY <1>8 DEF Enters
<1>9. CASE Awaits(h)
  BY <1>9 DEF Awaits
<1>10. CASE Confirms(h)
  <2>1. /\ r \in Querying /\ s = [r EXCEPT !.at = "fencing"]
        /\ leading[r.node] = r.in_term /\ confirmed_read_epoch[r.node] >= r.epoch
    BY <1>10, HandlerKinds DEF Confirms
  <2>2. s.quiet = r.quiet /\ s.newest = r.newest /\ r.node \in Node /\ r.epoch \in Nat
    BY <2>1 DEF Querying
  <2>3. Hangs(r)
    BY <1>2, <2>1, <2>2
  <2>4. confirmed_read_epoch[r.node] < r.epoch /\ confirmed_read_epoch[r.node] \in Nat
    BY <2>1, <2>2, <2>3 DEF Hangs, ProbeTypes
  <2> QED
    BY <2>1, <2>2, <2>4
<1>11. CASE verify_leadership(h)
  <2>1. r \in Arrived /\ r.node \in Node
    BY <1>11, VerifyIs DEF Arrived
  <2>2. PICK late \in BOOLEAN, target \in Nat : Verifies(h, r, late, target)
    BY <1>11, VerifyIs
  <2> DEFINE p == r.node
  <2>3. /\ s.at = "probing" /\ s.node = p /\ s.epoch = target /\ s.in_term = leading[p]
        /\ s.newest => Newest(p)
        /\ Newest(p) => s.newest
        /\ s.quiet => target > current_read_epoch[p] /\ ~ late /\ ~ acks_in_flight[p]
        /\ target = prepare_read_probe(p) /\ is_leader(p)
    <3> DEFINE nw == Newest(p)
               qt == target > current_read_epoch[p] /\ ~ late /\ ~ acks_in_flight[p]
    <3>1. s = [at |-> "probing", live |-> r.live, client |-> r.client, node |-> r.node, min |-> r.min,
               horizon |-> committed[r.node], epoch |-> target, in_term |-> leading[r.node],
               newest |-> nw, quiet |-> qt]
      BY <2>2 DEF Verifies
    <3>2. target = prepare_read_probe(p) /\ is_leader(p)
      BY <2>2 DEF Verifies
    <3>3. nw \in BOOLEAN /\ qt \in BOOLEAN
      BY DEF Newest
    <3> HIDE DEF nw, qt, r, s
    <3>4. /\ s.at = "probing" /\ s.node = r.node /\ s.epoch = target /\ s.in_term = leading[r.node]
          /\ s.newest = nw /\ s.quiet = qt
      BY <3>1
    <3>5. (s.newest => nw) /\ (nw => s.newest) /\ (s.quiet => qt)
      BY <3>3, <3>4
    <3> QED
      BY <3>2, <3>4, <3>5 DEF nw, qt
  <2>4. /\ acks_in_flight' = [acks_in_flight EXCEPT ![p] = acks_in_flight[p] \/ late]
        /\ current_read_epoch' = [current_read_epoch EXCEPT ![p] = target]
        /\ UNCHANGED confirmed_read_epoch
    BY <2>2 DEF Verifies
  <2>5. /\ leading[p] \in Nat /\ term \in Nat /\ leading[p] <= term /\ current_read_epoch[p] \in Nat
        /\ confirmed_read_epoch[p] \in Nat
    BY <2>1 DEF ReplicaTypes, LeaderInv, ProbeTypes
  <2>6. ~ Newest(p) /\ target > current_read_epoch[p] /\ ~ late /\ ~ acks_in_flight[p]
    BY <2>3
  <2>7. leading[p] # 0 /\ leading[p] < term
    BY <2>3, <2>5, <2>6 DEF Newest, is_leader
  <2>8. term' \in Nat /\ term' >= term
    BY <2>1, LeaderSteps
  <2>9. target = current_read_epoch[p] + 1 /\ confirmed_read_epoch[p] = current_read_epoch[p]
    BY <2>3, <2>5, <2>6 DEF prepare_read_probe
  <2>10. ~ acks_in_flight'[p] /\ current_read_epoch'[p] = target /\ confirmed_read_epoch'[p] < target
    <3>1. ~ acks_in_flight'[p]
      BY <2>1, <2>4, <2>6 DEF ProbeTypes
    <3>2. current_read_epoch'[p] = target /\ confirmed_read_epoch'[p] < target
      BY <2>1, <2>4, <2>5, <2>9 DEF ProbeTypes
    <3> QED
      BY <3>1, <3>2
  <2>11. s.in_term # 0 /\ s.in_term < term'
    BY <2>3, <2>5, <2>7, <2>8
  <2> QED
    BY <2>3, <2>10, <2>11 DEF HangsNext
<1> QED
  BY <1>1, <1>3, <1>4, <1>5, <1>6, <1>7, <1>8, <1>9, <1>10, <1>11 DEF HandlerStep

-----------------------------------------------------------------------------
(* One command for each sequence number *)

\* The parts of Carried: a request or handler r, and a write-ahead log w.
Asks(r, s, d) == r.op = "mutate" /\ r.seq = s /\ (d <=> r.intent = "delete")

Pending(w, s, d) == s \in DOMAIN w /\ (d <=> w[s] = "delete")

Bears(r, c, s, d) ==
    /\ (r.at = "sent" /\ r.op = "mutate") \/ r.at \in {"queued", "evaluating"}
    /\ r.client = c /\ r.seq = s /\ (d <=> r.intent = "delete")

\* The command is new in this step.
Fresh(c, s, d) ==
    s = saved[c] + 1 /\ s <= saved'[c] /\ (d <=> current'[c].intent = "delete")

\* What a client holds after a step it held before, or has just been given.
LEMMA ClientHolds ==
    ASSUME ClientTypes, SequenceInv, ClientMoves, NEW c \in Clients, NEW s \in Nat, NEW d \in BOOLEAN
    PROVE  /\ saved[c] \in Nat /\ saved'[c] \in Nat /\ saved'[c] >= saved[c]
           /\ Asks(current'[c], s, d) => Asks(current[c], s, d) \/ Pending(wal[c], s, d) \/ Fresh(c, s, d)
           /\ Pending(wal'[c], s, d) => Asks(current[c], s, d) \/ Pending(wal[c], s, d)
<1> DEFINE Goal == /\ saved[c] \in Nat /\ saved'[c] \in Nat /\ saved'[c] >= saved[c]
                   /\ Asks(current'[c], s, d) =>
                        Asks(current[c], s, d) \/ Pending(wal[c], s, d) \/ Fresh(c, s, d)
                   /\ Pending(wal'[c], s, d) => Asks(current[c], s, d) \/ Pending(wal[c], s, d)
<1>1. saved[c] \in Nat /\ MaxSequence \in Nat
  BY LedgerAssumption DEF ClientTypes
<1>2. ASSUME saved'[c] = saved[c], current'[c] = current[c], wal'[c] = wal[c] PROVE Goal
  BY <1>1, <1>2
<1>3. CASE UNCHANGED clientVars
  BY <1>2, <1>3 DEF clientVars, disk, session
<1>4. ASSUME NEW e \in Clients, ClientStep(e), e # c PROVE Goal
  <2>1. saved'[c] = saved[c] /\ current'[c] = current[c] /\ wal'[c] = wal[c]
    BY <1>4 DEF ClientStep, ClientTypes
  <2> QED
    BY <1>2, <2>1
<1>5. ASSUME NEW i \in Intents, saved' = [saved EXCEPT ![c] = saved[c] + 1],
             current' = [current EXCEPT ![c] = mutation(saved[c] + 1, i)], UNCHANGED wal
      PROVE  Goal
  <2>1. saved'[c] = saved[c] + 1 /\ current'[c] = mutation(saved[c] + 1, i)
    BY <1>5 DEF ClientTypes
  <2>2. current'[c].seq = saved[c] + 1
    BY <2>1 DEF mutation
  <2>3. Asks(current'[c], s, d) => Fresh(c, s, d)
    BY <1>1, <2>1, <2>2 DEF Asks, Fresh
  <2>4. saved'[c] \in Nat /\ saved'[c] >= saved[c]
    BY <1>1, <2>1
  <2> QED
    BY <1>1, <1>5, <2>3, <2>4
<1>6. ASSUME point[c] = "assigned", UNCHANGED <<saved, current>>,
             wal' = [wal EXCEPT ![c] = wal_append(wal[c], current[c].seq, current[c].intent)]
      PROVE  Goal
  <2>1. wal'[c] = wal_append(wal[c], current[c].seq, current[c].intent)
    BY <1>6 DEF ClientTypes
  <2>2. current[c].op = "mutate"
    BY <1>6 DEF SequenceInv
  <2>3. ASSUME Pending(wal'[c], s, d) PROVE Asks(current[c], s, d) \/ Pending(wal[c], s, d)
    <3> DEFINE q == current[c].seq
               t == current[c].intent
               w == wal[c]
    <3>1. /\ DOMAIN wal_append(w, q, t) = DOMAIN w \cup {q}
          /\ \A x \in DOMAIN w \cup {q} : wal_append(w, q, t)[x] = IF x = q THEN t ELSE w[x]
      BY DEF wal_append
    <3>2. s \in DOMAIN w \cup {q} /\ (d <=> (IF s = q THEN t ELSE w[s]) = "delete")
      BY <2>1, <2>3, <3>1 DEF Pending
    <3> QED
      BY <2>2, <3>2 DEF Asks, Pending
  <2> QED
    BY <1>1, <1>6, <2>3
<1>7. ASSUME UNCHANGED saved, wal' = wal \/ wal' = [wal EXCEPT ![c] = wal_remove(wal[c], current[c].seq)],
             NEW r \in Requests, current' = [current EXCEPT ![c] = r],
             \/ r = current[c]
             \/ r.op # "mutate"
             \/ r.op = "mutate" /\ r.seq \in DOMAIN wal[c] /\ r.intent = wal[c][r.seq]
      PROVE  Goal
  <2>1. current'[c] = r /\ (wal'[c] = wal[c] \/ wal'[c] = wal_remove(wal[c], current[c].seq))
    BY <1>7 DEF ClientTypes
  <2>2. Asks(r, s, d) => Asks(current[c], s, d) \/ Pending(wal[c], s, d)
    BY <1>7 DEF Asks, Pending
  <2>3. Pending(wal_remove(wal[c], current[c].seq), s, d) => Pending(wal[c], s, d)
    BY DEF Pending, wal_remove
  <2> QED
    BY <1>1, <1>7, <2>1, <2>2, <2>3
<1>8. ASSUME ClientStep(c) PROVE Goal
  <2> HIDE DEF Goal
  <2> QED
    BY <1>5, <1>6, <1>7, <1>8 DEF ClientStep
<1>9. Goal
  <2>1. CASE UNCHANGED clientVars
    BY <1>3, <2>1
  <2>2. ASSUME NEW e \in Clients, ClientStep(e) PROVE Goal
    <3> HIDE DEF Goal
    <3>1. CASE e = c
      BY <1>8, <2>2, <3>1
    <3>2. CASE e # c
      BY <1>4, <2>2, <3>2
    <3> QED
      BY <3>1, <3>2
  <2> HIDE DEF Goal
  <2> QED
    BY <2>1, <2>2 DEF ClientMoves
<1> QED
  BY <1>9 DEF Goal

\* What a handler carries it carried before, or its client just sent.
LEMMA HandlerBears ==
    ASSUME ReplicaTypes, HandlerTypes, ProbeTypes, ClientTypes, NEW h \in Slots, HandlerStep(h),
           NEW c \in Clients, NEW s \in Nat, NEW d \in BOOLEAN, Bears(handlers'[h], c, s, d)
    PROVE  Bears(handlers[h], c, s, d) \/ Asks(current[c], s, d)
<1> DEFINE r == handlers[h]
           u == handlers'[h]
<1>1. ASSUME r.at = "sent", r.op = "mutate",
             u.client = r.client, u.seq = r.seq, u.intent = r.intent
      PROVE  Bears(r, c, s, d)
  BY <1>1 DEF Bears
<1>2. CASE u = r
  BY <1>2
<1>3. CASE Ends(h)
  <2>1. u = [r EXCEPT !.live = FALSE]
    BY <1>3 DEF Ends, Free, Bears
  <2>2. r \in AnyHandler
    BY HandlerKinds
  <2>3. CASE r \in Arrived
    <3>1. u.at = r.at /\ u.op = r.op /\ u.client = r.client /\ u.seq = r.seq /\ u.intent = r.intent
      BY <2>1, <2>3 DEF Arrived
    <3> QED
      BY <3>1 DEF Bears
  <2>4. CASE r \in Evaluating
    <3>1. u.at = r.at /\ u.client = r.client /\ u.seq = r.seq /\ u.intent = r.intent /\ r.at = "evaluating"
      BY <2>1, <2>4 DEF Evaluating
    <3> QED
      BY <3>1 DEF Bears
  <2>5. CASE r = Free \/ r \in Awaiting \/ r \in Querying
    <3>1. u.at \notin {"sent", "queued", "evaluating"}
      BY <2>1, <2>5 DEF Free, Awaiting, Querying
    <3> QED
      BY <3>1 DEF Bears
  <2> QED
    BY <2>2, <2>3, <2>4, <2>5 DEF AnyHandler
<1>4. CASE Sends(h)
  <2>1. PICK e \in Clients, n \in Node : u = Request(e, current[e], n)
    BY <1>4 DEF Sends
  <2>2. /\ u.at = "sent" /\ u.client = e /\ u.op = current[e].op /\ u.seq = current[e].seq
        /\ u.intent = current[e].intent
    BY <2>1 DEF Request
  <2> QED
    BY <2>2 DEF Bears, Asks
<1>5. CASE Admits(h)
  <2>1. r \in Arrived /\ r.at = "sent" /\ r.op = "mutate" /\ u = [r EXCEPT !.at = "queued"]
    BY <1>5, HandlerKinds DEF Admits
  <2>2. u.client = r.client /\ u.seq = r.seq /\ u.intent = r.intent
    BY <2>1 DEF Arrived
  <2> QED
    BY <1>1, <2>1, <2>2
<1>6. CASE Enters(h)
  <2>1. r.at = "queued" /\ u.client = r.client /\ u.seq = r.seq /\ u.intent = r.intent
    BY <1>6 DEF Enters
  <2> QED
    BY <2>1 DEF Bears
<1>7. CASE Awaits(h)
  BY <1>7 DEF Awaits, Bears
<1>8. CASE verify_leadership(h)
  <2>1. PICK late \in BOOLEAN, target \in Nat : Verifies(h, r, late, target)
    BY <1>8, VerifyIs
  <2>2. u.at = "probing"
    BY <2>1 DEF Verifies
  <2> QED
    BY <2>2 DEF Bears
<1>9. CASE Confirms(h) \/ Passes(h)
  <2>1. /\ r \in Querying
        /\ u = [r EXCEPT !.at = "fencing"] \/ u = [r EXCEPT !.at = "reading"]
    BY <1>9, HandlerKinds DEF Confirms, Passes
  <2>2. u.at \in {"fencing", "reading"}
    BY <2>1 DEF Querying
  <2> QED
    BY <2>2 DEF Bears
<1> QED
  BY <1>2, <1>3, <1>4, <1>5, <1>6, <1>7, <1>8, <1>9 DEF HandlerStep

\* Whatever is under way after a step was so before it, but for new commands.
LEMMA CarriedFrom ==
    ASSUME ReplicaInv, HandlerTypes, ProbeTypes, ClientTypes, SequenceInv, SessionInv, [Next]_vars,
           NEW c \in Clients, NEW s \in Nat, NEW d \in BOOLEAN, Carried(c, s, d)'
    PROVE  Carried(c, s, d) \/ Fresh(c, s, d)
<1> USE DEF ReplicaInv
<1>1. Asks(current[c], s, d) \/ Pending(wal[c], s, d) => Carried(c, s, d)
  BY DEF Asks, Pending, Carried
<1>2. ASSUME NEW m, Logged(m), m.client = c, m.seq = s, d <=> m.is_delete PROVE Carried(c, s, d)
  <2>1. PICK p \in Node : \E j \in 1..Len(log[p]) : log[p][j].m = m
    BY <1>2 DEF Logged
  <2>2. PICK j \in 1..Len(log[p]) : log[p][j].m = m
    BY <2>1
  <2> QED
    BY <1>2, <2>2 DEF Carried
<1>3. ASSUME NEW m, Evaluated(m), m.client = c, m.seq = s, d <=> m.is_delete PROVE Carried(c, s, d)
  <2>1. PICK h \in Slots : /\ handlers[h].at = "evaluating"
                           /\ m.client = handlers[h].client /\ m.seq = handlers[h].seq
                           /\ m.is_delete <=> handlers[h].intent = "delete"
    BY <1>3 DEF Evaluated
  <2>2. d <=> handlers[h].intent = "delete"
    BY <1>3, <2>1
  <2> QED
    BY <1>3, <2>1, <2>2 DEF Carried
<1>4. ClientMoves
  BY ClientMovesAre
<1>5. CASE Asks(current'[c], s, d) \/ Pending(wal'[c], s, d)
  BY <1>1, <1>4, <1>5, ClientHolds
<1>6. ASSUME NEW h \in Slots, Bears(handlers'[h], c, s, d) PROVE Carried(c, s, d)
  <2>1. HandlerStep(h)
    BY HandlerSteps
  <2>2. Bears(handlers[h], c, s, d) \/ Asks(current[c], s, d)
    BY <1>6, <2>1, HandlerBears
  <2>3. Bears(handlers[h], c, s, d) => Carried(c, s, d)
    BY DEF Bears, Carried
  <2> QED
    BY <1>1, <2>2, <2>3
<1>7. ASSUME NEW n \in Node, NEW i \in 1..Len(log'[n]), log'[n][i].m.client = c, log'[n][i].m.seq = s,
             d <=> log'[n][i].m.is_delete
      PROVE  Carried(c, s, d)
  <2>1. Logged(log'[n][i].m) \/ Evaluated(log'[n][i].m)
    BY EntriesFrom
  <2> QED
    BY <1>2, <1>3, <1>7, <2>1
<1>8. ASSUME NEW i \in 1..Len(chosen'), chosen'[i].client = c, chosen'[i].seq = s, d <=> chosen'[i].is_delete
      PROVE  Carried(c, s, d)
  <2>1. CASE i \in 1..Len(chosen) /\ chosen'[i] = chosen[i]
    BY <1>8, <2>1 DEF Carried
  <2>2. CASE Logged(chosen'[i])
    BY <1>2, <1>8, <2>2
  <2> QED
    BY <2>1, <2>2, ChosenFrom
<1>9. \/ Asks(current'[c], s, d) \/ Pending(wal'[c], s, d)
      \/ \E h \in Slots : Bears(handlers'[h], c, s, d)
      \/ \E n \in Node : \E i \in 1..Len(log'[n]) :
            log'[n][i].m.client = c /\ log'[n][i].m.seq = s /\ (d <=> log'[n][i].m.is_delete)
      \/ \E i \in 1..Len(chosen') :
            chosen'[i].client = c /\ chosen'[i].seq = s /\ (d <=> chosen'[i].is_delete)
  BY DEF Carried, Asks, Pending, Bears
<1> QED
  BY <1>5, <1>6, <1>7, <1>8, <1>9

\* A number is assigned once, and every copy of its command is a copy.
LEMMA IntentKept ==
    ASSUME ReplicaInv, HandlerTypes, ProbeTypes, ClientTypes, SequenceInv, SessionInv, IntentInv, [Next]_vars
    PROVE  IntentInv'
<1>1. ASSUME NEW c \in Clients PROVE saved[c] \in Nat /\ saved'[c] \in Nat /\ saved'[c] >= saved[c]
  <2>1. ClientMoves
    BY ClientMovesAre DEF ReplicaInv
  <2>2. 0 \in Nat /\ TRUE \in BOOLEAN
    OBVIOUS
  <2> QED
    BY <2>1, <2>2, ClientHolds
<1>2. ASSUME NEW c \in Clients, NEW s \in Nat, NEW d \in BOOLEAN, Carried(c, s, d)'
      PROVE  s <= saved'[c] /\ (s <= saved[c] => Carried(c, s, d))
                            /\ (~ (s <= saved[c]) => Fresh(c, s, d))
  <2>1. Carried(c, s, d) \/ Fresh(c, s, d)
    BY <1>2, CarriedFrom
  <2>2. Carried(c, s, d) => s <= saved[c]
    BY DEF IntentInv
  <2>3. Fresh(c, s, d) => ~ (s <= saved[c]) /\ s <= saved'[c]
    BY <1>1 DEF Fresh
  <2> QED
    BY <1>1, <2>1, <2>2, <2>3
<1>3. ASSUME NEW c \in Clients, NEW s \in Nat, Carried(c, s, TRUE)', Carried(c, s, FALSE)' PROVE FALSE
  <2>1. CASE s <= saved[c]
    <3>1. Carried(c, s, TRUE) /\ Carried(c, s, FALSE)
      BY <1>2, <1>3, <2>1
    <3> QED
      BY <3>1 DEF IntentInv
  <2>2. CASE ~ (s <= saved[c])
    <3>1. Fresh(c, s, TRUE) /\ Fresh(c, s, FALSE)
      BY <1>2, <1>3, <2>2
    <3> QED
      BY <3>1 DEF Fresh
  <2> QED
    BY <2>1, <2>2
<1>4. ASSUME NEW c \in Clients, NEW s \in Nat, NEW d \in BOOLEAN, Carried(c, s, d)' PROVE s <= saved'[c]
  BY <1>2, <1>4
<1> QED
  BY <1>3, <1>4 DEF IntentInv

-----------------------------------------------------------------------------
(* The theorems *)

\* The inductive invariant.
LedgerInv ==
    /\ ReplicaInv /\ HandlerTypes /\ ProbeTypes /\ ClientTypes /\ SequenceInv
    /\ LiveInv /\ OrderInv /\ SessionInv /\ StoresFollowTheLog
    /\ IntentInv /\ FenceInv /\ ProbeInv

\* The inductive invariant holds at the start.
LEMMA LedgerStart ==
    ASSUME Init
    PROVE  LedgerInv
<1> USE DEF Init, ConsensusInit, GatewayInit, ClientInit
<1>1. new \in Store /\ new.applied = 0 /\ ~ new.poisoned /\ \A c : Latest(new, c) = 0
  <2>1. new.applied = 0 /\ ~ new.poisoned /\ DOMAIN new.sessions = {}
    BY DEF new
  <2>2. \A c : Latest(new, c) = 0
    BY <2>1 DEF Latest, get_session_record, NoSession
  <2> QED
    BY <2>1, <2>2, NewStore
<1>2. chosen = << >> /\ Len(chosen) = 0 /\ \A n \in Node : log[n] = << >> /\ Len(log[n]) = 0
  OBVIOUS
<1>3. ReplicaInv
  <2>1. << >> \in Seq(Mutation) /\ << >> \in Seq(Entry)
    OBVIOUS
  <2>2. ReplicaTypes
    BY <1>1, <2>1 DEF ReplicaTypes
  <2>3. LeaderInv
    BY DEF LeaderInv
  <2>4. ChoiceInv
    BY <1>2 DEF ChoiceInv, Holds
  <2>5. ProgressInv
    BY <1>1, <1>2 DEF ProgressInv
  <2> QED
    BY <2>2, <2>3, <2>4, <2>5 DEF ReplicaInv
<1>4. \A h \in Slots : handlers[h] = Free /\ handlers[h].at = "free"
  BY DEF Free
<1>5. HandlerTypes
  BY DEF HandlerTypes
<1>6. ProbeTypes
  BY DEF ProbeTypes
<1>7. ClientTypes
  <2>1. << >> \in Tables(Nat, Intent)
    <3>1. << >> \in [{} -> Intent]
      OBVIOUS
    <3> QED
      BY <3>1 DEF Tables
  <2>2. 0 \in 0..MaxSequence /\ 0 \in 0..max_retries
    BY LedgerAssumption, RetriesAssumption
  <2>3. Idle \in Requests
    BY IdleRequests
  <2> QED
    BY <2>1, <2>2, <2>3 DEF ClientTypes, Points
<1>8. SequenceInv
  BY DEF SequenceInv
<1>9. Busy = {}
  BY <1>4 DEF Busy
<1>10. LiveInv
  BY <1>9 DEF LiveInv
<1>11. OrderInv
  BY <1>2, <1>4 DEF OrderInv
<1>12. SessionInv
  BY <1>1 DEF SessionInv
<1>13. StoresFollowTheLog
  <2>1. ASSUME NEW n \in Node PROVE [store[n] EXCEPT !.applied = covered[n]] = Replay(SubSeq(chosen, 1, covered[n]))
    <3>1. store[n] = new /\ covered[n] = 0 /\ chosen \in Seq(Mutation)
      BY <1>3 DEF ReplicaInv, ReplicaTypes
    <3>2. [new EXCEPT !.applied = 0] = new
      BY DEF new
    <3>3. Replay(SubSeq(chosen, 1, 0)) = new
      BY <3>1, ReplayNothing
    <3> QED
      BY <3>1, <3>2, <3>3
  <2> QED
    BY <2>1 DEF StoresFollowTheLog
<1>14. IntentInv
  <2>1. \A c \in Clients : current[c].op # "mutate" /\ DOMAIN wal[c] = {}
    BY DEF Idle
  <2>2. ASSUME NEW c \in Clients, NEW s \in Nat, NEW d \in BOOLEAN, Carried(c, s, d) PROVE FALSE
    BY <1>2, <1>4, <2>1, <2>2 DEF Carried
  <2> QED
    BY <2>2 DEF IntentInv
<1>15. FenceInv
  BY <1>4 DEF FenceInv
<1>16. ProbeInv
  BY <1>4 DEF ProbeInv
<1> QED
  BY <1>3, <1>5, <1>6, <1>7, <1>8, <1>10, <1>11, <1>12, <1>13, <1>14, <1>15, <1>16 DEF LedgerInv

\* Every step keeps the inductive invariant.
LEMMA LedgerKept ==
    ASSUME LedgerInv, [Next]_vars
    PROVE  LedgerInv'
<1> USE DEF LedgerInv
<1>0. ReplicaTypes
  BY DEF ReplicaInv
<1>1. ReplicaInv' /\ SessionInv' /\ StoresFollowTheLog' /\ ChosenGrows /\ StoresAdvance
  BY ReplicaKept
<1>2. HandlerTypes'
  <2>1. handlers' = [h \in Slots |-> handlers'[h]] /\ \A h \in Slots : HandlerStep(h)
    BY HandlerSteps
  <2>2. \A h \in Slots : handlers'[h] \in AnyHandler
    BY <1>0, <2>1, HandlerTypesKept
  <2> QED
    BY <2>1, <2>2 DEF HandlerTypes, AnyHandler
<1>3. ProbeTypes'
  BY <1>0, EpochSteps
<1>4. ClientTypes' /\ SequenceInv'
  <2>1. ClientMoves
    BY <1>0, ClientMovesAre
  <2>2. CASE UNCHANGED clientVars
    BY <2>2 DEF clientVars, disk, session, ClientTypes, SequenceInv
  <2> QED
    BY <2>1, <2>2, ClientStepKeeps DEF ClientMoves
<1>5. LiveInv'
  BY <1>0, LiveKept
<1>6. OrderInv'
  BY <1>1, OrderKept
<1>7. IntentInv'
  BY IntentKept
<1>8. FenceInv'
  <2>1. ReplicaTypes'
    BY <1>1 DEF ReplicaInv
  <2> QED
    BY <1>0, <1>1, <2>1, FenceKept
<1>9. ProbeInv'
  BY ProbeKept
<1> QED
  BY <1>1, <1>2, <1>3, <1>4, <1>5, <1>6, <1>7, <1>8, <1>9 DEF LedgerInv

\* The inductive invariant holds throughout.
THEOREM LedgerInvariant == Spec => []LedgerInv
<1>1. Init => LedgerInv
  BY LedgerStart
<1>2. LedgerInv /\ [Next]_vars => LedgerInv'
  BY LedgerKept
<1> QED
  BY <1>1, <1>2, PTL DEF Spec

\* Every variable has its type, no store is ahead of its node's commit index,
\* and a handler that would still answer belongs to a client that waits.
THEOREM TypeCorrect == Spec => []TypeOK
<1>1. LedgerInv => TypeOK
  <2> SUFFICES ASSUME LedgerInv PROVE TypeOK
    OBVIOUS
  <2> USE DEF LedgerInv, ReplicaInv
  <2>1. committed \in [Node -> 0..Len(chosen)]
    <3>1. Len(chosen) \in Nat /\ committed \in [Node -> Nat]
      BY DEF ReplicaTypes
    <3>2. \A n \in Node : committed[n] <= Len(chosen)
      BY DEF ChoiceInv, Holds
    <3> QED
      BY <3>1, <3>2
  <2>2. leading \in [Node -> 0..term]
    <3>1. term \in Nat /\ leading \in [Node -> Nat] /\ \A n \in Node : leading[n] <= term
      BY DEF ReplicaTypes, LeaderInv
    <3> QED
      BY <3>1
  <2>3. \A n \in Node : store[n].applied <= committed[n]
    BY DEF ProgressInv
  <2>4. /\ saved \in [Clients -> 0..MaxSequence]
        /\ \A c \in Clients : DOMAIN wal[c] \subseteq 1..saved[c]
        /\ point \in [Clients -> Points]
        /\ retry_count \in [Clients -> 0..max_retries]
    BY DEF ClientTypes, SequenceInv
  <2>5. \A h \in Busy : handlers[h].live => point[handlers[h].client] = "waiting"
    BY DEF LiveInv
  <2> QED
    BY <2>1, <2>2, <2>3, <2>4, <2>5 DEF TypeOK
<1> QED
  BY <1>1, LedgerInvariant, PTL

\* apply never meets a sequence gap: no committed entry poisons a node.
THEOREM StoresAreNeverPoisoned == Spec => []NoStorePoisons
<1>1. LedgerInv => NoStorePoisons
  BY DEF LedgerInv, SessionInv, NoStorePoisons
<1> QED
  BY <1>1, LedgerInvariant, PTL

\* A store is what applying the committed prefix it covers makes of a new one,
\* with or without snapshots restored in between.
THEOREM StoresAreReplays == Spec => []StoresFollowTheLog
<1>1. LedgerInv => StoresFollowTheLog
  BY DEF LedgerInv
<1> QED
  BY <1>1, LedgerInvariant, PTL

\* A client's sequence number stands for one command, whatever retries, crashes
\* and orphaned handlers do with it.
THEOREM OneCommandPerSequence == Spec => []OneIntentPerSequence
<1>1. LedgerInv => OneIntentPerSequence
  <2> SUFFICES ASSUME LedgerInv, NEW i \in 1..Len(chosen), NEW j \in 1..Len(chosen),
                      chosen[i].client = chosen[j].client, chosen[i].seq = chosen[j].seq
               PROVE  chosen[i].is_delete = chosen[j].is_delete
    BY DEF OneIntentPerSequence
  <2>1. chosen[i] \in Mutation /\ chosen[j] \in Mutation
    BY DEF LedgerInv, ReplicaInv, ReplicaTypes
  <2>2. PICK c \in Clients, s \in Nat : c = chosen[i].client /\ s = chosen[i].seq
    BY <2>1 DEF Mutation
  <2>3. chosen[i].is_delete \in BOOLEAN /\ chosen[j].is_delete \in BOOLEAN
    BY <2>1 DEF Mutation
  <2>4. ASSUME NEW k \in 1..Len(chosen), NEW d \in BOOLEAN, chosen[k].client = c, chosen[k].seq = s,
               d <=> chosen[k].is_delete
        PROVE  Carried(c, s, d)
    BY <2>4 DEF Carried
  <2>5. ~ (Carried(c, s, TRUE) /\ Carried(c, s, FALSE))
    BY DEF LedgerInv, IntentInv
  <2>6. chosen[i].is_delete <=> chosen[j].is_delete
    BY <2>2, <2>4, <2>5
  <2> QED
    BY <2>3, <2>6
<1> QED
  BY <1>1, LedgerInvariant, PTL

\* verify_leadership: a query that opened its own epoch on a quiet leader gets
\* through only where that leader was the newest.
THEOREM VerifiedLeadersAreNewest == Spec => []VerifiedQueryIsAuthoritative
<1>1. LedgerInv => VerifiedQueryIsAuthoritative
  BY DEF LedgerInv, ProbeInv, Hangs, Busy, VerifiedQueryIsAuthoritative
<1> QED
  BY <1>1, LedgerInvariant, PTL

\* await_apply: a query that asked for a version reads a store that covers it.
THEOREM FencedQueriesSeeTheirVersion == Spec => []FencedQuerySeesVersion
<1>1. LedgerInv => FencedQuerySeesVersion
  <2> SUFFICES ASSUME LedgerInv, NEW h \in Slots, handlers[h].at = "reading"
               PROVE  covered[handlers[h].node] >= handlers[h].min
    BY DEF FencedQuerySeesVersion, Busy
  <2> DEFINE r == handlers[h]
  <2>1. r \in Querying
    BY HandlerKinds DEF LedgerInv
  <2>2. r.node \in Node /\ r.min \in Nat
    BY <2>1 DEF Querying
  <2>3. ReplicaTypes
    BY DEF LedgerInv, ReplicaInv
  <2>4. store[r.node].applied \in Nat /\ covered[r.node] \in Nat
    BY <2>2, <2>3, StoreFields DEF ReplicaTypes
  <2>5. store[r.node].applied >= r.min /\ store[r.node].applied <= covered[r.node]
    BY <2>2 DEF LedgerInv, FenceInv, ReplicaInv, ProgressInv
  <2> QED
    BY <2>2, <2>4, <2>5
<1> QED
  BY <1>1, LedgerInvariant, PTL

\* apply and install_snapshot never take back a recorded outcome, a session or
\* the clinical clock of a store that does not go back in the log.
THEOREM SessionsOnlyAdvance == Spec => SessionsAdvance
<1> DEFINE Forward ==
        \A n \in Node : covered'[n] >= covered[n] =>
            /\ store'[n].time >= store[n].time
            /\ \A c \in DOMAIN store[n].sessions :
                LET old == store[n].sessions[c]
                    nu  == store'[n].sessions[c]
                IN  c \in DOMAIN store'[n].sessions /\ (nu = old \/ nu.seq > old.seq)
<1>1. LedgerInv /\ [Next]_vars => [Forward]_vars
  <2> SUFFICES ASSUME LedgerInv, [Next]_vars PROVE Forward
    OBVIOUS
  <2>1. StoresAdvance
    BY ReplicaKept DEF LedgerInv
  <2> QED
    BY <2>1 DEF StoresAdvance, Advances
<1>2. [][Forward]_vars => SessionsAdvance
  BY DEF SessionsAdvance
<1> HIDE DEF Forward
<1> QED
  BY <1>1, <1>2, LedgerInvariant, PTL DEF Spec

-----------------------------------------------------------------------------
(* What is used of the log *)

\* What a node knows to be chosen, as a part of what is.
LEMMA LearnedIs ==
    ASSUME NEW ch \in Seq(Mutation), NEW lg \in Seq(Entry), NEW k \in Nat, Holds(ch, lg, k)
    PROVE  Mutations(SubSeq(lg, 1, k)) = SubSeq(ch, 1, k)
<1> DEFINE x == SubSeq(lg, 1, k)
           a == Mutations(x)
           b == SubSeq(ch, 1, k)
<1>1. k <= Len(ch) /\ k <= Len(lg) /\ \A i \in 1..k : lg[i].m = ch[i]
  BY DEF Holds
<1>2. x \in Seq(Entry) /\ Len(x) = k /\ \A i \in 1..k : x[i] = lg[i]
  BY <1>1, PrefixOf
<1> HIDE DEF x
<1>3. a \in Seq(Mutation) /\ Len(a) = k /\ \A i \in 1..k : a[i] = x[i].m
  BY <1>2, MutationsIs
<1>4. b \in Seq(Mutation) /\ Len(b) = k /\ \A i \in 1..k : b[i] = ch[i]
  BY <1>1, PrefixOf
<1> HIDE DEF a, b
<1>5. \A i \in 1..k : a[i] = b[i]
  BY <1>1, <1>2, <1>3, <1>4
<1>6. a = b
  BY <1>3, <1>4, <1>5, SeqEqual
<1> QED
  BY <1>6 DEF a, b, x

\* At most one node commits in a step, and none goes back.
CommitStep(n) ==
    committed'[n] >= committed[n] /\ \A p \in Node \ {n} : committed'[p] = committed[p]

\* Commit indices advance one node at a time.
LEMMA CommitSteps ==
    ASSUME ReplicaInv, SessionInv, HandlerTypes, [Next]_vars
    PROVE  UNCHANGED <<chosen, committed>> \/ \E n \in Node : CommitStep(n)
<1> USE DEF ReplicaInv
<1>1. committed \in [Node -> Nat] /\ \A p \in Node : Len(log[p]) \in Nat
  BY DEF ReplicaTypes
<1>2. ASSUME NEW n \in Node, UNCHANGED committed PROVE CommitStep(n)
  BY <1>1, <1>2 DEF CommitStep
<1>3. ASSUME NEW n \in Node, into_leader(n) \/ into_follower(n) \/ ReachQuorum(n) \/ apply_committed(n)
      PROVE  UNCHANGED committed
  BY <1>3 DEF into_leader, into_follower, ReachQuorum, apply_committed, raft
<1>4. ASSUME NEW n \in Node, update_commit_index(n) PROVE CommitStep(n)
  <2>1. committed[n] < Len(log[n]) /\ committed' = [committed EXCEPT ![n] = Len(log[n])]
    BY <1>4 DEF update_commit_index
  <2> QED
    BY <1>1, <2>1 DEF CommitStep
<1>5. ASSUME NEW n \in Node, NEW leader \in Node, reconcile_log(n, leader) PROVE CommitStep(n)
  <2>1. committed' = [committed EXCEPT ![n] = IF committed[leader] > committed[n] THEN committed[leader]
                                              ELSE committed[n]]
    BY <1>5 DEF reconcile_log
  <2> QED
    BY <1>1, <2>1 DEF CommitStep
<1>6. ASSUME NEW n \in Node, NEW leader \in Node, InstallSnapshot(n, leader) PROVE CommitStep(n)
  <2>1. PICK label \in Nat, nu \in Store : Installs(n, leader, label, nu)
    BY <1>6, InstallIs
  <2>2. committed' = [committed EXCEPT ![n] = IF label > committed[n] THEN label ELSE committed[n]]
    BY <2>1 DEF Installs
  <2> QED
    BY <1>1, <2>2 DEF CommitStep
<1>7. ASSUME ConsensusNext PROVE \E n \in Node : CommitStep(n)
  BY <1>2, <1>3, <1>4, <1>5, <1>6, <1>7 DEF ConsensusNext
<1>8. ASSUME NEW h \in Slots, NEW n \in Node, NEW m \in Mutation, Proposes(h, n, m)
      PROVE  UNCHANGED <<chosen, committed>>
  BY <1>8 DEF Proposes
<1>9. ASSUME UNCHANGED <<raft, fsm>> PROVE UNCHANGED <<chosen, committed>>
  BY <1>9 DEF raft
<1> QED
  BY <1>7, <1>8, <1>9, ReplicaSteps DEF ReplicaStep

\* Prefixes of growing sequences are prefixes of each other.
LEMMA PrefixesNest ==
    ASSUME NEW s \in Seq(Mutation), NEW t \in Seq(Mutation), Len(s) <= Len(t),
           \A i \in 1..Len(s) : t[i] = s[i], NEW j \in Nat, NEW k \in Nat, j <= k, j <= Len(s), k <= Len(t)
    PROVE  /\ Contract!IsPrefix(SubSeq(s, 1, j), SubSeq(t, 1, k))
           /\ Contract!IsPrefix(SubSeq(t, 1, k), t)
           /\ Contract!IsPrefix(s, t)
           /\ SubSeq(t, 1, j) = SubSeq(s, 1, j)
<1> DEFINE a == SubSeq(s, 1, j)
           b == SubSeq(t, 1, k)
           e == SubSeq(t, 1, j)
<1>0. Len(s) \in Nat /\ Len(t) \in Nat /\ j <= Len(t)
  OBVIOUS
<1>1. a \in Seq(Mutation) /\ Len(a) = j /\ \A i \in 1..j : a[i] = s[i]
  BY PrefixOf
<1>2. b \in Seq(Mutation) /\ Len(b) = k /\ \A i \in 1..k : b[i] = t[i]
  BY PrefixOf
<1>3. e \in Seq(Mutation) /\ Len(e) = j /\ \A i \in 1..j : e[i] = t[i]
  BY <1>0, PrefixOf
<1> HIDE DEF a, b, e
<1>4. \A u, v : Contract!IsPrefix(u, v) <=> IsPrefix(u, v)
  BY DEF IsPrefix, Contract!IsPrefix
<1>5. \A i \in 1..j : i \in 1..k /\ i \in 1..Len(s)
  BY <1>0
<1>6. \A i \in 1..j : a[i] = b[i] /\ a[i] = e[i]
  BY <1>1, <1>2, <1>3, <1>5
<1>7. IsPrefix(a, b)
  BY <1>1, <1>2, <1>6, PrefixIs
<1>8. IsPrefix(b, t)
  BY <1>2, PrefixIs
<1>9. IsPrefix(s, t)
  BY PrefixIs
<1>10. e = a
  BY <1>1, <1>3, <1>6, SeqEqual
<1> QED
  BY <1>4, <1>7, <1>8, <1>9, <1>10 DEF a, b, e

\* A step of the system is a step of the replicated log, or none.
LEMMA ContractStep ==
    ASSUME LedgerInv, LedgerInv', [Next]_vars
    PROVE  [Contract!Next]_(Contract!rlVars)
<1>1. /\ ReplicaInv /\ ReplicaTypes /\ ChoiceInv /\ ReplicaTypes' /\ ChoiceInv' /\ SessionInv /\ HandlerTypes
  BY DEF LedgerInv, ReplicaInv
<1>2. ChosenGrows
  BY ReplicaKept DEF LedgerInv
<1> DEFINE l == [n \in Node |-> Mutations(SubSeq(log[n], 1, committed[n]))]
<1>3. /\ chosen \in Seq(Mutation) /\ chosen' \in Seq(Mutation)
      /\ Len(chosen) <= Len(chosen') /\ \A i \in 1..Len(chosen) : chosen'[i] = chosen[i]
  BY <1>1, <1>2 DEF ReplicaTypes, ChosenGrows
<1>4. \A n \in Node : /\ committed[n] \in Nat /\ committed'[n] \in Nat
                      /\ log[n] \in Seq(Entry) /\ log'[n] \in Seq(Entry)
                      /\ Holds(chosen, log[n], committed[n]) /\ Holds(chosen', log'[n], committed'[n])
  BY <1>1 DEF ReplicaTypes, ChoiceInv, Holds
<1>5. \A n \in Node : committed[n] <= Len(chosen) /\ committed'[n] <= Len(chosen')
  BY <1>4 DEF Holds
<1>6. ASSUME NEW n \in Node
      PROVE  l[n] = SubSeq(chosen, 1, committed[n]) /\ l'[n] = SubSeq(chosen', 1, committed'[n])
  <2>1. Mutations(SubSeq(log[n], 1, committed[n])) = SubSeq(chosen, 1, committed[n])
    BY <1>3, <1>4, LearnedIs
  <2>2. Mutations(SubSeq(log'[n], 1, committed'[n])) = SubSeq(chosen', 1, committed'[n])
    BY <1>3, <1>4, LearnedIs
  <2> QED
    BY <2>1, <2>2 DEF Mutations
<1>7. DOMAIN l = Node /\ l = [n \in Node |-> l[n]] /\ l' = [n \in Node |-> l'[n]]
  OBVIOUS
<1> HIDE DEF l
<1>8. CASE UNCHANGED <<chosen, committed>>
  <2>1. \A n \in Node : l'[n] = l[n]
    BY <1>6, <1>8
  <2>2. l' = l
    BY <1>7, <2>1
  <2> QED
    BY <1>8, <2>2 DEF Contract!rlVars, l
<1>9. ASSUME NEW n \in Node, CommitStep(n) PROVE Contract!Next
  <2>1. committed[n] <= committed'[n]
    BY <1>4, <1>9 DEF CommitStep
  <2>2. Contract!IsPrefix(l[n], l'[n]) /\ Contract!IsPrefix(l'[n], chosen') /\ Contract!IsPrefix(chosen, chosen')
    <3>1. /\ committed[n] \in Nat /\ committed'[n] \in Nat
          /\ committed[n] <= Len(chosen) /\ committed'[n] <= Len(chosen')
      BY <1>4, <1>5
    <3>2. /\ Contract!IsPrefix(SubSeq(chosen, 1, committed[n]), SubSeq(chosen', 1, committed'[n]))
          /\ Contract!IsPrefix(SubSeq(chosen', 1, committed'[n]), chosen')
          /\ Contract!IsPrefix(chosen, chosen')
      BY <1>3, <2>1, <3>1, PrefixesNest
    <3> QED
      BY <1>6, <3>2
  <2>3. ASSUME NEW p \in Node \ {n} PROVE l'[p] = l[p]
    <3>1. committed'[p] = committed[p]
      BY <1>9 DEF CommitStep
    <3>2. SubSeq(chosen', 1, committed[p]) = SubSeq(chosen, 1, committed[p])
      <4>1. committed[p] \in Nat /\ committed[p] <= Len(chosen) /\ committed[p] <= Len(chosen')
        BY <1>4, <1>5, <3>1
      <4> QED
        BY <1>3, <4>1, PrefixesNest
    <3> QED
      BY <1>6, <3>1, <3>2
  <2>4. Contract!Learn(n)
    BY <2>2, <2>3 DEF Contract!Learn, l
  <2>5. CASE chosen' = chosen
    BY <2>4, <2>5 DEF Contract!Next
  <2>6. CASE chosen' # chosen
    <3>1. Contract!Choose(n)
      BY <2>2, <2>4, <2>6 DEF Contract!Choose
    <3> QED
      BY <3>1 DEF Contract!Next
  <2> QED
    BY <2>5, <2>6
<1> QED
  BY <1>1, <1>8, <1>9, CommitSteps

\* What the gateways and stores see of raft-engine is a replicated log, as
\* RaftContract shows the detailed model to provide it.
THEOREM LedgerReliesOnContract == Spec => ReliesOnContract
<1>1. Init => Contract!Init
  <2> SUFFICES ASSUME Init PROVE Contract!Init
    OBVIOUS
  <2>1. /\ chosen = << >>
        /\ \A n \in Node : log[n] = << >> /\ committed[n] = 0
    BY DEF Init, ConsensusInit
  <2>2. Mutations(SubSeq(<< >>, 1, 0)) = << >>
    BY DEF Mutations
  <2>3. \A n \in Node : Mutations(SubSeq(log[n], 1, committed[n])) = << >>
    BY <2>1, <2>2
  <2> QED
    BY <2>1, <2>3 DEF Contract!Init
<1>2. LedgerInv /\ LedgerInv' /\ [Next]_vars => [Contract!Next]_(Contract!rlVars)
  BY ContractStep
<1> QED
  BY <1>1, <1>2, LedgerInvariant, PTL DEF Spec, ReliesOnContract, Contract!Spec

-----------------------------------------------------------------------------
(* What clients were told *)

\* A handler that would answer a client carries the number of its request.
RequestInv ==
    \A h \in Slots :
        handlers[h].at \in {"sent", "queued", "evaluating"} /\ handlers[h].live =>
            handlers[h].seq = current[handlers[h].client].seq

\* A handler that waits proposed in some leadership.
TermInv ==
    \A h \in Slots : handlers[h].at = "awaiting" => handlers[h].in_term \in 1..term

\* As long as the leadership lasts in which a handler that would answer has
\* proposed, the leader's log has its proposal.
AwaitInv ==
    \A h \in Slots :
        /\ handlers[h].at = "awaiting" /\ handlers[h].live
        /\ leading[handlers[h].node] = handlers[h].in_term
        => LET lg == log[handlers[h].node]
               i  == handlers[h].index
           IN  /\ i \in 1..Len(lg)
               /\ lg[i].m.client = handlers[h].client
               /\ lg[i].m.seq = current[handlers[h].client].seq

\* What a client was told is chosen, unless it was told by a handler that
\* outlived its leadership.
ToldInv ==
    \A t \in told \ regained :
        \E i \in 1..Len(chosen) : chosen[i].client = t.client /\ chosen[i].seq = t.seq

OutcomeInv == RequestInv /\ TermInv /\ AwaitInv /\ ToldInv

\* The requests of other clients stay.
LEMMA OtherRequests ==
    ASSUME ClientTypes, NEW c \in Clients, ClientStep(c), NEW e \in Clients, e # c
    PROVE  current'[e] = current[e]
BY DEF ClientStep, ClientTypes

\* Handler h is new, with the request its client executes.
Arrives(h) ==
    /\ UNCHANGED current
    /\ \E c \in Clients, n \in Node : handlers'[h] = Request(c, current[c], n)

\* A handler that would answer a client is new, or its client still executes
\* the same request.
LEMMA LiveStays ==
    ASSUME LedgerInv, [Next]_vars, NEW h \in Slots, handlers'[h].at # "free", handlers'[h].live
    PROVE  \/ Arrives(h)
           \/ /\ handlers[h].at # "free" /\ handlers[h].live /\ handlers'[h].client = handlers[h].client
              /\ current'[handlers[h].client] = current[handlers[h].client]
<1> USE DEF LedgerInv
<1>0. ReplicaTypes
  BY DEF ReplicaInv
<1> DEFINE Goal == \/ Arrives(h)
                   \/ /\ handlers[h].at # "free" /\ handlers[h].live /\ handlers'[h].client = handlers[h].client
                      /\ current'[handlers[h].client] = current[handlers[h].client]
<1>1. ASSUME UNCHANGED current, LiveFrom(h) PROVE Goal
  BY <1>1 DEF LiveFrom
<1>2. ASSUME NEW c \in Clients, ClientStep(c), LiveFrom(h), handlers[h].client # c PROVE Goal
  <2>1. handlers[h].client \in Clients
    BY <1>2, LiveClient DEF LiveFrom
  <2> QED
    BY <1>2, <2>1, OtherRequests DEF LiveFrom
<1>3. ASSUME handlers'[h] = handlers[h] \/ Ends(h) PROVE LiveFrom(h)
  BY <1>0, <1>3, StepLive
<1>4. UNCHANGED clientVars => UNCHANGED current
  BY DEF clientVars, session
<1>5. ASSUME NEW c \in Clients, Command(c) PROVE Goal
  <2>1. ClientStep(c) /\ point[c] # "waiting" /\ UNCHANGED handlers
    BY <1>0, <1>5, CommandMoves
  <2>2. LiveFrom(h)
    BY <1>3, <2>1
  <2>3. handlers[h].client # c
    BY <2>1, <2>2 DEF LiveFrom, LiveInv, Busy
  <2> HIDE DEF Goal
  <2> QED
    BY <1>2, <2>1, <2>2, <2>3
<1>6. ASSUME NEW c \in Clients, Timeout(c) \/ Crash(c) PROVE Goal
  <2>1. ClientStep(c) /\ handlers' = Orphaned(c)
    BY <1>6, ClientSteps DEF Timeout, Crash
  <2>2. /\ handlers'[h] = handlers[h] \/ Ends(h)
        /\ handlers[h].at # "free" /\ handlers[h].client = c => Ends(h)
    BY <2>1, OrphanedIs
  <2>3. LiveFrom(h)
    BY <1>3, <2>2
  <2>4. ~ Ends(h)
    <3>1. handlers[h] \in Arrived \cup Evaluating \cup Awaiting \cup Querying
      BY <2>3, HandlerKinds DEF AnyHandler, Free, LiveFrom
    <3>2. ~ [handlers[h] EXCEPT !.live = FALSE].live
      BY <3>1 DEF Arrived, Evaluating, Awaiting, Querying
    <3>3. Free.at = "free"
      BY DEF Free
    <3> QED
      BY <3>2, <3>3 DEF Ends
  <2>5. handlers[h].client # c
    BY <2>2, <2>3, <2>4 DEF LiveFrom
  <2> HIDE DEF Goal
  <2> QED
    BY <1>2, <2>1, <2>3, <2>5
<1>7. ASSUME NEW c \in Clients, NEW n \in Node, Send(c, n) PROVE Goal
  <2> DEFINE g == Min(Slots \ Busy)
             q == Request(c, current[c], n)
  <2>1. GoOn(g, q) /\ UNCHANGED current
    BY <1>7 DEF Send, send
  <2> HIDE DEF g, q
  <2>2. handlers'[h] = IF h = g THEN q ELSE handlers[h]
    BY <2>1, GoOnIs
  <2>3. CASE h = g
    BY <2>1, <2>2, <2>3 DEF Arrives, q
  <2>4. CASE h # g
    BY <1>1, <1>3, <2>1, <2>2, <2>4
  <2> QED
    BY <2>3, <2>4
<1>8. ASSUME NEW g \in Slots, Reply(g) PROVE Goal
  <2>1. /\ handlers[g].client \in Clients /\ GoOn(g, Free) /\ g \in Busy
        /\ IF handlers[g].live THEN ClientStep(handlers[g].client) ELSE UNCHANGED clientVars
    BY <1>0, <1>8, ReplyMoves DEF Reply
  <2>2. handlers'[h] = IF h = g THEN Free ELSE handlers[h]
    BY <2>1, GoOnIs
  <2>3. h # g /\ handlers'[h] = handlers[h]
    BY <2>2 DEF Free
  <2>4. LiveFrom(h)
    BY <1>3, <2>3
  <2>5. CASE ~ handlers[g].live
    BY <1>1, <1>4, <2>1, <2>4, <2>5
  <2>6. CASE handlers[g].live
    <3>1. handlers[h].client # handlers[g].client
      BY <2>1, <2>3, <2>4, <2>6 DEF LiveInv, LiveFrom, Busy
    <3> HIDE DEF Goal
    <3> QED
      BY <1>2, <2>1, <2>4, <2>6, <3>1
  <2> QED
    BY <2>5, <2>6
<1>9. ASSUME NEW g \in Slots, Handle(g) \/ HandleProposal(g) \/ Drop(g) PROVE Goal
  <2>1. UNCHANGED clientVars
    BY <1>9 DEF Handle, HandleProposal, Drop
  <2>2. ASSUME Handle(g) PROVE LiveFrom(h)
    <3>1. Proceed(g)
      BY <2>2 DEF Handle
    <3> QED
      BY <1>0, <3>1, ProceedSteps, StepLive
  <2>3. ASSUME HandleProposal(g) PROVE LiveFrom(h)
    <3>1. commit_to_consensus(g)
      BY <2>3 DEF HandleProposal
    <3> QED
      BY <1>0, <3>1, AwaitSteps, StepLive
  <2>4. ASSUME Drop(g) PROVE LiveFrom(h)
    <3>1. GoOn(g, Free)
      BY <2>4 DEF Drop
    <3>2. handlers'[h] = IF h = g THEN Free ELSE handlers[h]
      BY <3>1, GoOnIs
    <3> QED
      BY <1>3, <3>2 DEF Ends
  <2> QED
    BY <1>1, <1>4, <1>9, <2>1, <2>2, <2>3, <2>4
<1>10. ASSUME Replicate \/ Probe \/ UNCHANGED vars PROVE Goal
  <2>1. UNCHANGED handlers /\ UNCHANGED clientVars
    BY <1>10 DEF Replicate, Probe, Heartbeat, ReceiveAcks, vars
  <2> QED
    BY <1>1, <1>3, <1>4, <2>1
<1> HIDE DEF Goal
<1>11. Goal
  BY <1>5, <1>6, <1>7, <1>8, <1>9, <1>10 DEF Next
<1> QED
  BY <1>11 DEF Goal


\* Handlers keep the number of the request they answer.
LEMMA RequestKept ==
    ASSUME LedgerInv, RequestInv, [Next]_vars
    PROVE  RequestInv'
<1>0. HandlerTypes /\ ReplicaTypes /\ ProbeTypes /\ ClientTypes
  BY DEF LedgerInv, ReplicaInv
<1> SUFFICES ASSUME NEW h \in Slots, handlers'[h].at \in {"sent", "queued", "evaluating"}, handlers'[h].live
             PROVE  handlers'[h].seq = current'[handlers'[h].client].seq
  BY DEF RequestInv
<1> DEFINE r == handlers[h]
           q == handlers'[h]
<1>1. CASE Arrives(h)
  BY <1>1 DEF Arrives, Request
<1>2. CASE /\ r.at # "free" /\ r.live /\ q.client = r.client
           /\ current'[r.client] = current[r.client]
  <2>1. HandlerStep(h)
    BY <1>0, HandlerSteps
  <2>2. ASSUME q = r PROVE q.seq = current'[q.client].seq
    BY <1>2, <2>2 DEF RequestInv
  <2>3. ~ Ends(h)
    <3>1. r \in Arrived \cup Evaluating \cup Awaiting \cup Querying
      BY <1>0, <1>2, HandlerKinds DEF AnyHandler, Free
    <3>2. ~ [r EXCEPT !.live = FALSE].live
      BY <3>1 DEF Arrived, Evaluating, Awaiting, Querying
    <3>3. Free.at = "free"
      BY DEF Free
    <3> QED
      BY <3>2, <3>3 DEF Ends
  <2>4. ASSUME Sends(h) PROVE q.seq = current'[q.client].seq
    <3>1. PICK c \in Clients, n \in Node : q = Request(c, current[c], n)
      BY <2>4 DEF Sends
    <3>2. q.client = c /\ q.seq = current[c].seq
      BY <3>1 DEF Request
    <3> QED
      BY <1>2, <3>2
  <2>5. ASSUME Admits(h) PROVE q.seq = current'[q.client].seq
    <3>1. r \in Arrived /\ r.at = "sent" /\ q = [r EXCEPT !.at = "queued"]
      BY <1>0, <2>5, HandlerKinds DEF Admits
    <3>2. q.seq = r.seq
      BY <3>1 DEF Arrived
    <3> QED
      BY <1>2, <3>1, <3>2 DEF RequestInv
  <2>6. ASSUME Enters(h) PROVE q.seq = current'[q.client].seq
    <3>1. r.at = "queued" /\ q.seq = r.seq
      BY <2>6 DEF Enters
    <3> QED
      BY <1>2, <3>1 DEF RequestInv
  <2>7. ~ Awaits(h)
    BY DEF Awaits
  <2>8. ~ verify_leadership(h)
    <3>1. ASSUME verify_leadership(h) PROVE FALSE
      <4>1. PICK late \in BOOLEAN, target \in Nat : Verifies(h, r, late, target)
        BY <1>0, <3>1, VerifyIs
      <4> QED
        BY <4>1 DEF Verifies
    <3> QED
      BY <3>1
  <2>9. ~ Confirms(h) /\ ~ Passes(h)
    <3>1. ASSUME Confirms(h) \/ Passes(h) PROVE FALSE
      <4>1. /\ r \in Querying
            /\ q = [r EXCEPT !.at = "fencing"] \/ q = [r EXCEPT !.at = "reading"]
        BY <1>0, <3>1, HandlerKinds DEF Confirms, Passes
      <4> QED
        BY <4>1 DEF Querying
    <3> QED
      BY <3>1
  <2> QED
    BY <2>1, <2>2, <2>3, <2>4, <2>5, <2>6, <2>7, <2>8, <2>9 DEF HandlerStep
<1> QED
  BY <1>1, <1>2, LiveStays

\* Handler h waits already.
Waits(h) ==
    LET r == handlers[h]
        q == handlers'[h]
    IN  /\ r.at = "awaiting" /\ q.client = r.client /\ q.node = r.node /\ q.index = r.index
        /\ q.in_term = r.in_term
        /\ q.live => r.live

\* A handler ends or is left by its client, and did not begin to wait.
LEMMA EndsWaits ==
    ASSUME HandlerTypes, NEW h \in Slots, handlers'[h] = handlers[h] \/ Ends(h),
           handlers'[h].at = "awaiting"
    PROVE  Waits(h)
<1> DEFINE r == handlers[h]
<1>1. CASE handlers'[h] = r
  BY <1>1 DEF Waits
<1>2. CASE handlers'[h] = Free
  BY <1>2 DEF Free
<1>3. CASE handlers'[h] = [r EXCEPT !.live = FALSE]
  <2>1. r \in AnyHandler
    BY HandlerKinds
  <2>2. r \in Awaiting
    BY <1>3, <2>1 DEF AnyHandler, Free, Arrived, Evaluating, Awaiting, Querying
  <2> QED
    BY <1>3, <2>2 DEF Awaiting, Waits
<1> QED
  BY <1>1, <1>2, <1>3 DEF Ends

\* A handler that waits did so before the step, or has just proposed.
LEMMA AwaitFrom ==
    ASSUME LedgerInv, [Next]_vars, NEW h \in Slots, handlers'[h].at = "awaiting"
    PROVE  Waits(h) \/ HandleProposal(h)
<1>0. HandlerTypes /\ ReplicaTypes /\ ProbeTypes
  BY DEF LedgerInv, ReplicaInv
<1>1. ASSUME handlers'[h] = handlers[h] \/ Ends(h) PROVE Waits(h)
  BY <1>0, <1>1, EndsWaits
<1>2. ASSUME NEW c \in Clients, Command(c) PROVE Waits(h)
  BY <1>1, <1>2 DEF Command
<1>3. ASSUME NEW c \in Clients, Timeout(c) \/ Crash(c) PROVE Waits(h)
  <2>1. handlers' = Orphaned(c)
    BY <1>3 DEF Timeout, Crash
  <2> QED
    BY <1>0, <1>1, <2>1, OrphanedIs
<1>4. ASSUME NEW c \in Clients, NEW n \in Node, Send(c, n) PROVE Waits(h)
  <2> DEFINE g == Min(Slots \ Busy)
             q == Request(c, current[c], n)
  <2>1. GoOn(g, q) /\ q.at = "sent"
    BY <1>4 DEF Send, Request
  <2> HIDE DEF g, q
  <2>2. handlers'[h] = IF h = g THEN q ELSE handlers[h]
    BY <1>0, <2>1, GoOnIs
  <2> QED
    BY <1>1, <2>1, <2>2
<1>5. ASSUME NEW g \in Slots, Reply(g) \/ Drop(g) PROVE Waits(h)
  <2>1. GoOn(g, Free)
    BY <1>5 DEF Reply, Drop
  <2>2. handlers'[h] = IF h = g THEN Free ELSE handlers[h]
    BY <1>0, <2>1, GoOnIs
  <2> QED
    BY <1>1, <2>2 DEF Ends
<1>6. ASSUME NEW g \in Slots, Handle(g) PROVE Waits(h)
  <2>1. Proceed(g)
    BY <1>6 DEF Handle
  <2>2. /\ h # g => handlers'[h] = handlers[h]
        /\ Admits(g) \/ Enters(g) \/ verify_leadership(g) \/ Confirms(g) \/ Passes(g)
    BY <1>0, <2>1, ProceedSteps
  <2>3. ASSUME h = g PROVE FALSE
    <3> DEFINE r == handlers[h]
               q == handlers'[h]
    <3>1. ASSUME Admits(h) PROVE FALSE
      <4>1. r \in Arrived /\ q = [r EXCEPT !.at = "queued"]
        BY <1>0, <3>1, HandlerKinds DEF Admits
      <4> QED
        BY <4>1 DEF Arrived
    <3>2. ~ Enters(h)
      BY DEF Enters
    <3>3. ASSUME verify_leadership(h) PROVE FALSE
      <4>1. PICK late \in BOOLEAN, target \in Nat : Verifies(h, r, late, target)
        BY <1>0, <3>3, VerifyIs
      <4> QED
        BY <4>1 DEF Verifies
    <3>4. ASSUME Confirms(h) \/ Passes(h) PROVE FALSE
      <4>1. /\ r \in Querying
            /\ q = [r EXCEPT !.at = "fencing"] \/ q = [r EXCEPT !.at = "reading"]
        BY <1>0, <3>4, HandlerKinds DEF Confirms, Passes
      <4> QED
        BY <4>1 DEF Querying
    <3> QED
      BY <2>2, <2>3, <3>1, <3>2, <3>3, <3>4
  <2> QED
    BY <1>1, <2>2, <2>3
<1>7. ASSUME NEW g \in Slots, HandleProposal(g) PROVE Waits(h) \/ HandleProposal(h)
  <2>1. commit_to_consensus(g)
    BY <1>7 DEF HandleProposal
  <2>2. h # g => handlers'[h] = handlers[h]
    BY <1>0, <2>1, AwaitSteps
  <2> QED
    BY <1>1, <1>7, <2>2
<1>8. ASSUME Replicate \/ Probe \/ UNCHANGED vars PROVE Waits(h)
  <2>1. UNCHANGED handlers
    BY <1>8 DEF Replicate, Probe, Heartbeat, ReceiveAcks, vars
  <2> QED
    BY <1>1, <2>1
<1> HIDE DEF Waits
<1> QED
  BY <1>2, <1>3, <1>4, <1>5, <1>6, <1>7, <1>8 DEF Next

\* A leader's log only grows.
LEMMA LeaderLogGrows ==
    ASSUME LedgerInv, [Next]_vars, NEW n \in Node, is_leader(n)
    PROVE  /\ Len(log[n]) \in Nat /\ Len(log'[n]) \in Nat /\ Len(log[n]) <= Len(log'[n])
           /\ \A i \in 1..Len(log[n]) : log'[n][i] = log[n][i]
<1>0. HandlerTypes /\ ReplicaTypes
  BY DEF LedgerInv, ReplicaInv
<1>1. log \in [Node -> Seq(Entry)] /\ log[n] \in Seq(Entry) /\ Len(log[n]) \in Nat
      /\ leading \in [Node -> Nat]
  BY <1>0 DEF ReplicaTypes
<1> DEFINE Goal == /\ Len(log[n]) \in Nat /\ Len(log'[n]) \in Nat /\ Len(log[n]) <= Len(log'[n])
                   /\ \A i \in 1..Len(log[n]) : log'[n][i] = log[n][i]
<1>2. ASSUME log'[n] = log[n] PROVE Goal
  BY <1>1, <1>2
<1>3. ASSUME NEW h \in Slots, NEW p \in Node, NEW m \in Mutation, Proposes(h, p, m) PROVE Goal
  <2> DEFINE e == [term |-> leading[p], m |-> m]
  <2>1. log' = [log EXCEPT ![p] = Append(log[p], e)]
    BY <1>3 DEF Proposes
  <2>2. CASE p # n
    BY <1>1, <1>2, <2>1, <2>2
  <2>3. CASE p = n
    <3>1. e \in Entry
      BY <1>1 DEF Entry
    <3> HIDE DEF e
    <3>2. log'[n] = Append(log[n], e)
      BY <1>1, <2>1, <2>3
    <3>3. /\ Len(Append(log[n], e)) = Len(log[n]) + 1
          /\ \A i \in 1..Len(log[n]) : Append(log[n], e)[i] = log[n][i]
      BY <1>1, <3>1, AppendProperties
    <3> QED
      BY <1>1, <3>2, <3>3
  <2> QED
    BY <2>2, <2>3
<1>4. ASSUME NEW p \in Node, into_leader(p) \/ into_follower(p) \/ ReachQuorum(p) \/ update_commit_index(p)
              \/ apply_committed(p)
      PROVE  Goal
  <2>1. UNCHANGED log
    BY <1>4 DEF into_leader, into_follower, ReachQuorum, update_commit_index, apply_committed, raft
  <2> QED
    BY <1>2, <2>1
<1>5. ASSUME NEW p \in Node, NEW leader \in Node, reconcile_log(p, leader) \/ InstallSnapshot(p, leader)
      PROVE  Goal
  <2>1. p # n /\ \E lg : log' = [log EXCEPT ![p] = lg]
    BY <1>5 DEF reconcile_log, InstallSnapshot
  <2> QED
    BY <1>1, <1>2, <2>1
<1> HIDE DEF Goal
<1>6. ASSUME UNCHANGED <<raft, fsm>> PROVE Goal
  BY <1>2, <1>6 DEF raft
<1>7. ASSUME ConsensusNext PROVE Goal
  BY <1>4, <1>5, <1>7 DEF ConsensusNext
<1>8. Goal
  BY <1>0, <1>3, <1>6, <1>7, ReplicaSteps DEF ReplicaStep
<1> QED
  BY <1>8 DEF Goal


\* What a handler has proposed is the last entry of its leader's log.
LEMMA ProposalIs ==
    ASSUME LedgerInv, NEW h \in Slots, HandleProposal(h)
    PROVE  LET r == handlers[h]
               q == handlers'[h]
           IN  /\ r.at = "evaluating" /\ r.node \in Node /\ q.node = r.node /\ q.client = r.client
               /\ q.live = r.live /\ q.in_term = leading[r.node] /\ leading[r.node] # 0
               /\ q.index \in 1..Len(log'[r.node])
               /\ log'[r.node][q.index].m.client = r.client /\ log'[r.node][q.index].m.seq = r.seq
<1>0. HandlerTypes /\ ReplicaTypes
  BY DEF LedgerInv, ReplicaInv
<1> DEFINE r == handlers[h]
           q == handlers'[h]
           m(status) == MutationFor(r, status)
           e(status) == [term |-> leading[r.node], m |-> m(status)]
<1>1. r.at = "evaluating" /\ commit_to_consensus(h)
  BY DEF HandleProposal, commit_to_consensus
<1>2. r \in Evaluating /\ r.node \in Node
  BY <1>0, <1>1, HandlerKinds DEF Evaluating
<1>3. log \in [Node -> Seq(Entry)] /\ log[r.node] \in Seq(Entry) /\ Len(log[r.node]) \in Nat
  BY <1>0, <1>2 DEF ReplicaTypes
<1>4. PICK status \in {"Committed", "Vetoed"} : log' = [log EXCEPT ![r.node] = Append(log[r.node], e(status))]
  BY DEF HandleProposal, commit_to_consensus, propose
<1>5. m(status).client = r.client /\ m(status).seq = r.seq /\ e(status).m = m(status)
  BY DEF MutationFor
<1> HIDE DEF e, m
<1>6. log'[r.node] = Append(log[r.node], e(status))
  BY <1>2, <1>3, <1>4
<1>7. /\ Len(Append(log[r.node], e(status))) = Len(log[r.node]) + 1
      /\ Append(log[r.node], e(status))[Len(log[r.node]) + 1] = e(status)
  BY <1>3
<1>8. Awaits(h)
  BY <1>0, <1>1, AwaitSteps
<1>9. /\ q.node = r.node /\ q.client = r.client /\ q.live = r.live /\ q.index = Len(log[r.node]) + 1
      /\ q.in_term = leading[r.node]
  BY <1>8 DEF Awaits
<1>12. leading[r.node] # 0
  BY <1>1 DEF commit_to_consensus, is_leader
<1>10. q.index \in 1..Len(log'[r.node])
  BY <1>3, <1>6, <1>7, <1>9
<1>11. log'[r.node][q.index].m = m(status)
  BY <1>5, <1>6, <1>7, <1>9
<1> QED
  BY <1>1, <1>2, <1>5, <1>9, <1>10, <1>11, <1>12

\* The leadership a handler proposed in is one of the past or of the present.
LEMMA TermKept ==
    ASSUME LedgerInv, TermInv, [Next]_vars
    PROVE  TermInv'
<1>0. HandlerTypes /\ ReplicaInv /\ ReplicaTypes /\ LeaderInv
  BY DEF LedgerInv, ReplicaInv
<1> SUFFICES ASSUME NEW h \in Slots, handlers'[h].at = "awaiting"
             PROVE  handlers'[h].in_term \in 1..term'
  BY DEF TermInv
<1>1. term \in Nat
  BY <1>0 DEF ReplicaTypes
<1>2. CASE Waits(h)
  <2>1. handlers[h].in_term \in 1..term /\ handlers'[h].in_term = handlers[h].in_term
    BY <1>2 DEF Waits, TermInv
  <2>2. handlers[h].node \in Node
    BY <1>0, <1>2, HandlerKinds DEF Waits, Awaiting
  <2>3. term' \in Nat /\ term' >= term
    BY <1>0, <2>2, LeaderSteps
  <2> QED
    BY <1>1, <2>1, <2>3
<1>3. CASE HandleProposal(h)
  <2>1. /\ handlers[h].node \in Node /\ handlers'[h].in_term = leading[handlers[h].node]
        /\ leading[handlers[h].node] # 0
    BY <1>3, ProposalIs
  <2>2. leading[handlers[h].node] \in Nat /\ leading[handlers[h].node] <= term
    BY <1>0, <2>1 DEF ReplicaTypes, LeaderInv
  <2>3. term' = term
    BY <1>3 DEF HandleProposal
  <2> QED
    BY <1>1, <2>1, <2>2, <2>3
<1> QED
  BY <1>2, <1>3, AwaitFrom

\* A leader's log keeps what was proposed in its leadership: a node that is
\* elected again leads in a new term.
LEMMA AwaitKept ==
    ASSUME LedgerInv, RequestInv, TermInv, AwaitInv, [Next]_vars
    PROVE  AwaitInv'
<1>0. HandlerTypes /\ ReplicaTypes
  BY DEF LedgerInv, ReplicaInv
<1> SUFFICES ASSUME NEW h \in Slots, handlers'[h].at = "awaiting", handlers'[h].live,
                    leading'[handlers'[h].node] = handlers'[h].in_term
             PROVE  LET q  == handlers'[h]
                        lg == log'[q.node]
                    IN  /\ q.index \in 1..Len(lg)
                        /\ lg[q.index].m.client = q.client
                        /\ lg[q.index].m.seq = current'[q.client].seq
  BY DEF AwaitInv
<1> DEFINE r == handlers[h]
           q == handlers'[h]
<1>1. Arrives(h) \/ current'[r.client] = current[r.client]
  BY LiveStays
<1>2. ~ Arrives(h)
  <2>1. \A c, n : Request(c, current[c], n).at = "sent"
    BY DEF Request
  <2> QED
    BY <2>1 DEF Arrives
<1>3. CASE Waits(h)
  <2>1. r.at = "awaiting" /\ q.client = r.client /\ q.node = r.node /\ q.index = r.index
        /\ r.live /\ q.in_term = r.in_term
    BY <1>3 DEF Waits
  <2>2. r.node \in Node
    BY <1>0, <2>1, HandlerKinds DEF Awaiting
  <2>3. leading[r.node] = r.in_term /\ is_leader(r.node)
    <3>1. leading'[r.node] = leading[r.node] \/ leading'[r.node] = 0 \/ leading'[r.node] > term
      BY <2>2, LeaderSteps DEF LedgerInv
    <3>2. r.in_term \in 1..term /\ term \in Nat
      BY <1>0, <2>1 DEF TermInv, ReplicaTypes
    <3> QED
      BY <2>1, <3>1, <3>2 DEF is_leader
  <2>4. /\ r.index \in 1..Len(log[r.node]) /\ log[r.node][r.index].m.client = r.client
        /\ log[r.node][r.index].m.seq = current[r.client].seq
    BY <2>1, <2>3 DEF AwaitInv
  <2>5. r.index \in 1..Len(log'[r.node]) /\ log'[r.node][r.index] = log[r.node][r.index]
    BY <2>2, <2>3, <2>4, LeaderLogGrows
  <2> QED
    BY <1>1, <1>2, <2>1, <2>4, <2>5
<1>4. CASE HandleProposal(h)
  <2>1. /\ r.at = "evaluating" /\ q.node = r.node /\ q.client = r.client /\ q.live = r.live
        /\ q.index \in 1..Len(log'[r.node])
        /\ log'[r.node][q.index].m.client = r.client /\ log'[r.node][q.index].m.seq = r.seq
    BY <1>4, ProposalIs
  <2>2. r.seq = current[r.client].seq
    BY <2>1 DEF RequestInv
  <2> QED
    BY <1>1, <1>2, <2>1, <2>2
<1> QED
  BY <1>3, <1>4, AwaitFrom

\* The answers that tell a client an outcome: a repetition's recorded one, and
\* the one of a proposal whose index is committed.
LEMMA OutcomeIs ==
    ASSUME HandlerTypes, NEW h \in Busy, NEW answer \in Answers(handlers[h]),
           answer.status \notin {"Rejected", "Transient", "Invalid", "Items"}
    PROVE  LET r == handlers[h]
           IN  \/ r.at = "sent" /\ r.seq # 0 /\ r.seq = Latest(store[r.node], r.client)
               \/ r.at = "awaiting" /\ await_commit(r.node, r.index)
<1> DEFINE r == handlers[h]
<1>0. h \in Slots /\ r.at # "free"
  BY DEF Busy
<1>1. r.at \in {"sent", "queued", "evaluating", "awaiting", "probing", "fencing", "reading"}
  BY <1>0, HandlerKinds DEF AnyHandler, Free, Arrived, Evaluating, Awaiting, Querying
<1>2. answer # Transient /\ answer # Invalid /\ \A hint : answer # Answer("Rejected", hint)
  BY DEF Transient, Invalid, Answer
<1>3. answer # Answer("Items", None)
  BY DEF Answer
<1>4. answer \notin Unauthorized(r.node)
  BY <1>2 DEF Unauthorized, redirection_response
<1>5. CASE r.at = "sent"
  <2> DEFINE record == check_session(store[r.node], r.client)
  <2>1. answer \in Refusals(r)
    BY <1>5 DEF Answers
  <2>2. answer = enforce_sequence_firewall(record, r.seq)
    BY <1>4, <2>1 DEF Refusals
  <2>3. r.seq # 0 /\ r.seq = record.seq
    BY <1>2, <2>2 DEF enforce_sequence_firewall
  <2> QED
    BY <1>5, <2>3 DEF check_session, Latest
<1>6. CASE r.at = "queued"
  <2>1. answer = Invalid
    BY <1>6 DEF Answers
  <2> QED
    BY <1>2, <2>1
<1>7. CASE r.at = "evaluating"
  <2>1. answer \in EvaluationFailures(r)
    BY <1>7 DEF Answers
  <2> QED
    BY <1>2, <1>4, <2>1 DEF EvaluationFailures, map_consensus_error
<1>8. CASE r.at = "awaiting"
  <2>1. answer \in build_mutation_response(r)
    BY <1>8 DEF Answers
  <2> QED
    BY <1>2, <1>8, <2>1 DEF build_mutation_response, map_consensus_error
<1>9. CASE r.at = "probing"
  <2>1. answer \in ProbeFailures(r)
    BY <1>9 DEF Answers
  <2> QED
    BY <1>2, <2>1 DEF ProbeFailures, redirection_response
<1>10. CASE r.at = "fencing"
  <2>1. answer = Transient
    BY <1>10 DEF Answers
  <2> QED
    BY <1>2, <2>1
<1>11. CASE r.at = "reading"
  <2>1. answer = Answer("Items", None)
    BY <1>11 DEF Answers, get_items
  <2> QED
    BY <1>3, <2>1
<1> QED
  BY <1>1, <1>5, <1>6, <1>7, <1>8, <1>9, <1>10, <1>11

\* A handler tells its client an outcome.
Tells(h) ==
    /\ h \in Busy /\ handlers[h].live
    /\ \E answer \in Answers(handlers[h]) :
        answer.status \notin {"Rejected", "Transient", "Invalid", "Items"}
    /\ told' = told \cup {[client |-> handlers[h].client, seq |-> current[handlers[h].client].seq]}
    /\ regained' = regained \cup (IF Outlived(handlers[h]) THEN told' \ told ELSE {})

\* No other step tells a client anything.
LEMMA ToldFrom ==
    ASSUME [Next]_vars
    PROVE  UNCHANGED <<told, regained>> \/ \E h \in Slots : Tells(h)
<1>1. ASSUME NEW c, NEW answer, receive(c, answer, None)
      PROVE  \/ UNCHANGED told
             \/ /\ answer.status \notin {"Rejected", "Transient", "Invalid", "Items"}
                /\ told' = told \cup {[client |-> c, seq |-> current[c].seq]}
  BY <1>1 DEF receive, reconcile_routing_failure, execute_mutation
<1>2. UNCHANGED clientVars => UNCHANGED told
  BY DEF clientVars
<1>3. ASSUME NEW c \in Clients, Command(c) PROVE UNCHANGED <<told, regained>>
  BY <1>3 DEF Command, next_sequence_id, append, query_state, GiveUp, restart
<1>4. ASSUME NEW c \in Clients, Timeout(c) PROVE UNCHANGED <<told, regained>>
  <2>1. receive(c, Transient, None) /\ Transient.status = "Transient"
    BY <1>4 DEF Timeout, Transient, Answer
  <2> QED
    BY <1>1, <1>4, <2>1 DEF Timeout
<1>5. ASSUME NEW c \in Clients, Crash(c) \/ \E n \in Node : Send(c, n) PROVE UNCHANGED <<told, regained>>
  BY <1>5 DEF Crash, ClientCrash, Send, send
<1>6. ASSUME NEW h \in Slots, Handle(h) \/ HandleProposal(h) \/ Drop(h) PROVE UNCHANGED <<told, regained>>
  BY <1>2, <1>6 DEF Handle, HandleProposal, Drop
<1>7. ASSUME NEW h \in Slots, Reply(h) PROVE UNCHANGED <<told, regained>> \/ Tells(h)
  <2>1. PICK answer \in Answers(handlers[h]) :
            IF handlers[h].live THEN receive(handlers[h].client, answer, None) ELSE UNCHANGED clientVars
    BY <1>7 DEF Reply
  <2>2. h \in Busy /\ regained' = regained \cup (IF Outlived(handlers[h]) THEN told' \ told ELSE {})
    BY <1>7 DEF Reply
  <2>3. told' = told => regained' = regained
    BY <2>2
  <2> QED
    BY <1>1, <1>2, <2>1, <2>2, <2>3 DEF Tells
<1>8. ASSUME Replicate \/ Probe \/ UNCHANGED vars PROVE UNCHANGED <<told, regained>>
  BY <1>2, <1>8 DEF Replicate, Probe, vars
<1> QED
  BY <1>3, <1>4, <1>5, <1>6, <1>7, <1>8 DEF Next

\* What a client is told is chosen.
LEMMA ToldKept ==
    ASSUME LedgerInv, OutcomeInv, [Next]_vars
    PROVE  ToldInv'
<1>0. /\ ReplicaInv /\ HandlerTypes /\ OrderInv /\ SessionInv /\ StoresFollowTheLog
      /\ ReplicaTypes /\ ChoiceInv /\ ProgressInv
  BY DEF LedgerInv, ReplicaInv
<1> DEFINE Chosen(c, s) == \E i \in 1..Len(chosen) : chosen[i].client = c /\ chosen[i].seq = s
<1>1. ChosenGrows /\ Len(chosen) \in Nat /\ Len(chosen') \in Nat
  <2>1. ChosenGrows
    BY <1>0, ReplicaKept
  <2> QED
    BY <1>0, <2>1 DEF ReplicaTypes, ChosenGrows
<1>2. ASSUME NEW c, NEW s, Chosen(c, s)
      PROVE  \E i \in 1..Len(chosen') : chosen'[i].client = c /\ chosen'[i].seq = s
  <2>1. PICK i \in 1..Len(chosen) : chosen[i].client = c /\ chosen[i].seq = s
    BY <1>2
  <2>2. i \in 1..Len(chosen') /\ chosen'[i] = chosen[i]
    BY <1>1, <2>1 DEF ChosenGrows
  <2> QED
    BY <2>1, <2>2
<1>3. ASSUME NEW h \in Slots, Tells(h), ~ Outlived(handlers[h])
      PROVE  Chosen(handlers[h].client, current[handlers[h].client].seq)
  <2> DEFINE r == handlers[h]
  <2>1. r.live /\ h \in Busy
    BY <1>3 DEF Tells
  <2>2. \/ r.at = "sent" /\ r.seq # 0 /\ r.seq = Latest(store[r.node], r.client)
        \/ r.at = "awaiting" /\ await_commit(r.node, r.index)
    BY <1>0, <1>3, OutcomeIs DEF Tells
  <2>3. CASE r.at = "sent" /\ r.seq # 0 /\ r.seq = Latest(store[r.node], r.client)
    <3>1. r.seq = current[r.client].seq
      BY <2>1, <2>3 DEF OutcomeInv, RequestInv
    <3>2. r.node \in Node /\ r.client \in Clients
      BY <1>0, <2>3, HandlerKinds DEF Arrived
    <3>3. \E i \in 1..covered[r.node] : chosen[i].client = r.client /\ chosen[i].seq = r.seq
      BY <1>0, <2>3, <3>2 DEF SessionInv
    <3>4. covered[r.node] <= Len(chosen) /\ covered[r.node] \in Nat
      BY <1>0, <3>2 DEF ProgressInv, ReplicaTypes
    <3> QED
      BY <1>1, <3>1, <3>3, <3>4
  <2>4. CASE r.at = "awaiting" /\ await_commit(r.node, r.index)
    <3>1. r.node \in Node /\ is_leader(r.node) /\ committed[r.node] >= r.index
      BY <1>0, <2>4, HandlerKinds DEF Awaiting, await_commit
    <3>2. /\ r.index \in 1..Len(log[r.node]) /\ log[r.node][r.index].m.client = r.client
          /\ log[r.node][r.index].m.seq = current[r.client].seq
      BY <1>3, <2>1, <2>4 DEF OutcomeInv, AwaitInv, Outlived
    <3>3. committed[r.node] \in Nat /\ Holds(chosen, log[r.node], committed[r.node])
      BY <1>0, <3>1 DEF ChoiceInv, ReplicaTypes
    <3>4. r.index \in 1..committed[r.node] /\ committed[r.node] <= Len(chosen)
      BY <3>1, <3>2, <3>3 DEF Holds
    <3>5. chosen[r.index] = log[r.node][r.index].m /\ r.index \in 1..Len(chosen)
      BY <1>1, <3>3, <3>4 DEF Holds
    <3> QED
      BY <3>2, <3>5
  <2> QED
    BY <2>2, <2>3, <2>4
<1>4. \A t \in told \ regained : Chosen(t.client, t.seq)
  BY DEF OutcomeInv, ToldInv
<1> HIDE DEF Chosen
<1>5. ASSUME NEW h \in Slots, Tells(h), NEW t \in told' \ regained' PROVE Chosen(t.client, t.seq)
  <2>1. CASE t \in told
    BY <1>4, <1>5, <2>1 DEF Tells
  <2>2. CASE t \notin told
    <3>1. ~ Outlived(handlers[h])
      BY <1>5, <2>2 DEF Tells
    <3>2. t = [client |-> handlers[h].client, seq |-> current[handlers[h].client].seq]
      BY <1>5, <2>2 DEF Tells
    <3> QED
      BY <1>3, <1>5, <3>1, <3>2
  <2> QED
    BY <2>1, <2>2
<1>6. \A t \in told' \ regained' : Chosen(t.client, t.seq)
  BY <1>4, <1>5, ToldFrom
<1> QED
  BY <1>2, <1>6 DEF ToldInv

\* The whole history records the number of every entry in it.
LEMMA ReplayRecords ==
    ASSUME ReplicaTypes, OrderInv, NEW i \in 1..Len(chosen)
    PROVE  chosen[i].seq <= Latest(Replay(chosen), chosen[i].client)
<1>0. chosen \in Seq(Mutation) /\ Len(chosen) \in Nat /\ \A k \in 1..Len(chosen) : chosen[k] \in Mutation
  BY DEF ReplicaTypes
<1> DEFINE At(k) == Replay(SubSeq(chosen, 1, k))
           Good(k) == /\ ~ At(k).poisoned
                      /\ \A j \in 1..k : chosen[j].seq <= Latest(At(k), chosen[j].client)
           Bad == {k \in 0..Len(chosen) : ~ Good(k)}
<1>1. \A k \in 0..Len(chosen) : At(k) \in Store
  BY <1>0, ReplayStore
<1>2. ASSUME Bad # {} PROVE FALSE
  <2>1. Bad \in SUBSET Nat
    BY <1>0
  <2> DEFINE n == Min(Bad)
  <2>2. n \in Bad /\ \A y \in Bad : n <= y
    <3> HIDE DEF Bad
    <3> QED
      BY <1>2, <2>1, MinIs
  <2> HIDE DEF n
  <2>3. n \in 0..Len(chosen) /\ ~ Good(n)
    BY <2>2
  <2>4. n # 0
    <3>1. At(0) = new /\ ~ new.poisoned
      BY <1>0, ReplayNothing DEF new
    <3>2. Good(0)
      BY <3>1
    <3> HIDE DEF Good
    <3> QED
      BY <2>3, <3>2
  <2> DEFINE k == n - 1
             m == chosen[n]
             st == At(k)
             nu == At(n)
  <2>5. k \in 0..Len(chosen) /\ k \in Nat /\ k + 1 = n /\ k + 1 <= Len(chosen) /\ ~ (n <= k) /\ n \in 1..Len(chosen)
        /\ (\A j \in 1..n : j = n \/ j \in 1..k)
    BY <1>0, <2>3, <2>4
  <2> HIDE DEF k
  <2>6. Good(k)
    <3> HIDE DEF Good
    <3> QED
      BY <2>2, <2>5
  <2>7. st \in Store /\ m \in Mutation /\ ~ st.poisoned
    BY <1>0, <1>1, <2>5, <2>6
  <2>8. nu = apply(st, st.applied + 1, m)
    BY <1>0, <2>5, ReplayStep
  <2>9. \A c : Latest(st, c) \in Nat /\ m.seq \in Nat
    BY <2>7, LatestType DEF Mutation
  <2>10. m.seq <= Latest(st, m.client) + 1
    <3>1. Follows(chosen, m.client, m.seq, k)
      <4>1. n - 1 = k
        BY <2>5
      <4> QED
        BY <2>5, <4>1 DEF OrderInv
    <3>2. CASE m.seq <= 1
      BY <2>9, <3>2
    <3>3. CASE m.seq > 1
      <4>1. PICK j \in 1..k : chosen[j].client = m.client /\ chosen[j].seq = m.seq - 1
        BY <3>1, <3>3 DEF Follows
      <4>2. m.seq - 1 <= Latest(st, m.client)
        BY <2>6, <4>1
      <4> HIDE DEF st, m
      <4> QED
        BY <2>9, <4>2
    <3> QED
      BY <2>9, <3>2, <3>3
  <2>11. /\ ~ nu.poisoned /\ m.seq <= Latest(nu, m.client)
         /\ \A c : Latest(nu, c) >= Latest(st, c)
    <3> HIDE DEF st, m, nu
    <3> QED
      BY <2>7, <2>8, <2>10, ApplyNext
  <2>12. nu \in Store /\ \A c : Latest(nu, c) \in Nat
    BY <1>1, <2>5, LatestType
  <2>13. ASSUME NEW j \in 1..n PROVE chosen[j].seq <= Latest(nu, chosen[j].client)
    <3>1. CASE j = n
      BY <2>11, <3>1
    <3>2. CASE j \in 1..k
      <4>1. chosen[j].seq <= Latest(st, chosen[j].client) /\ j \in 1..Len(chosen)
        BY <1>0, <2>5, <2>6, <3>2
      <4>2. chosen[j].seq \in Nat
        BY <1>0, <4>1 DEF Mutation
      <4> HIDE DEF st, nu
      <4> QED
        BY <2>9, <2>11, <2>12, <4>1, <4>2
    <3> QED
      BY <2>5, <3>1, <3>2
  <2>14. Good(n)
    BY <2>11, <2>13
  <2> HIDE DEF Good
  <2> QED
    BY <2>3, <2>14
<1>3. Good(Len(chosen))
  <2> HIDE DEF Good
  <2> QED
    BY <1>0, <1>2
<1>4. SubSeq(chosen, 1, Len(chosen)) = chosen
  BY <1>0
<1> QED
  BY <1>3, <1>4

\* Whoever was told an outcome has its sequence number in the committed
\* history, for any number of clients, requests, leaderships and crashes; with
\* the exception of handlers that answer after their node has lost the
\* leadership they proposed in and gained another (handle.rs, await_commit: the
\* wait compares indices only, and takes the entry of another leader for its own).
THEOREM OutcomesAreRecorded == Spec => []ToldIsRecorded
<1>1. Init => OutcomeInv
  BY DEF Init, ConsensusInit, GatewayInit, ClientInit, Free, OutcomeInv, RequestInv, TermInv,
         AwaitInv, ToldInv
<1>2. LedgerInv /\ OutcomeInv /\ [Next]_vars => OutcomeInv'
  BY RequestKept, TermKept, AwaitKept, ToldKept DEF OutcomeInv
<1>3. LedgerInv /\ OutcomeInv => ToldIsRecorded
  <2> SUFFICES ASSUME LedgerInv, OutcomeInv, NEW t \in told \ regained
               PROVE  t.seq <= LastRecorded(t.client)
    BY DEF ToldIsRecorded
  <2>1. PICK i \in 1..Len(chosen) : chosen[i].client = t.client /\ chosen[i].seq = t.seq
    BY DEF OutcomeInv, ToldInv
  <2>2. t.seq <= Latest(Replay(chosen), t.client)
    BY <2>1, ReplayRecords DEF LedgerInv, ReplicaInv
  <2>3. LastRecorded(t.client) = Latest(Replay(chosen), t.client)
    BY DEF LastRecorded, Recorded, Latest, get_session_record, NoSession
  <2> QED
    BY <2>2, <2>3
<1> QED
  BY <1>1, <1>2, <1>3, LedgerInvariant, PTL DEF Spec

=============================================================================
