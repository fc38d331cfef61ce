---------------------------- MODULE MqTablesProofs --------------------------
(***************************************************************************)
(* What the statements of the stored procedures keep of a table: lemmas    *)
(* about the operators of MqTables, for any table and without any state.   *)
(***************************************************************************)
EXTENDS MqTables, FiniteSetTheorems, TLAPS

-----------------------------------------------------------------------------
(* What the operators on tables keep: the type of a table, and its domain. *)

Table(t) == DOMAIN t \subseteq MsgId \cup {Nil} /\ t \in [DOMAIN t -> Row]

(* A row claimed by a poll, committed, kept alive or checkpointed is a row. *)
LEMMA RowTypes ==
    ASSUME NEW r \in Row, NEW time \in Int, NEW extra \in Int
    PROVE  /\ Claimed(r, time) \in Row
           /\ r.commit_interval # Null => Committed(r) \in Row
           /\ r.attempt_at # Null => KeptAlive(r, time) \in Row
           /\ [r EXCEPT !.attempt_at = Greatest(@, time),
                        !.attempts = @ + extra] \in Row
           /\ [r EXCEPT !.after = Nil] \in Row
<1> DEFINE Nullable == Int \cup {Null}
<1>1. /\ r.created_at \in Int /\ r.attempts \in Int /\ r.retry_backoff \in Nat
      /\ r.channel \in Channel /\ r.after \in MsgId \cup {Nil, Null}
      /\ r.attempt_at \in Nullable /\ r.commit_interval \in Nullable
  BY DEF Row
<1>2. Claimed(r, time) \in Row
  <2> DEFINE next == IF r.attempts = 1 THEN Null ELSE time + r.retry_backoff
  <2>1. next \in Nullable /\ r.attempts - 1 \in Int /\ r.retry_backoff * 2 \in Nat
    BY <1>1
  <2> HIDE DEF next
  <2>2. [r EXCEPT !.attempt_at = next, !.attempts = @ - 1,
                  !.retry_backoff = @ * 2] \in Row
    BY <1>1, <2>1 DEF Row
  <2>3. QED
    BY <2>2 DEF Claimed, next
<1>3. ASSUME r.commit_interval # Null PROVE Committed(r) \in Row
  <2> DEFINE next == IF r.attempt_at = Null THEN Null
                     ELSE r.attempt_at - r.commit_interval
  <2>1. next \in Nullable
    BY <1>1, <1>3
  <2> HIDE DEF next
  <2>2. [r EXCEPT !.attempt_at = next, !.commit_interval = Null] \in Row
    BY <1>1, <2>1 DEF Row
  <2>3. QED
    BY <2>2 DEF Committed, next
<1>4. ASSUME r.attempt_at # Null PROVE KeptAlive(r, time) \in Row
  <2> DEFINE ci == IF r.commit_interval = Null THEN Null
                   ELSE r.commit_interval + (time - r.attempt_at)
  <2>1. ci \in Nullable
    BY <1>1, <1>4
  <2> HIDE DEF ci
  <2>2. [r EXCEPT !.attempt_at = time, !.commit_interval = ci] \in Row
    BY <1>1, <2>1 DEF Row
  <2>3. QED
    BY <2>2 DEF KeptAlive, ci
<1>5. [r EXCEPT !.attempt_at = Greatest(@, time), !.attempts = @ + extra] \in Row
  <2>1. Greatest(r.attempt_at, time) \in Nullable /\ r.attempts + extra \in Int
    BY <1>1 DEF Greatest
  <2> HIDE DEF Nullable
  <2>2. QED
    BY <1>1, <2>1 DEF Row, Nullable
<1>6. [r EXCEPT !.after = Nil] \in Row
  BY <1>1 DEF Row
<1>7. QED
  BY <1>2, <1>3, <1>4, <1>5, <1>6

(* Every statement but an insert yields a table of the old rows.           *)
LEMMA TableTypes ==
    ASSUME NEW t, Table(t)
    PROVE  /\ \A S : \A time \in Int : /\ Table(AfterPoll(t, S, time))
                                     /\ Table(AfterKeepAlive(t, S, time))
           /\ \A S : Table(AfterCommit(t, S)) /\ Table(AfterDelete(t, S))
           /\ \A m : \A time \in Int, extra \in Int :
                 Table(AfterCheckpoint(t, m, time, extra))
<1> USE DEF Table
<1>1. \A i \in DOMAIN t : t[i] \in Row
  OBVIOUS
<1> 0 \in Int
  OBVIOUS
<1>2. ASSUME NEW S, NEW time \in Int PROVE Table(AfterPoll(t, S, time))
  BY <1>1, RowTypes DEF AfterPoll
<1>3. ASSUME NEW S PROVE Table(AfterCommit(t, S))
  BY <1>1, RowTypes DEF AfterCommit
<1>4. ASSUME NEW S, NEW time \in Int PROVE Table(AfterKeepAlive(t, S, time))
  BY <1>1, RowTypes DEF AfterKeepAlive
<1>5. ASSUME NEW m, NEW time \in Int, NEW extra \in Int
      PROVE  Table(AfterCheckpoint(t, m, time, extra))
  BY <1>1, RowTypes DEF AfterCheckpoint
<1>6. ASSUME NEW S PROVE Table(AfterDelete(t, S))
  BY <1>1, RowTypes DEF AfterDelete
<1>7. QED
  BY <1>2, <1>3, <1>4, <1>5, <1>6

(* A spawned row is a row, so an insert yields a table.                    *)
LEMMA InsertTypes ==
    ASSUME NEW t, Table(t), NEW m \in MsgId, NEW new \in NewJob,
           NEW start \in Int, NEW latest \in MsgId \cup {Nil, Null}
    PROVE  Table(AfterInsert(t, m, NewRow(new, start, latest)))
<1>1. Coalesce(new.commit_interval, 0) \in Nat
  BY DEF Coalesce, NewJob
<1>2. NewRow(new, start, latest) \in Row
  BY <1>1 DEF NewRow, Row, NewJob
<1>3. QED
  BY <1>2 DEF AfterInsert, Table
-----------------------------------------------------------------------------
(* The links between rows: only inserts and deletes touch them.            *)

SameLinks(t, u) ==
    /\ DOMAIN u = DOMAIN t
    /\ \A i \in DOMAIN t : u[i].channel = t[i].channel /\ u[i].after = t[i].after

(* Claims, commits, keep-alives and checkpoints leave the links alone.     *)
LEMMA TableLinks ==
    ASSUME NEW t, Table(t)
    PROVE  /\ \A S, time : /\ SameLinks(t, AfterPoll(t, S, time))
                          /\ SameLinks(t, AfterKeepAlive(t, S, time))
           /\ \A S : SameLinks(t, AfterCommit(t, S))
           /\ \A m, time, extra : SameLinks(t, AfterCheckpoint(t, m, time, extra))
<1> USE DEF SameLinks
<1>1. \A i \in DOMAIN t : t[i] \in Row
  BY DEF Table
<1>2. ASSUME NEW r \in Row, NEW time, NEW extra
      PROVE  /\ Claimed(r, time).channel = r.channel
             /\ Claimed(r, time).after = r.after
             /\ Committed(r).channel = r.channel
             /\ Committed(r).after = r.after
             /\ KeptAlive(r, time).channel = r.channel
             /\ KeptAlive(r, time).after = r.after
             /\ [r EXCEPT !.attempt_at = Greatest(@, time),
                          !.attempts = @ + extra].channel = r.channel
             /\ [r EXCEPT !.attempt_at = Greatest(@, time),
                          !.attempts = @ + extra].after = r.after
  BY DEF Row, Claimed, Committed, KeptAlive
<1>3. ASSUME NEW S, NEW time PROVE SameLinks(t, AfterPoll(t, S, time))
  BY <1>1, <1>2 DEF AfterPoll
<1>4. ASSUME NEW S, NEW time PROVE SameLinks(t, AfterKeepAlive(t, S, time))
  BY <1>1, <1>2 DEF AfterKeepAlive
<1>5. ASSUME NEW S PROVE SameLinks(t, AfterCommit(t, S))
  BY <1>1, <1>2 DEF AfterCommit
<1>6. ASSUME NEW m, NEW time, NEW extra
      PROVE  SameLinks(t, AfterCheckpoint(t, m, time, extra))
  BY <1>1, <1>2 DEF AfterCheckpoint
<1>7. QED
  BY <1>3, <1>4, <1>5, <1>6

(* Statements that keep the links keep constraints and chains.             *)
LEMMA LinksKeepChains ==
    ASSUME NEW t, NEW u, SameLinks(t, u), Consistent(t), Chained(t)
    PROVE  Consistent(u) /\ Chained(u)
<1>1. Consistent(u)
  BY DEF SameLinks, Consistent, ForeignKeyOK, UniqueOK
<1>2. ASSUME NEW m \in DOMAIN u, mq_uuid_exists(u[m].after)
      PROVE  u[u[m].after].channel = u[m].channel /\ u[u[m].after].after # Null
  <2>1. t[m].after = u[m].after /\ t[m].after \in DOMAIN t /\ m \in DOMAIN t
    BY <1>2 DEF SameLinks, Consistent, ForeignKeyOK, mq_uuid_exists
  <2>2. t[t[m].after].channel = t[m].channel /\ t[t[m].after].after # Null
    BY <1>2, <2>1 DEF Chained
  <2>3. QED
    BY <2>1, <2>2 DEF SameLinks
<1>3. ASSUME NEW S \in SUBSET DOMAIN u, S # {} PROVE \E m \in S : u[m].after \notin S
  <2>1. \E m \in S : t[m].after \notin S
    BY <1>3 DEF Chained, SameLinks
  <2>2. QED
    BY <2>1 DEF SameLinks
<1>4. QED
  BY <1>1, <1>2, <1>3 DEF Chained

-----------------------------------------------------------------------------
(* Chains: the ordered messages of a channel.                              *)

OrderedOf(t, ch) == {m \in DOMAIN t : t[m].channel = ch /\ t[m].after # Null}

(* What comes before an ordered message is an ordered one of its channel,  *)
(* or nothing.                                                             *)
LEMMA BeforeIsOrdered ==
    ASSUME NEW t, Consistent(t), Chained(t), NEW ch, NEW m \in OrderedOf(t, ch)
    PROVE  t[m].after = Nil \/ t[m].after \in OrderedOf(t, ch)
<1>1. m \in DOMAIN t /\ t[m].channel = ch /\ t[m].after # Null
  BY DEF OrderedOf
<1>2. t[m].after \in DOMAIN t
  BY <1>1 DEF Consistent, ForeignKeyOK
<1>3. t[m].after # Nil => t[t[m].after].channel = ch /\ t[t[m].after].after # Null
  BY <1>1 DEF Chained, mq_uuid_exists
<1>4. QED
  BY <1>2, <1>3 DEF OrderedOf

(* A channel with ordered messages has a first one.                        *)
LEMMA HeadExists ==
    ASSUME NEW t, Consistent(t), Chained(t), NEW ch, OrderedOf(t, ch) # {}
    PROVE  \E m \in OrderedOf(t, ch) : t[m].after = Nil
<1>1. OrderedOf(t, ch) \in SUBSET DOMAIN t
  BY DEF OrderedOf
<1>2. PICK m \in OrderedOf(t, ch) : t[m].after \notin OrderedOf(t, ch)
  BY <1>1 DEF Chained
<1>3. QED
  BY <1>2, BeforeIsOrdered

(* One with finitely many has a last one: if each of them had a successor, *)
(* these would be one fewer, the first being nobody's.                     *)
LEMMA LastExists ==
    ASSUME NEW t, Table(t), Nil \in DOMAIN t, t[Nil].after = Null, IsFiniteSet(DOMAIN t),
           Consistent(t), Chained(t), NEW ch, OrderedOf(t, ch) # {}
    PROVE  Tails(t, ch) # {}
<1> DEFINE L == OrderedOf(t, ch)
<1>1. Nil \notin L /\ Null \notin L
  BY TablesAssumption DEF OrderedOf, Table
<1>2. PICK h \in L : t[h].after = Nil
  BY HeadExists
<1> SUFFICES ASSUME Tails(t, ch) = {} PROVE FALSE
  OBVIOUS
<1>3. ASSUME NEW m \in L PROVE \E j \in L \ {h} : t[j].after = m
  <2>1. m \in DOMAIN t /\ t[m].channel = ch /\ t[m].after # Null /\ m # Nil /\ m # Null
    BY <1>1 DEF OrderedOf
  <2>2. PICK j \in DOMAIN t : t[j].after = m
    BY <2>1 DEF Tails
  <2>3. t[j].channel = ch
    BY <2>1, <2>2 DEF Chained, mq_uuid_exists
  <2>4. j \in L /\ j # h
    BY <1>2, <2>1, <2>2, <2>3 DEF OrderedOf
  <2>5. QED
    BY <2>2, <2>4
<1> DEFINE succ == [m \in L |-> CHOOSE j \in L \ {h} : t[j].after = m]
<1>4. succ \in [L -> L \ {h}] /\ \A m \in L : t[succ[m]].after = m
  BY <1>3
<1>5. IsFiniteSet(L)
  BY FS_Subset DEF OrderedOf
<1>6. IsFiniteSet(L \ {h}) /\ Cardinality(L \ {h}) = Cardinality(L) - 1
      /\ Cardinality(L) \in Nat
  BY <1>2, <1>5, FS_RemoveElement, FS_CardinalityType
<1>7. \E x, y \in L : x # y /\ succ[x] = succ[y]
  <2> HIDE DEF succ, L
  <2>1. Cardinality(L \ {h}) < Cardinality(L)
    BY <1>6
  <2>2. QED
    BY <1>4, <1>5, <1>6, <2>1, FS_PigeonHole
<1>8. QED
  BY <1>4, <1>7

-----------------------------------------------------------------------------
(* Deletes                                                                 *)

(* S holds, with every message, the one before it: heads, prefixes, and    *)
(* whole channels.                                                         *)
Closed(t, S) ==
    \A m \in S : mq_uuid_exists(t[m].after) => t[m].after \in S

(* Those of G on the way from x to the first message, x included.          *)
Down(t, G, x) ==
    {m \in G : \A T \in SUBSET G : x \in T \cup {Nil} /\ Closed(t, T) => m \in T}

(* Everything on that way but x has its successor there, the place before  *)
(* the first message too.                                                  *)
LEMMA OnTheWay ==
    ASSUME NEW t, Chained(t), NEW G \in SUBSET DOMAIN t,
           Nil \notin G, \A m \in G : t[m].after \in G \cup {Nil} /\ t[m].after # Null,
           NEW x \in G \cup {Nil}
    PROVE  /\ x \in Down(t, G, x) \cup {Nil}
           /\ \A m \in Down(t, G, x) : t[m].after \in Down(t, G, x) \cup {Nil}
           /\ \A w \in Down(t, G, x) \cup {Nil} :
                 w # x => \E m \in Down(t, G, x) : t[m].after = w
<1> DEFINE D == Down(t, G, x)
<1>1. D \in SUBSET G
  BY DEF Down
<1>2. \A T \in SUBSET G : Closed(t, T) <=> \A m \in T : t[m].after \in T \cup {Nil}
  BY DEF Closed, mq_uuid_exists
<1>3. x \in D \cup {Nil}
  BY DEF Down
<1>4. ASSUME NEW m \in D PROVE t[m].after \in D \cup {Nil}
  <2>1. SUFFICES ASSUME t[m].after # Nil PROVE t[m].after \in D
    OBVIOUS
  <2>2. t[m].after \in G
    BY <1>1, <2>1
  <2>3. ASSUME NEW T \in SUBSET G, x \in T \cup {Nil}, Closed(t, T) PROVE t[m].after \in T
    <3>1. m \in T
      BY <2>3 DEF Down
    <3>2. QED
      BY <1>2, <2>1, <2>3, <3>1
  <2>4. QED
    BY <2>2, <2>3 DEF Down
<1>5. ASSUME NEW w \in D \cup {Nil}, w # x PROVE \E m \in D : t[m].after = w
  <2>1. CASE w = Nil
    <3>1. D # {} /\ D \in SUBSET DOMAIN t
      BY <1>1, <1>3, <1>5, <2>1
    <3>2. PICK m \in D : t[m].after \notin D
      BY <3>1 DEF Chained
    <3>3. QED
      BY <1>4, <2>1, <3>2
  <2>2. CASE w \in D
    <3> SUFFICES ASSUME \A m \in D : t[m].after # w PROVE FALSE
      OBVIOUS
    <3> DEFINE T == D \ {w}
    <3>1. T \in SUBSET G /\ x \in T \cup {Nil}
      BY <1>1, <1>3, <1>5
    <3>2. \A m \in T : t[m].after \in T \cup {Nil}
      BY <1>4
    <3>3. Closed(t, T)
      BY <1>2, <3>1, <3>2
    <3> HIDE DEF T
    <3>4. w \in T
      BY <2>2, <3>1, <3>3 DEF Down
    <3>5. QED
      BY <3>4 DEF T
  <2>3. QED
    BY <1>5, <2>1, <2>2
<1>6. QED
  BY <1>3, <1>4, <1>5

(* A channel is one chain: of the messages that a closed set leaves, only  *)
(* one comes directly after the set.                                       *)
LEMMA OneComesNext ==
    ASSUME NEW t, Consistent(t), Chained(t), Nil \in DOMAIN t, t[Nil].after = Null,
           NEW S \in SUBSET DOMAIN t, Nil \notin S, Closed(t, S),
           NEW ch, NEW i \in OrderedOf(t, ch), NEW j \in OrderedOf(t, ch),
           i \notin S, j \notin S,
           t[i].after \in S \cup {Nil}, t[j].after \in S \cup {Nil}
    PROVE  i = j
<1> DEFINE L == OrderedOf(t, ch)
           G == S \cap L
           x == t[i].after
           y == t[j].after
           D(z) == Down(t, G, z)
<1>1. \A m \in L : m \in DOMAIN t /\ t[m].channel = ch /\ t[m].after # Null
  BY DEF OrderedOf
<1>2. \A m \in L : t[m].after = Nil \/ t[m].after \in L
  BY BeforeIsOrdered
<1>3. \A m \in G : t[m].after \in G \cup {Nil} /\ t[m].after # Null
  BY <1>1, <1>2 DEF Closed, mq_uuid_exists
<1>4. x \in G \cup {Nil} /\ y \in G \cup {Nil}
  BY <1>2
<1>5. \A m \in G : t[m].after # x /\ t[m].after # y
  BY <1>1 DEF Consistent, UniqueOK
<1>6. ASSUME NEW z \in G \cup {Nil}
      PROVE  /\ z \in D(z) \cup {Nil} /\ D(z) \in SUBSET G
             /\ \A m \in D(z) : t[m].after \in D(z) \cup {Nil}
             /\ \A w \in D(z) \cup {Nil} : w # z => \E m \in D(z) : t[m].after = w
  <2>1. G \in SUBSET DOMAIN t /\ Nil \notin G
    OBVIOUS
  <2>2. D(z) \in SUBSET G
    BY DEF Down
  <2> HIDE DEF G
  <2>3. QED
    BY <1>3, <2>1, <2>2, OnTheWay
<1> HIDE DEF D, G
<1>7. SUFFICES ASSUME x # y PROVE FALSE
  BY <1>1 DEF Consistent, UniqueOK
<1>8. y \notin D(x) \cup {Nil}
  BY <1>4, <1>5, <1>6, <1>7
<1> DEFINE R == D(y) \ D(x)
<1>9. y \in R /\ R \in SUBSET DOMAIN t
  BY <1>4, <1>6, <1>8 DEF G
<1>10. PICK m \in R : t[m].after \notin R
  BY <1>9 DEF Chained
<1>11. t[m].after \in D(x) \cup {Nil} /\ m \in G
  BY <1>4, <1>6, <1>10
<1>12. PICK n \in D(x) : t[n].after = t[m].after
  BY <1>4, <1>5, <1>6, <1>11
<1>13. n = m
  <2>1. n \in L /\ m \in L
    BY <1>4, <1>6, <1>11, <1>12 DEF G
  <2>2. QED
    BY <1>1, <1>12, <2>1 DEF Consistent, UniqueOK
<1>14. QED
  BY <1>12, <1>13

(* Deleting a closed set breaks no constraint and no chain.                *)
LEMMA DeleteKeepsChains ==
    ASSUME NEW t, Consistent(t), Chained(t), Nil \in DOMAIN t, t[Nil].after = Null,
           Table(t), NEW S \in SUBSET DOMAIN t, Nil \notin S, Closed(t, S)
    PROVE  Consistent(AfterDelete(t, S)) /\ Chained(AfterDelete(t, S))
<1> DEFINE u == AfterDelete(t, S)
<1>1. DOMAIN u = DOMAIN t \ S
  BY DEF AfterDelete
<1>2. ASSUME NEW m \in DOMAIN u
      PROVE  /\ u[m].channel = t[m].channel
             /\ u[m].after = IF t[m].after \in S THEN Nil ELSE t[m].after
  <2>1. t[m] \in Row
    BY <1>1 DEF Table
  <2>2. u[m] = IF t[m].after \in S THEN [t[m] EXCEPT !.after = Nil] ELSE t[m]
    BY <1>1 DEF AfterDelete
  <2>3. QED
    BY <2>1, <2>2 DEF Row
<1>3. Nil # Null /\ Null \notin S
  BY TablesAssumption DEF Table
<1> HIDE DEF u
<1>4. ForeignKeyOK(u)
  BY <1>1, <1>2, <1>3 DEF ForeignKeyOK, Consistent
<1>5. UniqueOK(u)
  <2> SUFFICES ASSUME NEW i \in DOMAIN u, NEW j \in DOMAIN u,
                      u[i].channel = u[j].channel, u[i].after # Null,
                      u[i].after = u[j].after
               PROVE  i = j
    BY DEF UniqueOK
  <2> DEFINE ch == t[i].channel
  <2>1. i \in OrderedOf(t, ch) /\ j \in OrderedOf(t, ch) /\ i \notin S /\ j \notin S
    BY <1>1, <1>2, <1>3 DEF OrderedOf
  <2>2. CASE u[i].after = Nil
    <3>1. t[i].after \in S \cup {Nil} /\ t[j].after \in S \cup {Nil}
      BY <1>2, <2>2
    <3> HIDE DEF ch
    <3>2. QED
      BY <2>1, <3>1, OneComesNext
  <2>3. CASE u[i].after # Nil
    <3>1. t[i].after = t[j].after /\ t[i].channel = t[j].channel /\ t[i].after # Null
      BY <1>2, <1>3, <2>3
    <3>2. QED
      BY <1>1, <3>1 DEF Consistent, UniqueOK
  <2>4. QED
    BY <2>2, <2>3
<1>6. ASSUME NEW m \in DOMAIN u, mq_uuid_exists(u[m].after)
      PROVE  u[u[m].after].channel = u[m].channel /\ u[u[m].after].after # Null
  <2>1. u[m].after = t[m].after /\ mq_uuid_exists(t[m].after) /\ m \in DOMAIN t
        /\ t[m].after \notin S
    BY <1>1, <1>2, <1>6 DEF mq_uuid_exists
  <2>2. u[m].after \in DOMAIN u
    BY <1>4, <1>6 DEF ForeignKeyOK, mq_uuid_exists
  <2>3. t[t[m].after].channel = t[m].channel /\ t[t[m].after].after # Null
    BY <2>1 DEF Chained
  <2>4. QED
    BY <1>2, <1>3, <2>1, <2>2, <2>3
<1>7. ASSUME NEW T \in SUBSET DOMAIN u, T # {} PROVE \E m \in T : u[m].after \notin T
  <2>1. CASE Nil \in T
    <3>1. u[Nil].after = Null /\ Null \notin T
      BY <1>1, <1>2, <1>3, <2>1, TablesAssumption DEF Table
    <3>2. QED
      BY <2>1, <3>1
  <2>2. CASE Nil \notin T
    <3>1. PICK m \in T : t[m].after \notin T
      BY <1>1, <1>7 DEF Chained
    <3>2. u[m].after \notin T
      BY <1>2, <2>2, <3>1
    <3>3. QED
      BY <3>2
  <2>3. QED
    BY <2>1, <2>2
<1>8. QED
  BY <1>4, <1>5, <1>6, <1>7 DEF Consistent, Chained, u

-----------------------------------------------------------------------------
(* Inserts                                                                 *)

(* A new message that comes after nothing, or after one of its channel     *)
(* that nothing comes after.                                               *)
Fits(t, row) ==
    row.after # Null =>
        /\ row.after \in DOMAIN t
        /\ row.after # Nil => t[row.after].channel = row.channel /\ t[row.after].after # Null
        /\ \A m \in DOMAIN t : t[m].channel = row.channel => t[m].after # row.after

(* Inserting one breaks no constraint and no chain.                        *)
LEMMA InsertKeepsChains ==
    ASSUME NEW t, Consistent(t), Chained(t), NEW m, m \notin DOMAIN t, m # Null,
           NEW row, Fits(t, row)
    PROVE  Consistent(AfterInsert(t, m, row)) /\ Chained(AfterInsert(t, m, row))
<1> DEFINE u == AfterInsert(t, m, row)
<1>1. /\ DOMAIN u = DOMAIN t \cup {m} /\ u[m] = row
      /\ \A i \in DOMAIN t : u[i] = t[i]
  BY DEF AfterInsert
<1> HIDE DEF u
<1>2. ForeignKeyOK(u)
  BY <1>1 DEF ForeignKeyOK, Consistent, Fits
<1>3. \A i \in DOMAIN t : t[i].after # m
  BY DEF Consistent, ForeignKeyOK
<1>4. UniqueOK(u)
  <2> SUFFICES ASSUME NEW i \in DOMAIN u, NEW j \in DOMAIN u,
                      u[i].channel = u[j].channel, u[i].after # Null,
                      u[i].after = u[j].after, i # j
               PROVE  FALSE
    BY DEF UniqueOK
  <2>1. CASE i \in DOMAIN t /\ j \in DOMAIN t
    BY <1>1, <2>1 DEF Consistent, UniqueOK
  <2>2. CASE i = m
    BY <1>1, <2>2 DEF Fits
  <2>3. CASE j = m
    BY <1>1, <2>3 DEF Fits
  <2>4. QED
    BY <1>1, <2>1, <2>2, <2>3
<1>5. ASSUME NEW i \in DOMAIN u, mq_uuid_exists(u[i].after)
      PROVE  u[u[i].after].channel = u[i].channel /\ u[u[i].after].after # Null
  <2>1. CASE i = m
    BY <1>1, <1>5, <2>1 DEF Fits, mq_uuid_exists
  <2>2. CASE i \in DOMAIN t
    <3>1. u[i] = t[i] /\ t[i].after \in DOMAIN t
      BY <1>1, <1>5, <2>2 DEF Consistent, ForeignKeyOK, mq_uuid_exists
    <3>2. t[t[i].after].channel = t[i].channel /\ t[t[i].after].after # Null
      BY <1>5, <2>2, <3>1 DEF Chained
    <3>3. QED
      BY <1>1, <3>1, <3>2
  <2>3. QED
    BY <1>1, <2>1, <2>2
<1>6. ASSUME NEW T \in SUBSET DOMAIN u, T # {} PROVE \E i \in T : u[i].after \notin T
  <2>1. CASE T \subseteq {m}
    <3>1. T = {m} /\ row.after # m
      BY <1>6, <2>1 DEF Fits
    <3>2. QED
      BY <1>1, <3>1
  <2>2. CASE ~ (T \subseteq {m})
    <3>1. T \ {m} # {} /\ T \ {m} \in SUBSET DOMAIN t
      BY <1>1, <2>2
    <3>2. PICK i \in T \ {m} : t[i].after \notin T \ {m}
      BY <3>1 DEF Chained
    <3>3. u[i].after \notin T
      BY <1>1, <1>3, <3>1, <3>2
    <3>4. QED
      BY <3>3
  <2>3. QED
    BY <2>1, <2>2
<1>7. QED
  BY <1>2, <1>4, <1>5, <1>6 DEF Consistent, Chained, u

-----------------------------------------------------------------------------
(* Attempts: polls of what is due, and anything else, leave a message that *)
(* is scheduled with an attempt.                                           *)
LEMMA AttemptsLeftKept ==
    ASSUME NEW t, Table(t), AttemptsLeft(t)
    PROVE  /\ \A S : \A time \in Int :
                 (\A m \in S \cap DOMAIN t : t[m].attempt_at # Null)
                 => AttemptsLeft(AfterPoll(t, S, time))
           /\ \A S : \A time \in Int : AttemptsLeft(AfterKeepAlive(t, S, time))
           /\ \A S : AttemptsLeft(AfterCommit(t, S)) /\ AttemptsLeft(AfterDelete(t, S))
           /\ \A m, row : row.attempts \in Nat \ {0} => AttemptsLeft(AfterInsert(t, m, row))
<1>1. \A i \in DOMAIN t : /\ t[i] \in Row /\ t[i].attempts \in Int /\ t[i].attempts >= 0
                          /\ t[i].attempt_at # Null => t[i].attempts > 0
  BY DEF Table, AttemptsLeft, Row
<1>2. ASSUME NEW S, NEW time \in Int, \A m \in S \cap DOMAIN t : t[m].attempt_at # Null
      PROVE  AttemptsLeft(AfterPoll(t, S, time))
  <2>1. ASSUME NEW r \in Row, r.attempts > 0
        PROVE  /\ Claimed(r, time).attempts >= 0
               /\ Claimed(r, time).attempt_at # Null => Claimed(r, time).attempts > 0
    <3>1. r.attempts \in Int
      BY DEF Row
    <3>2. /\ Claimed(r, time).attempts = r.attempts - 1
          /\ r.attempts = 1 => Claimed(r, time).attempt_at = Null
      BY DEF Claimed, Row
    <3>3. QED
      BY <2>1, <3>1, <3>2
  <2>2. QED
    BY <1>1, <1>2, <2>1 DEF AttemptsLeft, AfterPoll
<1>3. ASSUME NEW S, NEW time \in Int PROVE AttemptsLeft(AfterKeepAlive(t, S, time))
  <2>1. \A r \in Row : KeptAlive(r, time).attempts = r.attempts
    BY DEF KeptAlive, Row
  <2>2. QED
    BY <1>1, <2>1 DEF AttemptsLeft, AfterKeepAlive
<1>4. ASSUME NEW S PROVE AttemptsLeft(AfterCommit(t, S))
  <2>1. \A r \in Row : /\ Committed(r).attempts = r.attempts
                       /\ r.attempt_at = Null => Committed(r).attempt_at = Null
    BY DEF Committed, Row
  <2>2. QED
    BY <1>1, <2>1 DEF AttemptsLeft, AfterCommit
<1>5. ASSUME NEW S PROVE AttemptsLeft(AfterDelete(t, S))
  <2>1. \A r \in Row : /\ [r EXCEPT !.after = Nil].attempts = r.attempts
                       /\ [r EXCEPT !.after = Nil].attempt_at = r.attempt_at
    BY DEF Row
  <2>2. QED
    BY <1>1, <2>1 DEF AttemptsLeft, AfterDelete
<1>6. ASSUME NEW m, NEW row, row.attempts \in Nat \ {0}
      PROVE  AttemptsLeft(AfterInsert(t, m, row))
  BY <1>1, <1>6 DEF AttemptsLeft, AfterInsert
<1>7. QED
  BY <1>2, <1>3, <1>4, <1>5, <1>6

-----------------------------------------------------------------------------
(* Polls.                                                                  *)

(* What a poll takes (mq_poll, mq_active_channels), however its subquery   *)
(* chooses among channels and messages: at most limit messages, at least   *)
(* one if any is ready, and every ready one if there are no more of them   *)
(* than limit, so that a runner with room for all leaves none waiting.     *)
THEOREM BatchSize ==
    ASSUME NEW t, IsFiniteSet(DOMAIN t), NEW time, NEW names, NEW limit \in Nat \ {0},
           NEW S, IsBatch(S, t, time, names, limit)
    PROVE  /\ Cardinality(S) <= limit
           /\ Ready(t, time, names) # {} => S # {}
           /\ Cardinality(Ready(t, time, names)) <= limit => S = Ready(t, time, names)
<1> DEFINE ready == Ready(t, time, names)
           active == {t[i].channel : i \in ready}
           joined(C) == {i \in ready : t[i].channel \in C}
           f == [i \in ready |-> t[i].channel]
<1>1. IsFiniteSet(ready)
  BY FS_Subset DEF Ready
<1>2. PICK C \in SUBSET active :
         /\ Cardinality(C) = Cap(Cardinality(active), limit)
         /\ S \subseteq joined(C)
         /\ Cardinality(S) = Cap(Cardinality(joined(C)), limit)
  BY DEF IsBatch
<1>3. /\ IsFiniteSet(active)
      /\ Cardinality(active) <= Cardinality(ready)
  <2>1. f \in Surjection(ready, active)
    BY DEF Surjection
  <2>2. QED
    BY <1>1, <2>1, FS_Surjection
<1>4. /\ \A D \in SUBSET active : IsFiniteSet(joined(D)) /\ IsFiniteSet(D)
      /\ IsFiniteSet(S)
  <2>1. /\ \A D \in SUBSET active : joined(D) \in SUBSET ready
        /\ S \in SUBSET ready
    BY <1>2
  <2>2. QED
    BY <1>1, <1>3, <2>1, FS_Subset
<1>5. /\ Cardinality(ready) \in Nat /\ Cardinality(active) \in Nat
      /\ Cardinality(C) \in Nat /\ Cardinality(joined(C)) \in Nat
      /\ Cardinality(S) \in Nat
  BY <1>1, <1>2, <1>3, <1>4, FS_CardinalityType
<1>6. Cardinality(S) <= limit
  BY <1>2, <1>5 DEF Cap
<1>7. ASSUME ready # {}
      PROVE  S # {}
  <2>1. Cardinality(active) # 0
    BY <1>3, <1>7, FS_EmptySet
  <2>2. C # {}
    BY <1>2, <1>5, <2>1, FS_EmptySet DEF Cap
  <2>3. joined(C) # {}
    BY <1>2, <2>2
  <2>4. Cardinality(joined(C)) # 0
    BY <1>4, <2>3, FS_EmptySet
  <2>5. Cardinality(S) # 0
    BY <1>2, <1>5, <2>4 DEF Cap
  <2>6. QED
    BY <2>5, FS_EmptySet
<1>8. ASSUME Cardinality(ready) <= limit
      PROVE  S = ready
  <2>1. Cardinality(C) = Cardinality(active)
    BY <1>2, <1>3, <1>5, <1>8 DEF Cap
  <2>2. C = active
    BY <1>2, <1>3, <2>1, FS_Subset
  <2>3. joined(C) = ready
    BY <2>2
  <2>4. Cardinality(joined(C)) = Cardinality(ready)
    BY <2>3
  <2>5. Cap(Cardinality(ready), limit) = Cardinality(ready)
    BY <1>5, <1>8 DEF Cap
  <2>6. Cardinality(S) = Cardinality(ready)
    BY <1>2, <2>4, <2>5
  <2>7. QED
    BY <1>1, <1>2, <2>3, <2>6, FS_Subset
<1>9. QED
  BY <1>6, <1>7, <1>8

(* The two queries of mq_poll agree on a table: the first one chooses      *)
(* nothing exactly when each time the second one takes the MIN of is still *)
(* to come, so that without the interference of others an empty poll is    *)
(* followed by a wait and not by the next poll.                            *)
THEOREM EmptyPollWaits ==
    ASSUME NEW t, Table(t), IsFiniteSet(DOMAIN t), NEW time \in Int, NEW names,
           NEW limit \in Nat \ {0}, NEW S, IsBatch(S, t, time, names, limit)
    PROVE  S = {} <=> \A next \in NextAttempts(t, names) : next > time
<1>1. S = {} <=> Ready(t, time, names) = {}
  <2>1. S \subseteq Ready(t, time, names)
    BY DEF IsBatch
  <2>2. QED
    BY <2>1, BatchSize
<1>2. \A i \in DOMAIN t : t[i].attempt_at \in Int \cup {Null}
  BY DEF Table, Row
<1>3. ASSUME NEW i \in Ready(t, time, names)
      PROVE  ~ \A next \in NextAttempts(t, names) : next > time
  <2>1. t[i].attempt_at \in NextAttempts(t, names) /\ t[i].attempt_at <= time
    BY DEF Ready, Due, NextAttempts
  <2>2. t[i].attempt_at \in Int
    BY <1>2, <2>1 DEF NextAttempts, Ready
  <2>3. QED
    BY <2>1, <2>2
<1>4. ASSUME NEW next \in NextAttempts(t, names), ~ (next > time)
      PROVE  Ready(t, time, names) # {}
  <2>1. PICK i \in DOMAIN t : /\ i # Nil /\ ~ mq_uuid_exists(t[i].after)
                              /\ Subscribed(names, t[i].channel)
                              /\ next = t[i].attempt_at
    BY DEF NextAttempts
  <2>2. next # Null /\ next \in Int
    BY <1>2, <2>1 DEF NextAttempts
  <2>3. Due(t[i], time)
    BY <1>4, <2>1, <2>2 DEF Due
  <2>4. i \in Ready(t, time, names)
    BY <2>1, <2>3 DEF Ready
  <2>5. QED
    BY <2>4
<1>5. QED
  BY <1>1, <1>3, <1>4
=============================================================================
