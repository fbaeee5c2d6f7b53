-------------------------- MODULE ChronometerProofs --------------------------
(***************************************************************************)
(* The report of the chronometer is true, whatever the threads, the kinds  *)
(* of calls and the number of keys: an invariant of the keys, of the       *)
(* counters of each thread, of the list and of how far the report is.      *)
(***************************************************************************)
EXTENDS Chronometer, FiniteSetTheorems, FunctionTheorems, TLAPS

\* The places of a thread: before its structure has a date, in a timed call, in the
\* report.
Stubs == {"s_alloc", "s_store", "s_set", "s_head", "s_push", "s_date"}
Unborn == Stubs \cup {"none"}
InCall == {"enter", "load", "again", "inside", "account"}
Walking == {"r_date", "r_set", "r_row", "gone"}
Reporting == Walking \cup {"r_head"}

Finished(t) == pc[t] = "ended" \/ t = reporter

Places == Unborn \cup InCall \cup Reporting \cup {"run", "ended"}

Structures ==
  [create : Nat, exit : Nat, count : [Kinds -> Nat], intime : [Kinds -> Nat],
   outtime : [Kinds -> Nat], next : Threads \cup {NULL}]
CallsMade == [kind : Kinds \cup {NULL}, start : Nat, end : Nat]
Truths == [count : [Kinds -> Nat], first : [Kinds -> Nat]]

\* The types, of the variables TypeOK does not name too.
Types ==
  /\ pc \in [Threads -> Places] /\ now \in [Threads -> Nat]
  /\ key \in 0..KeysMax /\ keys \in 0..KeysMax
  /\ setkey \in [Threads -> 0..KeysMax]
  /\ list \in Threads \cup {NULL}
  /\ stats \in [Threads -> Structures]
  /\ local \in [Threads -> Threads \cup {NULL} \cup 0..KeysMax]
  /\ last \in [Threads -> [Kinds -> Nat]]
  /\ call \in [Threads -> CallsMade] /\ truth \in [Threads -> Truths]
  /\ pointer \in [Kinds -> {"loader", "original"}]
  /\ reporter \in Threads \cup {NULL} /\ cell \in Threads \cup {NULL}
  /\ due \subseteq Threads /\ over \subseteq Threads

\* The thread of main is alone until it is registered, and gets the first key; so
\* whoever uses the global variable finds a key in it, although maybe another's.
FirstKey ==
  /\ key <= keys
  /\ pc[Main] # "none"
  /\ pc[Main] = "s_alloc" => keys = 0
  /\ pc[Main] \in Stubs => \A t \in Threads \ {Main} : pc[t] = "none"
  /\ pc[Main] \notin {"s_alloc", "s_store"} => key # 0

KeyIs(t) ==
  /\ pc[t] = "s_store" => local[t] \in 1..keys
  /\ pc[t] \notin {"none", "s_alloc", "s_store", "s_set"} => setkey[t] \in 1..keys

\* The calls of one kind of a thread: what its structure holds of them, against
\* what was done.
Calling(t, k) == pc[t] \in InCall /\ call[t].kind = k

CountIs(t, k) ==
  /\ truth[t].count[k] = IF Calling(t, k) /\ pc[t] = "account" THEN stats[t].count[k] + 1
                         ELSE stats[t].count[k]
  /\ last[t][k] <= now[t]
  /\ pc[t] \in Unborn => last[t][k] = 0
  /\ last[t][k] = 0 =>
       /\ stats[t].intime[k] = 0 /\ stats[t].outtime[k] = 0
       /\ truth[t].first[k] = IF Calling(t, k) THEN call[t].start ELSE 0
  /\ last[t][k] # 0 =>
       /\ stats[t].create < truth[t].first[k] /\ truth[t].first[k] <= last[t][k]
       /\ stats[t].intime[k] + stats[t].outtime[k] + truth[t].first[k] = last[t][k]
  /\ Calling(t, k) => stats[t].create < call[t].start /\ last[t][k] <= call[t].start
  /\ Finished(t) => last[t][k] < stats[t].exit

\* The dates of a thread.
LifeIs(t) ==
  /\ pc[t] \in InCall => call[t].kind \in Kinds /\ 0 < call[t].start /\ call[t].start <= now[t]
  /\ pc[t] = "account" => call[t].start < call[t].end /\ call[t].end <= now[t]
  /\ pc[t] \notin Unborn => 0 < stats[t].create
  /\ stats[t].create <= now[t] /\ stats[t].exit <= now[t]
  /\ Finished(t) => stats[t].create < stats[t].exit

\* The report, which one thread makes.
ReportIs ==
  /\ \A t \in Threads : pc[t] \in Reporting <=> t = reporter
  /\ reporter = NULL => rows = {}
  /\ \A t \in over : Finished(t)
  /\ \A t \in Threads : pc[t] = "r_set" => cell \in Threads \ over
  /\ \A t \in Threads : pc[t] = "r_row" => cell \in Threads
  /\ \A t \in Threads : pc[t] = "gone" => cell = NULL
  /\ \A r \in rows : r.thread \in Threads /\ (r.settled => Finished(r.thread))

\* The list, as the sequence of its n structures, and how far the report has come:
\* the rows are of threads before the cursor, and who is due has a row or is to
\* come.  What is pushed meanwhile is before the cursor.
Nth(q, n, i) == IF i \in 1..n THEN q[i] ELSE NULL

Chain(q, n) ==
  /\ list = Nth(q, n, 1)
  /\ \A i \in 1..n : stats[q[i]].next = Nth(q, n, i + 1)
  /\ \A i, k \in 1..n : q[i] = q[k] => i = k
  /\ \A t \in Threads : Registered(t) <=> \E i \in 1..n : q[i] = t

Progress(q, n, c) ==
  /\ cell = Nth(q, n, c)
  /\ \A r \in rows : \E i \in 1..(c - 1) : q[i] = r.thread
  /\ \A t \in due : (\E r \in rows : r.thread = t) \/ \E i \in c..n : q[i] = t

ListIs ==
  /\ \A t \in Threads : pc[t] = "s_push" => stats[t].next = local[t]
  /\ \A t \in due : Registered(t)
  /\ \A r, s \in rows : r.thread = s.thread => r = s
  /\ \A t \in Threads : pc[t] = "r_head" => rows = {}
  /\ \E n \in 0..Cardinality(Threads) : \E q \in [1..n -> Threads] :
       /\ Chain(q, n)
       /\ (\E t \in Threads : pc[t] \in Walking) =>
            \E c \in 1..(n + 1) : Progress(q, n, c)

IInv ==
  /\ Types /\ FirstKey /\ ReportIs /\ RowsExact /\ ListIs
  /\ \A t \in Threads : KeyIs(t) /\ LifeIs(t) /\ \A k \in Kinds : CountIs(t, k)

---------------------------------------------------------------------------
\* Some thread u makes the step.
Does(u) == Stub(u) \/ Timed(u) \/ End(u) \/ Report(u) \/ \E p \in Threads : Create(p, u)

LEMMA SomebodyDoes == [Next]_vars => (\E u \in Threads : Alive /\ Does(u)) \/ UNCHANGED vars
BY DEF Next, Does

LEMMA FirstKeyKept ==
  ASSUME Types, FirstKey, \A t \in Threads : KeyIs(t), NEW u \in Threads, Does(u)
  PROVE  FirstKey' /\ \A t \in Threads : KeyIs(t)'
<1>. USE DEF FirstKey, KeyIs, Stubs, Goto
<1>0. /\ pc \in [Threads -> Places]
      /\ key \in 0..KeysMax /\ keys \in 0..KeysMax /\ KeysMax \in Nat \ {0}
      /\ setkey \in [Threads -> 0..KeysMax]
      /\ local \in [Threads -> Threads \cup {NULL} \cup 0..KeysMax]
      /\ Main \in Threads
  BY BoundAssumption, MainAssumption DEF Types
<1>1. CASE KeyAlloc(u)
  BY <1>0, <1>1 DEF KeyAlloc
<1>2. CASE KeyStore(u)
  BY <1>0, <1>2 DEF KeyStore
<1>3. CASE SetSpecific(u)
  BY <1>0, <1>3 DEF SetSpecific
<1>4. CASE ReadHead(u) \/ Push(u) \/ Born(u)
  BY <1>0, <1>4 DEF ReadHead, Push, Born, exitkey
<1>5. CASE Timed(u)
  BY ZenonT(60), <1>0, <1>5 DEF Timed, Start, Enter, Load, Again, Leave, Account, exitkey
<1>6. CASE End(u) \/ Report(u)
  BY <1>0, <1>6 DEF End, Report, Exit, ReportHead, ReportTest, ReportSet, ReportRow, Gone, exitkey
<1>7. ASSUME NEW p \in Threads, Create(p, u)
      PROVE  FirstKey' /\ \A t \in Threads : KeyIs(t)'
  BY <1>0, <1>7 DEF Create, exitkey
<1>. QED
  BY <1>1, <1>2, <1>3, <1>4, <1>5, <1>6, <1>7 DEF Does, Stub

\* Records with one field changed.
LEMMA StructureWith ==
  ASSUME NEW s \in Structures
  PROVE  /\ \A n \in Nat : [s EXCEPT !.create = n] \in Structures
         /\ \A n \in Nat : [s EXCEPT !.exit = n] \in Structures
         /\ \A n \in Threads \cup {NULL} : [s EXCEPT !.next = n] \in Structures
         /\ \A c, i, o \in [Kinds -> Nat] :
              [s EXCEPT !.count = c, !.intime = i, !.outtime = o] \in Structures
BY DEF Structures

LEMMA CallWith ==
  ASSUME NEW c \in CallsMade, NEW n \in Nat
  PROVE  [c EXCEPT !.end = n] \in CallsMade
BY DEF CallsMade

LEMMA NewCall ==
  ASSUME NEW k \in Kinds, NEW n \in Nat, NEW c, c = [NoCall EXCEPT !.kind = k, !.start = n]
  PROVE  c \in CallsMade /\ c.kind = k /\ c.start = n
<1>1. c = [kind |-> k, start |-> n, end |-> 0]
  BY DEF NoCall
<1>. QED  BY <1>1 DEF CallsMade

LEMMA TruthWith ==
  ASSUME NEW r \in Truths, NEW f \in [Kinds -> Nat]
  PROVE  [r EXCEPT !.first = f] \in Truths /\ [r EXCEPT !.count = f] \in Truths
BY DEF Truths

\* What is in the structures has its type: nothing is subtracted that is larger.
LEMMA TypesKept ==
  ASSUME Types, ReportIs, \A t \in Threads : KeyIs(t) /\ LifeIs(t) /\ \A k \in Kinds : CountIs(t, k),
         NEW u \in Threads, Does(u)
  PROVE  Types'
<1>. USE DEF Types, Goto
<1>0. KeysMax \in Nat \ {0}
  BY BoundAssumption
<1>r. /\ \A t \in Threads : stats[t] \in Structures /\ call[t] \in CallsMade /\ truth[t] \in Truths
      /\ \A t \in Threads : now[t] + 1 \in Nat
      /\ list \in Threads \cup {NULL}
  OBVIOUS
<1>1. CASE KeyAlloc(u)
  <2>1. keys' \in 0..KeysMax /\ local' \in [Threads -> Threads \cup {NULL} \cup 0..KeysMax]
    BY <1>0, <1>1 DEF KeyAlloc
  <2>. QED  BY <1>1, <2>1 DEF KeyAlloc, measure, report, Places, Unborn, Stubs
<1>2. CASE KeyStore(u)
  BY <1>0, <1>2 DEF KeyStore, KeyIs, measure, report, Places, Unborn, Stubs
<1>3. CASE SetSpecific(u)
  BY <1>0, <1>3 DEF SetSpecific, measure, report, Places, Unborn, Stubs
<1>4. CASE ReadHead(u)
  <2>1. /\ pc' = [pc EXCEPT ![u] = "s_push"] /\ local' = [local EXCEPT ![u] = list]
        /\ stats' = [stats EXCEPT ![u] = [stats[u] EXCEPT !.next = list]]
        /\ UNCHANGED <<now, exitkey, list, measure, pointer, report>>
    BY <1>4 DEF ReadHead
  <2>2. [stats[u] EXCEPT !.next = list] \in Structures
    BY <1>r, StructureWith
  <2>. QED  BY <2>1, <2>2 DEF measure, report, exitkey, Places, Unborn, Stubs
<1>5. CASE Push(u)
  BY <1>5 DEF Push, measure, report, exitkey, Places, Unborn, Stubs
<1>6. CASE Born(u)
  <2>1. /\ pc' = [pc EXCEPT ![u] = "run"] /\ now' = [now EXCEPT ![u] = now[u] + 1]
        /\ stats' = [stats EXCEPT ![u] = [stats[u] EXCEPT !.create = now[u] + 1]]
        /\ UNCHANGED <<exitkey, list, local, measure, pointer, report>>
    BY <1>6 DEF Born, Rdtsc
  <2>2. [stats[u] EXCEPT !.create = now[u] + 1] \in Structures
    BY <1>r, StructureWith
  <2>. QED  BY <2>1, <2>2 DEF measure, report, exitkey, Places
<1>7. CASE Enter(u) \/ Load(u) \/ Again(u)
  BY <1>7 DEF Enter, Load, Again, measure, report, exitkey, Places, InCall
<1>8. ASSUME NEW k \in Kinds, Start(u, k)
      PROVE  Types'
  <2>1. /\ pc' = [pc EXCEPT ![u] = "enter"] /\ now' = [now EXCEPT ![u] = now[u] + 1]
        /\ call' = [call EXCEPT ![u] = [NoCall EXCEPT !.kind = k, !.start = now'[u]]]
        /\ truth' = [truth EXCEPT ![u] = [truth[u] EXCEPT !.first =
                       [truth[u].first EXCEPT ![k] = IF truth[u].first[k] = 0 THEN now'[u]
                                                     ELSE truth[u].first[k]]]]
        /\ UNCHANGED <<exitkey, list, stats, local, last, pointer, report>>
    BY <1>8 DEF Start, Rdtsc
  <2>2. now'[u] \in Nat /\ [NoCall EXCEPT !.kind = k, !.start = now'[u]] \in CallsMade
    BY ZenonT(60), <1>r, <2>1, NewCall
  <2>3. [truth[u] EXCEPT !.first = [truth[u].first EXCEPT ![k] = IF truth[u].first[k] = 0 THEN now'[u]
                                                                 ELSE truth[u].first[k]]] \in Truths
    <3>1. [truth[u].first EXCEPT ![k] = IF truth[u].first[k] = 0 THEN now'[u]
                                        ELSE truth[u].first[k]] \in [Kinds -> Nat]
      BY <1>r, <2>2 DEF Truths
    <3>. QED  BY <1>r, <3>1, TruthWith
  <2>. QED  BY <2>1, <2>2, <2>3 DEF report, exitkey, Places, InCall
<1>9. CASE Leave(u)
  <2>. DEFINE k == call[u].kind
  <2>1. /\ pc' = [pc EXCEPT ![u] = "account"] /\ now' = [now EXCEPT ![u] = now[u] + 1]
        /\ call' = [call EXCEPT ![u] = [call[u] EXCEPT !.end = now[u] + 1]]
        /\ truth' = [truth EXCEPT ![u] = [truth[u] EXCEPT !.count =
                       [truth[u].count EXCEPT ![k] = truth[u].count[k] + 1]]]
        /\ UNCHANGED <<exitkey, list, stats, local, last, pointer, report>>
    BY <1>9 DEF Leave, Rdtsc
  <2>2. [call[u] EXCEPT !.end = now[u] + 1] \in CallsMade
    BY <1>r, CallWith
  <2>3. k \in Kinds
    BY <1>9 DEF Leave, LifeIs, InCall
  <2>4. [truth[u] EXCEPT !.count = [truth[u].count EXCEPT ![k] = truth[u].count[k] + 1]] \in Truths
    <3>1. [truth[u].count EXCEPT ![k] = truth[u].count[k] + 1] \in [Kinds -> Nat]
      BY <1>r, <2>3 DEF Truths
    <3>. QED  BY <1>r, <3>1, TruthWith
  <2>. QED  BY <2>1, <2>2, <2>4 DEF report, exitkey, Places, InCall
<1>10. CASE Account(u)
  <2>. DEFINE k == call[u].kind
              in == stats[u].intime[k] + (call[u].end - call[u].start)
              out == stats[u].outtime[k] + (IF last[u][k] = 0 THEN 0 ELSE call[u].start - last[u][k])
              s == [stats[u] EXCEPT !.count = [stats[u].count EXCEPT ![k] = @ + 1],
                                    !.intime = [stats[u].intime EXCEPT ![k] = in],
                                    !.outtime = [stats[u].outtime EXCEPT ![k] = out]]
  <2>1. /\ pc' = [pc EXCEPT ![u] = "run"] /\ stats' = [stats EXCEPT ![u] = s]
        /\ last' = [last EXCEPT ![u] = [last[u] EXCEPT ![k] = call[u].end]]
        /\ call' = [call EXCEPT ![u] = NoCall]
        /\ UNCHANGED <<now, exitkey, list, local, truth, pointer, report>>
    <3>. DEFINE a == [stats EXCEPT ![u].count[k] = @ + 1]
                b == [a EXCEPT ![u].intime[k] = @ + (call[u].end - call[u].start)]
                c == [b EXCEPT ![u].outtime[k] = @ + (IF last[u][k] = 0 THEN 0 ELSE call[u].start - last[u][k])]
    <3>1. stats' = c
      BY SMTT(30), <1>10 DEF Account
    <3>2. a[u] = [stats[u] EXCEPT !.count = [stats[u].count EXCEPT ![k] = @ + 1]]
      BY <1>r
    <3>3. b[u] = [a[u] EXCEPT !.intime = [stats[u].intime EXCEPT ![k] = in]]
      BY <1>r, <3>2 DEF Structures
    <3>4. c[u] = [b[u] EXCEPT !.outtime = [stats[u].outtime EXCEPT ![k] = out]]
      BY <1>r, <3>2, <3>3 DEF Structures
    <3>5. c[u] = s
      BY <1>r, <3>2, <3>3, <3>4 DEF Structures
    <3>6. c = [stats EXCEPT ![u] = s]
      BY <1>r, <3>5
    <3>7. /\ pc' = [pc EXCEPT ![u] = "run"] /\ call' = [call EXCEPT ![u] = NoCall]
          /\ last' = [last EXCEPT ![u] = [last[u] EXCEPT ![k] = call[u].end]]
          /\ UNCHANGED <<now, exitkey, list, local, truth, pointer, report>>
      BY <1>10 DEF Account, Goto
    <3>. QED  BY <3>1, <3>6, <3>7
  <2>2. k \in Kinds /\ pc[u] = "account"
    BY <1>10 DEF Account, LifeIs, InCall
  <2>3. /\ call[u].start \in Nat /\ call[u].end \in Nat /\ call[u].start < call[u].end
        /\ last[u][k] \in Nat /\ last[u][k] <= call[u].start
        /\ stats[u].intime[k] \in Nat /\ stats[u].outtime[k] \in Nat
    BY <2>2 DEF LifeIs, CountIs, Calling, InCall, CallsMade, Structures
  <2>4. in \in Nat /\ out \in Nat
    BY <2>3
  <2>. HIDE DEF in, out
  <2>5. s \in Structures
    <3>1. /\ [stats[u].count EXCEPT ![k] = @ + 1] \in [Kinds -> Nat]
          /\ [stats[u].intime EXCEPT ![k] = in] \in [Kinds -> Nat]
          /\ [stats[u].outtime EXCEPT ![k] = out] \in [Kinds -> Nat]
      BY <1>r, <2>2, <2>4 DEF Structures
    <3>. QED  BY <1>r, <3>1, StructureWith
  <2>. HIDE DEF s
  <2>6. last' \in [Threads -> [Kinds -> Nat]] /\ NoCall \in CallsMade
    BY <2>1, <2>2, <2>3 DEF CallsMade, NoCall
  <2>. QED  BY <2>1, <2>5, <2>6 DEF report, exitkey, Places
<1>11. CASE End(u)
  <2>1. /\ pc' = [pc EXCEPT ![u] = "ended"]
        /\ \/ UNCHANGED <<now, stats>>
           \/ /\ now' = [now EXCEPT ![u] = now[u] + 1]
              /\ stats' = [stats EXCEPT ![u] = [stats[u] EXCEPT !.exit = now[u] + 1]]
        /\ UNCHANGED <<exitkey, list, local, measure, pointer, report>>
    BY <1>11 DEF End, Rdtsc
  <2>2. [stats[u] EXCEPT !.exit = now[u] + 1] \in Structures
    BY <1>r, StructureWith
  <2>3. now' \in [Threads -> Nat] /\ stats' \in [Threads -> Structures]
    <3>1. CASE UNCHANGED <<now, stats>>
      BY <3>1
    <3>2. CASE /\ now' = [now EXCEPT ![u] = now[u] + 1]
               /\ stats' = [stats EXCEPT ![u] = [stats[u] EXCEPT !.exit = now[u] + 1]]
      BY <3>2, <2>2
    <3>. QED  BY <2>1, <3>1, <3>2
  <2>. QED  BY <2>1, <2>3 DEF measure, report, exitkey, Places
<1>12. CASE Exit(u)
  <2>1. /\ pc' = [pc EXCEPT ![u] = "r_head"] /\ reporter' = u
        /\ due' \subseteq Threads /\ over' \subseteq Threads
        /\ now' = [now EXCEPT ![u] = now[u] + 1]
        /\ stats' = [stats EXCEPT ![u] = [stats[u] EXCEPT !.exit = now[u] + 1]]
        /\ UNCHANGED <<exitkey, list, local, measure, pointer, cell, rows>>
    BY <1>12 DEF Exit, Rdtsc
  <2>2. [stats[u] EXCEPT !.exit = now[u] + 1] \in Structures
    BY <1>r, StructureWith
  <2>. QED  BY <2>1, <2>2 DEF measure, exitkey, Places, Reporting, Walking
<1>13. CASE ReportHead(u) \/ ReportTest(u) \/ Gone(u)
  BY <1>13 DEF ReportHead, ReportTest, Gone, measure, report, exitkey, Places, Reporting, Walking
<1>14. CASE ReportSet(u)
  <2>1. /\ pc' = [pc EXCEPT ![u] = "r_row"] /\ now' = [now EXCEPT ![cell] = now[cell] + 1]
        /\ stats' = [stats EXCEPT ![cell] = [stats[cell] EXCEPT !.exit = now[cell] + 1]]
        /\ UNCHANGED <<exitkey, list, local, measure, pointer, report>>
    BY <1>14 DEF ReportSet, Rdtsc
  <2>2. cell \in Threads /\ [stats[cell] EXCEPT !.exit = now[cell] + 1] \in Structures
    BY <1>14, <1>r, StructureWith DEF ReportSet, ReportIs
  <2>3. now' \in [Threads -> Nat] /\ stats' \in [Threads -> Structures]
    BY <2>1, <2>2
  <2>. QED  BY <2>1, <2>3 DEF measure, report, exitkey, Places, Reporting, Walking
<1>15. CASE ReportRow(u)
  <2>1. cell' \in Threads \cup {NULL}
    BY <1>15 DEF ReportRow, ReportIs, Structures
  <2>. QED  BY <1>15, <2>1 DEF ReportRow, measure, exitkey, Places, Reporting, Walking
<1>16. ASSUME NEW p \in Threads, Create(p, u)
      PROVE  Types'
  BY <1>16 DEF Create, measure, report, exitkey, Places, Unborn, Stubs
<1>. QED
  BY <1>1, <1>2, <1>3, <1>4, <1>5, <1>6, <1>7, <1>8, <1>9, <1>10, <1>11, <1>12, <1>13, <1>14,
     <1>15, <1>16 DEF Does, Stub, Timed, Report

\* A step of thread u leaves what belongs to another thread t, unless it is the
\* report that dates the end of t.
LEMMA OthersAlone ==
  ASSUME Types, ReportIs, NEW t \in Threads, NEW u \in Threads, t # u, Does(u)
  PROVE  /\ pc'[t] = pc[t] /\ last'[t] = last[t] /\ call'[t] = call[t] /\ truth'[t] = truth[t]
         /\ Finished(t)' <=> Finished(t)
         /\ \/ now'[t] = now[t] /\ stats'[t] = stats[t]
            \/ /\ now'[t] = now[t] + 1
               /\ stats'[t] = [stats[t] EXCEPT !.exit = now[t] + 1]
<1>. USE DEF Types, Goto, Rdtsc, Finished
<1>1. CASE Stub(u)
  BY <1>1 DEF Stub, KeyAlloc, KeyStore, SetSpecific, ReadHead, Push, Born, measure, report
<1>2. CASE Timed(u)
  BY ZenonT(60), <1>2 DEF Timed, Start, Enter, Load, Again, Leave, Account, measure, report
<1>3. CASE End(u)
  BY <1>3 DEF End, measure, report
<1>4. CASE Exit(u)
  BY <1>4, MainAssumption DEF Exit, measure
<1>5. CASE ReportHead(u) \/ ReportTest(u) \/ ReportRow(u) \/ Gone(u)
  BY <1>5 DEF ReportHead, ReportTest, ReportRow, Gone, measure, report
<1>6. CASE ReportSet(u)
  <2>1. cell \in Threads
    BY <1>6 DEF ReportSet, ReportIs
  <2>. QED  BY <1>6, <2>1 DEF ReportSet, measure, report
<1>7. ASSUME NEW p \in Threads, Create(p, u)
      PROVE  UNCHANGED <<last, call, truth, reporter, now, stats>> /\ pc'[t] = pc[t]
  BY <1>7 DEF Create, measure, report
<1>. QED
  BY <1>1, <1>2, <1>3, <1>4, <1>5, <1>6, <1>7 DEF Does, Report

\* What belongs to t and does not have to do with its calls.
LEMMA CallsAlone ==
  ASSUME Types, NEW t \in Threads, Does(t), ~ Timed(t)
  PROVE  /\ last'[t] = last[t] /\ call'[t] = call[t] /\ truth'[t] = truth[t]
         /\ pc[t] \notin InCall /\ pc'[t] \notin InCall
         /\ \A k \in Kinds : stats'[t].count[k] = stats[t].count[k] /\ stats'[t].intime[k] = stats[t].intime[k]
              /\ stats'[t].outtime[k] = stats[t].outtime[k]
         /\ now'[t] \in {now[t], now[t] + 1}
         /\ stats'[t].create = stats[t].create \/ (pc[t] = "s_date" /\ stats'[t].create = now'[t] /\ now'[t] = now[t] + 1)
         /\ stats'[t].exit = stats[t].exit \/ (stats'[t].exit = now'[t] /\ now'[t] = now[t] + 1)
<1>. USE DEF Goto, InCall
<1>r. stats[t] \in Structures /\ now[t] \in Nat /\ pc[t] \in Places
  BY DEF Types
<1>1. CASE KeyAlloc(t) \/ KeyStore(t) \/ SetSpecific(t) \/ Push(t) \/ ReportHead(t) \/ ReportTest(t) \/ ReportRow(t) \/ Gone(t)
  BY <1>1 DEF Types, KeyAlloc, KeyStore, SetSpecific, Push, ReportHead, ReportTest, ReportRow, Gone, measure
<1>2. CASE ReadHead(t)
  BY <1>2, <1>r DEF Types, ReadHead, measure, Structures
<1>3. CASE Born(t)
  BY <1>3, <1>r DEF Types, Born, Rdtsc, measure, Structures
<1>4. CASE End(t) \/ Exit(t)
  <2>1. /\ UNCHANGED measure /\ pc[t] \notin InCall /\ pc'[t] \notin InCall
        /\ \/ UNCHANGED <<now, stats>>
           \/ /\ now' = [now EXCEPT ![t] = now[t] + 1]
              /\ stats' = [stats EXCEPT ![t] = [stats[t] EXCEPT !.exit = now[t] + 1]]
    BY <1>4 DEF Types, End, Exit, Rdtsc
  <2>2. CASE UNCHANGED <<now, stats>>
    BY <2>1, <2>2 DEF measure
  <2>3. CASE /\ now' = [now EXCEPT ![t] = now[t] + 1]
             /\ stats' = [stats EXCEPT ![t] = [stats[t] EXCEPT !.exit = now[t] + 1]]
    <3>1. now'[t] = now[t] + 1 /\ stats'[t] = [stats[t] EXCEPT !.exit = now[t] + 1]
      BY <2>3 DEF Types
    <3>. QED  BY <1>r, <2>1, <3>1 DEF measure, Structures
  <2>. QED  BY <2>1, <2>2, <2>3
<1>5. CASE ReportSet(t)
  BY <1>5, <1>r DEF Types, ReportSet, Rdtsc, measure, Structures
<1>6. ASSUME NEW p \in Threads, Create(p, t)
      PROVE  pc[t] \notin InCall /\ pc'[t] \notin InCall /\ UNCHANGED <<measure, now, stats>>
  BY <1>6 DEF Types, Create
<1>. QED
  BY <1>1, <1>2, <1>3, <1>4, <1>5, <1>6 DEF Does, Stub, Report, measure

\* The dates of a thread t grow with its clock, and its end comes after its calls.
LEMMA LifeKept ==
  ASSUME Types, ReportIs, FirstKey, NEW t \in Threads, KeyIs(t), LifeIs(t),
         NEW u \in Threads, Does(u)
  PROVE  LifeIs(t)'
<1>. USE DEF LifeIs
<1>r. /\ stats[t] \in Structures /\ call[t] \in CallsMade /\ now[t] \in Nat /\ pc[t] \in Places
      /\ stats[t].create \in Nat /\ stats[t].exit \in Nat
      /\ call[t].start \in Nat /\ call[t].end \in Nat
  BY DEF Types, Structures, CallsMade
<1>1. CASE t # u
  <2>1. /\ pc'[t] = pc[t] /\ call'[t] = call[t] /\ (Finished(t)' <=> Finished(t))
        /\ \/ now'[t] = now[t] /\ stats'[t] = stats[t]
           \/ /\ now'[t] = now[t] + 1
              /\ stats'[t] = [stats[t] EXCEPT !.exit = now[t] + 1]
    BY <1>1, OthersAlone
  <2>2. stats'[t].create = stats[t].create /\ (now'[t] = now[t] + 1 \/ now'[t] = now[t])
        /\ (stats'[t].exit = stats[t].exit \/ (now'[t] = now[t] + 1 /\ stats'[t].exit = now[t] + 1))
    BY <1>r, <2>1 DEF Structures
  <2>. QED  BY <1>r, <2>1, <2>2
<1>2. CASE t = u /\ ~ Timed(t)
  <2>0. /\ call'[t] = call[t] /\ pc[t] \notin InCall /\ pc'[t] \notin InCall
        /\ now'[t] \in {now[t], now[t] + 1}
        /\ \/ stats'[t].create = stats[t].create
           \/ pc[t] = "s_date" /\ stats'[t].create = now'[t] /\ now'[t] = now[t] + 1
        /\ \/ stats'[t].exit = stats[t].exit
           \/ stats'[t].exit = now'[t] /\ now'[t] = now[t] + 1
    BY <1>2, CallsAlone
  <2>1. /\ pc'[t] \notin InCall /\ pc'[t] # "account"
        /\ stats'[t].create <= now'[t] /\ stats'[t].exit <= now'[t]
    BY <1>r, <2>0 DEF InCall
  <2>2. CASE End(t) \/ Exit(t)
    <3>1. setkey[t] \in 1..keys \/ Exit(t)
      BY <2>2 DEF KeyIs, End
    <3>2. /\ now' = [now EXCEPT ![t] = now[t] + 1]
          /\ stats' = [stats EXCEPT ![t] = [stats[t] EXCEPT !.exit = now'[t]]]
          /\ pc[t] \in {"run", "ended"}
      BY <2>2, <3>1 DEF End, Exit, Rdtsc
    <3>3. stats'[t].exit = now[t] + 1 /\ stats'[t].create = stats[t].create
      BY <1>r, <3>2 DEF Types, Structures
    <3>. QED  BY <1>r, <2>1, <3>2, <3>3 DEF Unborn, Stubs
  <2>3. CASE Born(t)
    <3>1. /\ now' = [now EXCEPT ![t] = now[t] + 1] /\ pc' = [pc EXCEPT ![t] = "run"]
          /\ stats' = [stats EXCEPT ![t] = [stats[t] EXCEPT !.create = now'[t]]]
          /\ pc[t] = "s_date" /\ reporter' = reporter
      BY <2>3 DEF Born, Goto, Rdtsc, report
    <3>2. stats'[t].create = now[t] + 1 /\ pc'[t] = "run"
      BY <1>r, <3>1 DEF Types, Structures
    <3>3. ~ Finished(t)'
      BY <3>1, <3>2 DEF Finished, ReportIs, Reporting, Walking
    <3>. QED  BY <1>r, <2>1, <3>2, <3>3
  <2>4. CASE ~ End(t) /\ ~ Exit(t) /\ ~ Born(t)
    <3>1. /\ Finished(t)' => Finished(t)
          /\ pc[t] \in Unborn => pc'[t] \in Unborn
          /\ pc[t] # "s_date"
      BY <1>2, <2>4 DEF Does, Stub, Report, KeyAlloc, KeyStore, SetSpecific, ReadHead, Push,
           ReportHead, ReportTest, ReportSet, ReportRow, Gone, Create, Goto, Finished, report,
           Unborn, Stubs, Types
    <3>. QED  BY <1>r, <2>0, <2>1, <3>1
  <2>. QED  BY <2>2, <2>3, <2>4
<1>3. CASE t = u /\ Timed(t)
  <2>1. stats'[t].create = stats[t].create /\ stats'[t].exit = stats[t].exit
    <3>1. CASE Account(t)
      BY <1>r, <3>1 DEF Account, Types, Structures
    <3>2. CASE ~ Account(t)
      BY <1>3, <3>2 DEF Timed, Start, Enter, Load, Again, Leave
    <3>. QED  BY <3>1, <3>2
  <2>2. pc[t] \in InCall \cup {"run"} /\ pc'[t] \in InCall \cup {"run"} /\ reporter' = reporter
    BY <1>3 DEF Timed, Start, Enter, Load, Again, Leave, Account, Goto, report, InCall, Types
  <2>3. ~ Finished(t)' /\ pc[t] \notin Unborn
    BY <2>2 DEF Finished, ReportIs, Reporting, Walking, InCall, Unborn, Stubs
  <2>4. ASSUME NEW k \in Kinds, Start(t, k)
        PROVE  LifeIs(t)'
    <3>1. now'[t] = now[t] + 1 /\ pc'[t] = "enter"
      BY <1>r, <2>4 DEF Start, Rdtsc, Goto, Types
    <3>2. call'[t] = [NoCall EXCEPT !.kind = k, !.start = now'[t]]
      BY <2>4 DEF Start, Types
    <3>3. call'[t].kind = k /\ call'[t].start = now[t] + 1
      <4>1. now[t] + 1 \in Nat
        BY <1>r
      <4>2. call'[t] = [NoCall EXCEPT !.kind = k, !.start = now[t] + 1]
        BY <3>1, <3>2
      <4>. QED  BY <1>r, <4>2 DEF NoCall
    <3>. QED  BY <1>r, <2>1, <2>3, <3>1, <3>3
  <2>5. CASE Enter(t) \/ Load(t) \/ Again(t)
    <3>1. /\ call' = call /\ now' = now /\ pc[t] \in InCall /\ pc'[t] # "account"
      BY <2>5 DEF Enter, Load, Again, Goto, measure, InCall, Types
    <3>. QED  BY <1>r, <2>1, <2>3, <3>1
  <2>6. CASE Leave(t)
    <3>1. /\ now'[t] = now[t] + 1 /\ pc'[t] = "account" /\ pc[t] \in InCall
          /\ call'[t] = [call[t] EXCEPT !.end = now'[t]]
      BY <1>r, <2>6 DEF Leave, Rdtsc, Goto, Types, InCall
    <3>2. call'[t].kind = call[t].kind /\ call'[t].start = call[t].start /\ call'[t].end = now[t] + 1
      BY <1>r, <3>1 DEF CallsMade
    <3>. QED  BY <1>r, <2>1, <2>3, <3>1, <3>2
  <2>7. CASE Account(t)
    <3>1. now' = now /\ pc'[t] = "run"
      BY <2>7 DEF Account, Goto, Types
    <3>. QED  BY <1>r, <2>1, <2>3, <3>1 DEF InCall
  <2>. QED  BY <1>3, <2>4, <2>5, <2>6, <2>7 DEF Timed
<1>. QED  BY <1>1, <1>2, <1>3

\* What the structure of t holds of its calls of kind k agrees with what t did.
LEMMA CountKept ==
  ASSUME Types, ReportIs, FirstKey, NEW t \in Threads, KeyIs(t), LifeIs(t),
         NEW u \in Threads, Does(u), NEW k \in Kinds, CountIs(t, k)
  PROVE  CountIs(t, k)'
<1>. USE DEF CountIs
<1>r. /\ stats[t] \in Structures /\ call[t] \in CallsMade /\ truth[t] \in Truths
      /\ now[t] \in Nat /\ pc[t] \in Places /\ last[t] \in [Kinds -> Nat]
      /\ stats[t].create \in Nat /\ stats[t].exit \in Nat
      /\ stats[t].count[k] \in Nat /\ stats[t].intime[k] \in Nat /\ stats[t].outtime[k] \in Nat
      /\ truth[t].count[k] \in Nat /\ truth[t].first[k] \in Nat /\ last[t][k] \in Nat
      /\ call[t].start \in Nat /\ call[t].end \in Nat
  BY DEF Types, Structures, CallsMade, Truths
<1>1. CASE t # u
  <2>1. /\ pc'[t] = pc[t] /\ last'[t] = last[t] /\ call'[t] = call[t] /\ truth'[t] = truth[t]
        /\ Finished(t)' <=> Finished(t)
        /\ \/ now'[t] = now[t] /\ stats'[t] = stats[t]
           \/ /\ now'[t] = now[t] + 1
              /\ stats'[t] = [stats[t] EXCEPT !.exit = now[t] + 1]
    BY <1>1, OthersAlone
  <2>2. /\ stats'[t].create = stats[t].create /\ stats'[t].count = stats[t].count
        /\ stats'[t].intime = stats[t].intime /\ stats'[t].outtime = stats[t].outtime
        /\ \/ now'[t] = now[t] /\ stats'[t].exit = stats[t].exit
           \/ now'[t] = now[t] + 1 /\ stats'[t].exit = now[t] + 1
    BY <1>r, <2>1 DEF Structures
  <2>3. Calling(t, k)' <=> Calling(t, k)
    BY <2>1 DEF Calling
  <2>. QED  BY <1>r, <2>1, <2>2, <2>3
<1>2. CASE t = u /\ ~ Timed(t)
  <2>0. /\ last'[t] = last[t] /\ truth'[t] = truth[t] /\ call'[t] = call[t]
        /\ pc[t] \notin InCall /\ pc'[t] \notin InCall
        /\ stats'[t].count[k] = stats[t].count[k] /\ stats'[t].intime[k] = stats[t].intime[k]
        /\ stats'[t].outtime[k] = stats[t].outtime[k]
        /\ now'[t] \in {now[t], now[t] + 1}
        /\ \/ stats'[t].create = stats[t].create
           \/ pc[t] = "s_date" /\ stats'[t].create = now'[t] /\ now'[t] = now[t] + 1
        /\ \/ stats'[t].exit = stats[t].exit
           \/ stats'[t].exit = now'[t] /\ now'[t] = now[t] + 1
    BY <1>2, CallsAlone
  <2>1. ~ Calling(t, k) /\ ~ Calling(t, k)'
    BY <2>0 DEF Calling
  <2>2. pc[t] = "s_date" => last[t][k] = 0
    BY DEF Unborn, Stubs
  <2>3. pc'[t] \in Unborn => pc[t] \in Unborn
    BY <1>2 DEF Does, Stub, Report, KeyAlloc, KeyStore, SetSpecific, ReadHead, Push, Born, End, Exit,
         ReportHead, ReportTest, ReportSet, ReportRow, Gone, Create, Goto, Unborn, Stubs, Types
  <2>4. Finished(t)' => last[t][k] < stats'[t].exit
    <3>1. CASE End(t) \/ Exit(t)
      <4>1. setkey[t] \in 1..keys \/ Exit(t)
        BY <3>1 DEF KeyIs, End
      <4>2. /\ now' = [now EXCEPT ![t] = now[t] + 1]
            /\ stats' = [stats EXCEPT ![t] = [stats[t] EXCEPT !.exit = now'[t]]]
        BY <3>1, <4>1 DEF End, Exit, Rdtsc
      <4>3. stats'[t].exit = now[t] + 1
        BY <1>r, <4>2 DEF Types, Structures
      <4>. QED  BY <1>r, <4>3
    <3>2. CASE ~ End(t) /\ ~ Exit(t)
      <4>1. Finished(t)' => Finished(t)
        BY <1>2, <3>2 DEF Does, Stub, Report, KeyAlloc, KeyStore, SetSpecific, ReadHead, Push, Born,
             ReportHead, ReportTest, ReportSet, ReportRow, Gone, Create, Goto, Finished, report, Types
      <4>. QED  BY <1>r, <2>0, <4>1
    <3>. QED  BY <3>1, <3>2
  <2>. QED  BY <1>r, <2>0, <2>1, <2>2, <2>3, <2>4
<1>3. CASE t = u /\ Timed(t)
  <2>1. /\ pc[t] \in InCall \cup {"run"} /\ pc'[t] \in InCall \cup {"run"}
        /\ reporter' = reporter
    BY <1>3 DEF Timed, Start, Enter, Load, Again, Leave, Account, Goto, report, InCall, Types
  <2>2. ~ Finished(t)' /\ pc[t] \notin Unborn /\ pc'[t] \notin Unborn
    BY <2>1 DEF Finished, ReportIs, Reporting, Walking, InCall, Unborn, Stubs
  <2>3. ASSUME NEW l \in Kinds, Start(t, l)
        PROVE  CountIs(t, k)'
    <3>1. /\ now'[t] = now[t] + 1 /\ pc'[t] = "enter" /\ pc[t] = "run"
          /\ stats' = stats /\ last' = last
      BY <1>r, <2>3 DEF Start, Rdtsc, Goto, Types
    <3>2. call'[t] = [NoCall EXCEPT !.kind = l, !.start = now'[t]]
      BY <2>3 DEF Start, Types
    <3>3. call'[t].kind = l /\ call'[t].start = now[t] + 1
      <4>1. now[t] + 1 \in Nat
        BY <1>r
      <4>2. call'[t] = [NoCall EXCEPT !.kind = l, !.start = now[t] + 1]
        BY <3>1, <3>2
      <4>. QED  BY <1>r, <4>2 DEF NoCall
    <3>4. truth' = [truth EXCEPT ![t] = [truth[t] EXCEPT !.first =
                      [truth[t].first EXCEPT ![l] = IF truth[t].first[l] = 0 THEN now'[t]
                                                    ELSE truth[t].first[l]]]]
      BY <2>3 DEF Start
    <3>5. /\ truth'[t].count = truth[t].count
          /\ truth'[t].first = [truth[t].first EXCEPT ![l] = IF truth[t].first[l] = 0 THEN now'[t]
                                                             ELSE truth[t].first[l]]
      BY <1>r, <3>4 DEF Types, Truths
    <3>6. /\ l # k => truth'[t].first[k] = truth[t].first[k]
          /\ l = k => truth'[t].first[k] = IF truth[t].first[k] = 0 THEN now[t] + 1 ELSE truth[t].first[k]
      BY <1>r, <3>1, <3>5 DEF Truths
    <3>7. ~ Calling(t, k) /\ (Calling(t, k)' <=> l = k)
      BY <3>1, <3>3 DEF Calling, InCall
    <3>8. 0 < stats[t].create /\ stats[t].create <= now[t]
      BY <3>1 DEF LifeIs, Unborn, Stubs
    <3>. QED  BY <1>r, <2>2, <3>1, <3>3, <3>5, <3>6, <3>7, <3>8
  <2>4. CASE Enter(t) \/ Load(t) \/ Again(t)
    <3>1. /\ UNCHANGED <<call, now, stats, last, truth>>
          /\ pc[t] \in InCall /\ pc'[t] \in InCall /\ pc[t] # "account" /\ pc'[t] # "account"
      BY <2>4 DEF Enter, Load, Again, Goto, measure, InCall, Types
    <3>2. Calling(t, k)' <=> Calling(t, k)
      BY <3>1 DEF Calling
    <3>. QED  BY <2>2, <3>1, <3>2
  <2>5. CASE Leave(t)
    <3>1. /\ now'[t] = now[t] + 1 /\ pc'[t] = "account" /\ pc[t] = "inside"
          /\ call'[t] = [call[t] EXCEPT !.end = now'[t]] /\ stats' = stats /\ last' = last
          /\ truth'[t] = [truth[t] EXCEPT !.count =
                            [truth[t].count EXCEPT ![call[t].kind] = truth[t].count[call[t].kind] + 1]]
      BY <1>r, <2>5 DEF Leave, Rdtsc, Goto, Types
    <3>2. call'[t].kind = call[t].kind /\ call'[t].start = call[t].start
      BY <1>r, <3>1 DEF CallsMade
    <3>3. /\ truth'[t].first = truth[t].first
          /\ truth'[t].count[k] = IF call[t].kind = k THEN truth[t].count[k] + 1 ELSE truth[t].count[k]
      BY <1>r, <3>1 DEF Truths
    <3>4. /\ Calling(t, k)' <=> call[t].kind = k
          /\ Calling(t, k) <=> call[t].kind = k
      BY <3>1, <3>2 DEF Calling, InCall
    <3>. QED  BY <1>r, <2>2, <3>1, <3>2, <3>3, <3>4
  <2>6. CASE Account(t)
    <3>. DEFINE l == call[t].kind
                out == IF last[t][l] = 0 THEN 0 ELSE call[t].start - last[t][l]
    <3>1. /\ now' = now /\ pc'[t] = "run" /\ pc[t] = "account" /\ truth' = truth
          /\ last'[t] = [last[t] EXCEPT ![l] = call[t].end]
          /\ stats'[t] = [stats[t] EXCEPT !.count = [stats[t].count EXCEPT ![l] = @ + 1],
                                          !.intime = [stats[t].intime EXCEPT ![l] = @ + (call[t].end - call[t].start)],
                                          !.outtime = [stats[t].outtime EXCEPT ![l] = @ + out]]
      BY <2>6 DEF Account, Goto, Types
    <3>. HIDE DEF out
    <3>2. /\ stats'[t].create = stats[t].create
          /\ stats'[t].count = [stats[t].count EXCEPT ![l] = @ + 1]
          /\ stats'[t].intime = [stats[t].intime EXCEPT ![l] = @ + (call[t].end - call[t].start)]
          /\ stats'[t].outtime = [stats[t].outtime EXCEPT ![l] = @ + out]
      BY <1>r, <3>1 DEF Structures
    <3>3. /\ call[t].start < call[t].end /\ call[t].end <= now[t]
          /\ Calling(t, k) <=> l = k
          /\ ~ Calling(t, k)'
      BY <3>1 DEF Calling, InCall, LifeIs
    <3>4. CASE l = k
      <4>1. /\ stats'[t].count[k] = stats[t].count[k] + 1
            /\ stats'[t].intime[k] = stats[t].intime[k] + (call[t].end - call[t].start)
            /\ stats'[t].outtime[k] = stats[t].outtime[k] + out
            /\ last'[t][k] = call[t].end
        BY <1>r, <3>1, <3>2, <3>4 DEF Structures
      <4>2. out = IF last[t][k] = 0 THEN 0 ELSE call[t].start - last[t][k]
        BY <3>4 DEF out
      <4>3. /\ truth'[t].count[k] = stats'[t].count[k]
            /\ last'[t][k] # 0 /\ last'[t][k] <= now'[t]
        BY <1>r, <3>1, <3>3, <3>4, <4>1
      <4>4. /\ stats'[t].create < truth'[t].first[k] /\ truth'[t].first[k] <= last'[t][k]
            /\ stats'[t].intime[k] + stats'[t].outtime[k] + truth'[t].first[k] = last'[t][k]
        <5>1. CASE last[t][k] = 0
          <6>1. /\ truth[t].first[k] = call[t].start /\ stats[t].create < call[t].start
                /\ stats[t].intime[k] = 0 /\ stats[t].outtime[k] = 0 /\ out = 0
            BY <3>3, <3>4, <4>2, <5>1
          <6>. QED  BY <1>r, <3>1, <3>2, <3>3, <4>1, <6>1
        <5>2. CASE last[t][k] # 0
          <6>1. /\ stats[t].create < truth[t].first[k] /\ truth[t].first[k] <= last[t][k]
                /\ stats[t].intime[k] + stats[t].outtime[k] + truth[t].first[k] = last[t][k]
                /\ last[t][k] <= call[t].start /\ out = call[t].start - last[t][k]
            BY <3>3, <3>4, <4>2, <5>2
          <6>. QED  BY SMTT(30), <1>r, <3>1, <3>2, <3>3, <4>1, <6>1
        <5>. QED  BY <5>1, <5>2
      <4>. QED  BY <2>2, <3>1, <3>3, <4>3, <4>4
    <3>5. CASE l # k
      <4>1. /\ stats'[t].count[k] = stats[t].count[k] /\ stats'[t].intime[k] = stats[t].intime[k]
            /\ stats'[t].outtime[k] = stats[t].outtime[k] /\ last'[t][k] = last[t][k]
        BY <1>r, <3>1, <3>2, <3>5 DEF Structures
      <4>. QED  BY <1>r, <2>2, <3>1, <3>2, <3>3, <3>5, <4>1
    <3>. QED  BY <3>4, <3>5
  <2>. QED  BY <1>3, <2>3, <2>4, <2>5, <2>6 DEF Timed
<1>. QED  BY <1>1, <1>2, <1>3

---------------------------------------------------------------------------
\* The report

\* Who has ended, or reports, is in no call any more, and does not come back.
LEMMA FinishedStays ==
  ASSUME Types, ReportIs, NEW t \in Threads, Finished(t), NEW u \in Threads, Does(u)
  PROVE  Finished(t)' /\ truth'[t] = truth[t] /\ last'[t] = last[t]
<1>1. pc[t] = "ended" \/ pc[t] \in Reporting
  BY DEF Finished, ReportIs
<1>2. CASE t # u
  BY <1>2, OthersAlone
<1>3. CASE t = u
  <2>1. ~ Timed(u)
    BY <1>1, <1>3 DEF Reporting, Walking, Timed, Start, Enter, Load, Again, Leave, Account
  <2>2. Finished(t)'
    <3>1. ~ Stub(u) /\ ~ End(u)
      BY <1>1, <1>3 DEF Reporting, Walking, Stub, KeyAlloc, KeyStore, SetSpecific, ReadHead, Push, Born, End
    <3>2. ASSUME NEW p \in Threads PROVE ~ Create(p, u)
      BY <1>1, <1>3 DEF Reporting, Walking, Create
    <3>3. Report(u)
      BY <2>1, <3>1, <3>2 DEF Does
    <3>4. CASE Exit(u)
      BY <1>3, <3>4 DEF Exit, Finished
    <3>5. CASE ~ Exit(u)
      <4>1. t = reporter /\ reporter' = reporter
        BY <1>1, <1>3, <3>3, <3>5 DEF Report, ReportHead, ReportTest, ReportSet, ReportRow, Gone,
             report, ReportIs, Reporting, Walking
      <4>. QED  BY <4>1 DEF Finished
    <3>. QED  BY <3>4, <3>5
  <2>. QED  BY <1>3, <2>1, <2>2, CallsAlone
<1>. QED  BY <1>2, <1>3

\* One thread reports; what it dates had not ended before.
LEMMA ReportKept ==
  ASSUME Types, ReportIs, \A t \in Threads : LifeIs(t), NEW u \in Threads, Does(u), Alive
  PROVE  ReportIs'
<1>. USE DEF Goto
<1>r. /\ pc \in [Threads -> Places] /\ NULL \notin Threads
      /\ reporter \in Threads \cup {NULL} /\ cell \in Threads \cup {NULL} /\ over \subseteq Threads
  BY MainAssumption DEF Types
<1>s. \A t \in Threads : Finished(t) => Finished(t)'
  BY FinishedStays
<1>1. CASE Stub(u) \/ Timed(u) \/ End(u) \/ \E p \in Threads : Create(p, u)
  <2>1. UNCHANGED report
    BY <1>1 DEF Stub, KeyAlloc, KeyStore, SetSpecific, ReadHead, Push, Born, Timed, Start, Enter,
         Load, Again, Leave, Account, End, Create
  <2>2. /\ pc[u] \notin Reporting /\ pc'[u] \notin Reporting
        /\ \A t \in Threads \ {u} : pc'[t] = pc[t]
    BY <1>r, <1>1 DEF Stub, KeyAlloc, KeyStore, SetSpecific, ReadHead, Push, Born, Timed, Start, Enter,
         Load, Again, Leave, Account, End, Create, Reporting, Walking
  <2>3. \A t \in Threads : pc'[t] \in Reporting \/ pc[t] \in Reporting => pc'[t] = pc[t]
    BY <2>2
  <2>. QED  BY <1>s, <1>r, <2>1, <2>3 DEF ReportIs, report, Reporting, Walking
<1>2. CASE Exit(u)
  <2>1. /\ pc' = [pc EXCEPT ![u] = "r_head"] /\ reporter = NULL /\ reporter' = u
        /\ rows' = rows /\ over' = {t \in Threads : pc[t] = "ended"}
    BY <1>2 DEF Exit
  <2>2. rows = {} /\ \A t \in Threads : pc[t] \notin Reporting
    BY <1>r, <2>1 DEF ReportIs
  <2>3. \A t \in over' : Finished(t)'
    BY <1>r, <2>1 DEF Finished
  <2>. QED  BY <1>r, <2>1, <2>2, <2>3 DEF ReportIs, Reporting, Walking
<1>3. CASE Report(u) /\ ~ Exit(u)
  <2>1. /\ u = reporter /\ reporter' = reporter /\ over' = over
        /\ pc'[u] \in Reporting /\ \A t \in Threads \ {u} : pc'[t] = pc[t]
    BY <1>r, <1>3 DEF Report, ReportHead, ReportTest, ReportSet, ReportRow, Gone, report, ReportIs,
         Reporting, Walking
  <2>2. \A t \in Threads : pc'[t] \in Reporting <=> t = reporter'
    BY <2>1 DEF ReportIs
  <2>3. \A t \in over' : Finished(t)'
    BY <1>r, <1>s, <2>1 DEF ReportIs
  <2>4. \A t \in Threads : pc'[t] = "r_set" => cell' \in Threads \ over'
    <3>1. CASE ReportTest(u)
      <4>1. pc'[u] = "r_set" => cell \in Threads \ over
        <5>1. cell \in Threads
          BY <1>r, <3>1 DEF ReportTest
        <5>2. cell \in over => stats[cell].exit # 0
          <6>1. cell \in over => LifeIs(cell) /\ Finished(cell)
            BY <5>1 DEF ReportIs
          <6>2. stats[cell].create \in Nat /\ stats[cell].exit \in Nat
            BY <5>1 DEF Types, Structures
          <6>. QED  BY <6>1, <6>2 DEF LifeIs
        <5>. QED  BY <1>r, <3>1, <5>1, <5>2 DEF ReportTest
      <4>. QED  BY <2>1, <2>2, <3>1, <4>1 DEF ReportTest, report, Reporting, Walking
    <3>2. CASE ~ ReportTest(u)
      <4>1. pc'[u] # "r_set"
        BY <1>r, <1>3, <3>2 DEF Report, ReportHead, ReportSet, ReportRow, Gone
      <4>. QED  BY <2>1, <2>2, <4>1 DEF Reporting, Walking
    <3>. QED  BY <3>1, <3>2
  <2>5. \A t \in Threads : (pc'[t] = "r_row" => cell' \in Threads) /\ (pc'[t] = "gone" => cell' = NULL)
    <3>1. /\ pc'[u] = "r_row" => cell' \in Threads
          /\ pc'[u] = "gone" => cell' = NULL
      BY <1>r, <1>3 DEF Report, ReportHead, ReportTest, ReportSet, ReportRow, Gone, report, ReportIs
    <3>. QED  BY <2>1, <2>2, <3>1 DEF Reporting, Walking
  <2>6. \A r \in rows' : r.thread \in Threads /\ (r.settled => Finished(r.thread)')
    <3>1. CASE ReportRow(u)
      <4>. DEFINE new == [thread |-> cell, of |-> stats[cell],
                          settled |-> pc[cell] = "ended" \/ cell = u]
      <4>1. pc[u] = "r_row" /\ rows' = rows \cup {new}
        BY <3>1 DEF ReportRow
      <4>2. cell \in Threads
        BY <4>1 DEF ReportIs
      <4>3. new.thread = cell /\ (new.settled => Finished(cell))
        BY <2>1 DEF Finished
      <4>4. PICK r0 : r0 = new
        OBVIOUS
      <4>. HIDE DEF new
      <4>5. r0.thread \in Threads /\ (r0.settled => Finished(r0.thread)')
        BY <1>s, <4>2, <4>3, <4>4
      <4>6. \A r \in rows : r.thread \in Threads /\ (r.settled => Finished(r.thread)')
        BY <1>s DEF ReportIs
      <4>. QED  BY <4>1, <4>4, <4>5, <4>6
    <3>2. CASE ~ ReportRow(u)
      <4>1. rows' = rows
        BY <1>3, <3>2 DEF Report, ReportHead, ReportTest, ReportSet, Gone, report
      <4>. QED  BY <1>s, <4>1 DEF ReportIs
    <3>. QED  BY <3>1, <3>2
  <2>7. reporter' # NULL
    BY <1>r, <2>1
  <2>. QED  BY <2>2, <2>3, <2>4, <2>5, <2>6, <2>7 DEF ReportIs
<1>. QED  BY <1>1, <1>2, <1>3 DEF Does

\* The row of r is exact, as RowsExact says.
Exact(r) ==
  LET true == truth[r.thread] IN
  /\ 0 < r.of.create /\ r.of.create < r.of.exit
  /\ \A k \in Kinds :
       /\ r.of.count[k] = true.count[k]
       /\ r.of.intime[k] + r.of.outtime[k] = last[r.thread][k] - true.first[k]
       /\ r.of.intime[k] + r.of.outtime[k] < r.of.exit - r.of.create

LEMMA RowsAreExact == RowsExact <=> \A r \in rows : r.settled => Exact(r)
BY DEF RowsExact, Exact

\* What the structure of a thread that has ended holds is exact.
LEMMA ExactNow ==
  ASSUME Types, ReportIs, NEW t \in Threads, LifeIs(t), \A k \in Kinds : CountIs(t, k), Finished(t),
         NEW r, r.thread = t, r.of = stats[t]
  PROVE  Exact(r)
<1>1. pc[t] \notin Unborn \cup InCall
  BY DEF Finished, ReportIs, Reporting, Walking, Unborn, Stubs, InCall
<1>2. stats[t].create \in Nat /\ stats[t].exit \in Nat
  BY DEF Types, Structures
<1>3. 0 < stats[t].create /\ stats[t].create < stats[t].exit
  BY <1>1 DEF LifeIs
<1>4. ASSUME NEW k \in Kinds
      PROVE  /\ stats[t].count[k] = truth[t].count[k]
             /\ stats[t].intime[k] + stats[t].outtime[k] = last[t][k] - truth[t].first[k]
             /\ stats[t].intime[k] + stats[t].outtime[k] < stats[t].exit - stats[t].create
  <2>1. /\ stats[t].count[k] \in Nat /\ stats[t].intime[k] \in Nat /\ stats[t].outtime[k] \in Nat
        /\ truth[t].first[k] \in Nat /\ last[t][k] \in Nat
    BY DEF Types, Structures, Truths
  <2>2. ~ Calling(t, k) /\ CountIs(t, k)
    BY <1>1 DEF Calling
  <2>3. stats[t].count[k] = truth[t].count[k] /\ last[t][k] < stats[t].exit
    BY <2>2 DEF CountIs
  <2>4. CASE last[t][k] = 0
    <3>1. stats[t].intime[k] = 0 /\ stats[t].outtime[k] = 0 /\ truth[t].first[k] = 0
      BY <2>2, <2>4 DEF CountIs
    <3>. QED  BY <1>2, <1>3, <2>3, <2>4, <3>1
  <2>5. CASE last[t][k] # 0
    <3>1. /\ stats[t].create < truth[t].first[k]
          /\ stats[t].intime[k] + stats[t].outtime[k] + truth[t].first[k] = last[t][k]
      BY <2>2, <2>5 DEF CountIs
    <3>. QED  BY <1>2, <2>1, <2>3, <3>1
  <2>. QED  BY <2>4, <2>5
<1>. QED  BY <1>3, <1>4 DEF Exact

\* A row that is settled stays exact, and a new one is.
LEMMA RowsKept ==
  ASSUME Types, ReportIs, RowsExact, \A t \in Threads : LifeIs(t) /\ \A k \in Kinds : CountIs(t, k),
         NEW u \in Threads, Does(u)
  PROVE  RowsExact'
<1>1. ASSUME NEW r \in rows, r.settled PROVE Exact(r)'
  <2>1. Exact(r)
    BY <1>1, RowsAreExact
  <2>2. r.thread \in Threads /\ Finished(r.thread)
    BY <1>1 DEF ReportIs
  <2>3. truth'[r.thread] = truth[r.thread] /\ last'[r.thread] = last[r.thread]
    BY <2>2, FinishedStays
  <2>. QED  BY <2>1, <2>3 DEF Exact
<1>2. CASE ReportRow(u)
  <2>. DEFINE new == [thread |-> cell, of |-> stats[cell], settled |-> pc[cell] = "ended" \/ cell = u]
  <2>1. /\ pc[u] = "r_row" /\ rows' = rows \cup {new} /\ truth' = truth /\ last' = last
    BY <1>2 DEF ReportRow, measure
  <2>2. cell \in Threads /\ u = reporter
    BY <2>1 DEF ReportIs, Reporting, Walking
  <2>3. new.settled => Finished(cell)
    BY <2>2 DEF Finished
  <2>4. new.settled => Exact(new)
    <3>1. new.thread = cell /\ new.of = stats[cell]
      OBVIOUS
    <3>. HIDE DEF new
    <3>. QED  BY <2>2, <2>3, <3>1, ExactNow
  <2>5. PICK r0 : r0 = new
    OBVIOUS
  <2>. HIDE DEF new
  <2>6. r0.settled => Exact(r0)'
    BY <2>1, <2>4, <2>5 DEF Exact
  <2>. QED  BY <1>1, <2>1, <2>5, <2>6, RowsAreExact DEF RowsExact, Exact
<1>3. CASE ~ ReportRow(u)
  <2>1. rows' = rows
    BY <1>3 DEF Does, Stub, Timed, Report, KeyAlloc, KeyStore, SetSpecific, ReadHead, Push, Born, Start,
         Enter, Load, Again, Leave, Account, End, Exit, ReportHead, ReportTest, ReportSet, Gone,
         Create, report
  <2>. QED  BY <1>1, <2>1 DEF RowsExact, Exact
<1>. QED  BY <1>2, <1>3

---------------------------------------------------------------------------
\* The list

\* The list does not depend on what is not its own.
LEMMA ListAlone ==
  ASSUME ListIs, list' = list, cell' = cell, rows' = rows, due' = due,
         \A t \in Threads :
           /\ stats'[t].next = stats[t].next /\ (Registered(t)' <=> Registered(t))
           /\ pc'[t] = "s_push" => pc[t] = "s_push" /\ local'[t] = local[t]
           /\ pc'[t] = "r_head" => pc[t] = "r_head"
           /\ pc'[t] \in Walking => pc[t] \in Walking,
         due \subseteq Threads
  PROVE  ListIs'
<1>l. PICK n \in 0..Cardinality(Threads) : \E q \in [1..n -> Threads] :
        /\ Chain(q, n)
        /\ (\E t \in Threads : pc[t] \in Walking) => \E c \in 1..(n + 1) : Progress(q, n, c)
  BY DEF ListIs
<1>1. PICK q \in [1..n -> Threads] :
        /\ Chain(q, n)
        /\ (\E t \in Threads : pc[t] \in Walking) => \E c \in 1..(n + 1) : Progress(q, n, c)
  BY <1>l
<1>2. Chain(q, n)'
  <2>1. \A i \in 1..n : q[i] \in Threads
    OBVIOUS
  <2>. QED  BY <1>1, <2>1 DEF Chain
<1>3. ASSUME NEW c \in 1..(n + 1), Progress(q, n, c) PROVE Progress(q, n, c)'
  BY <1>3 DEF Progress
<1>4. (\E t \in Threads : pc'[t] \in Walking) => \E c \in 1..(n + 1) : Progress(q, n, c)'
  BY <1>1, <1>3
<1>5. \A t \in due : Registered(t)'
  BY DEF ListIs
<1>. QED  BY <1>1, <1>2, <1>4, <1>5 DEF ListIs

\* A list without repetition is not longer than there are threads.
LEMMA NoLonger ==
  ASSUME NEW n \in Nat, NEW q \in [1..n -> Threads], \A i, k \in 1..n : q[i] = q[k] => i = k
  PROVE  n <= Cardinality(Threads)
<1>1. q \in Injection(1..n, Threads)
  BY DEF Injection, IsInjective
<1>2. Cardinality(1..n) = n
  BY FS_Interval
<1>. QED  BY <1>1, <1>2, FS_Injection, FiniteAssumption

\* A compare-and-swap that goes through puts the structure of u first, before
\* whatever the cursor has still to come to.
LEMMA PushKept ==
  ASSUME Types, ReportIs, ListIs, NEW u \in Threads, Push(u), list = local[u]
  PROVE  ListIs'
<1>r. pc \in [Threads -> Places] /\ NULL \notin Threads /\ due \subseteq Threads
  BY MainAssumption DEF Types
<1>1. /\ pc' = [pc EXCEPT ![u] = "s_date"] /\ pc[u] = "s_push" /\ list' = u
      /\ local' = [local EXCEPT ![u] = NULL]
      /\ UNCHANGED <<stats, cell, rows, due>>
  BY DEF Push, Goto, report
<1>l. PICK n \in 0..Cardinality(Threads) : \E q \in [1..n -> Threads] :
        /\ Chain(q, n)
        /\ (\E t \in Threads : pc[t] \in Walking) => \E c \in 1..(n + 1) : Progress(q, n, c)
  BY DEF ListIs
<1>2. PICK q \in [1..n -> Threads] :
        /\ Chain(q, n)
        /\ (\E t \in Threads : pc[t] \in Walking) => \E c \in 1..(n + 1) : Progress(q, n, c)
  BY <1>l
<1>n. n \in Nat
  BY FS_CardinalityType, FiniteAssumption
<1>. DEFINE p == [i \in 1..(n + 1) |-> IF i = 1 THEN u ELSE q[i - 1]]
<1>3. p \in [1..(n + 1) -> Threads] /\ p[1] = u /\ \A i \in 2..(n + 1) : p[i] = q[i - 1]
  BY <1>n
<1>. HIDE DEF p
<1>4. ~ Registered(u) /\ \A i \in 1..n : q[i] # u
  BY <1>1, <1>2 DEF Registered, Chain
<1>5. \A i, k \in 1..(n + 1) : p[i] = p[k] => i = k
  <2>1. ASSUME NEW i \in 1..(n + 1), NEW k \in 1..(n + 1), p[i] = p[k], i # 1, k # 1
        PROVE  i = k
    <3>1. i - 1 \in 1..n /\ k - 1 \in 1..n /\ q[i - 1] = q[k - 1]
      BY <1>n, <1>3, <2>1
    <3>2. i - 1 = k - 1
      BY <1>2, <3>1 DEF Chain
    <3>. QED  BY <1>n, <3>2
  <2>2. ASSUME NEW i \in 1..(n + 1), i # 1 PROVE p[i] # p[1]
    <3>1. i - 1 \in 1..n /\ p[i] = q[i - 1]
      BY <1>n, <1>3, <2>2
    <3>. QED  BY <1>3, <1>4, <3>1
  <2>. QED  BY <2>1, <2>2
<1>6. \A t \in Threads : Registered(t)' <=> Registered(t) \/ t = u
  BY <1>r, <1>1 DEF Registered
<1>7. Chain(p, n + 1)'
  <2>1. list' = Nth(p, n + 1, 1)
    BY <1>n, <1>1, <1>3 DEF Nth
  <2>2. ASSUME NEW i \in 1..(n + 1) PROVE stats[p[i]].next = Nth(p, n + 1, i + 1)
    <3>1. CASE i = 1
      <4>1. stats[u].next = list
        BY <1>1 DEF ListIs
      <4>2. list = Nth(q, n, 1)
        BY <1>2 DEF Chain
      <4>3. Nth(p, n + 1, 2) = Nth(q, n, 1)
        BY <1>n, <1>3 DEF Nth
      <4>. QED  BY <1>3, <3>1, <4>1, <4>2, <4>3
    <3>2. CASE i # 1
      <4>1. i - 1 \in 1..n /\ p[i] = q[i - 1] /\ (i - 1) + 1 = i
        BY <1>n, <1>3, <3>2
      <4>2. stats[q[i - 1]].next = Nth(q, n, i)
        <5>1. stats[q[i - 1]].next = Nth(q, n, (i - 1) + 1)
          BY <1>2, <4>1 DEF Chain
        <5>. QED  BY <4>1, <5>1
      <4>3. Nth(p, n + 1, i + 1) = Nth(q, n, i)
        BY <1>n, <1>3, <3>2 DEF Nth
      <4>. QED  BY <4>1, <4>2, <4>3
    <3>. QED  BY <3>1, <3>2
  <2>3. ASSUME NEW t \in Threads
        PROVE  Registered(t) \/ t = u <=> \E i \in 1..(n + 1) : p[i] = t
    <3>1. Registered(t) <=> \E i \in 1..n : q[i] = t
      BY <1>2 DEF Chain
    <3>2. ASSUME NEW i \in 1..n PROVE i + 1 \in 1..(n + 1) /\ p[i + 1] = q[i]
      <4>1. i + 1 \in 2..(n + 1) /\ (i + 1) - 1 = i
        BY <1>n
      <4>. QED  BY <1>n, <1>3, <4>1
    <3>3. ASSUME NEW i \in 1..(n + 1), i # 1 PROVE i - 1 \in 1..n /\ p[i] = q[i - 1]
      BY <1>n, <1>3, <3>3
    <3>. QED  BY <1>n, <1>3, <3>1, <3>2, <3>3
  <2>. QED  BY <1>1, <1>5, <1>6, <2>1, <2>2, <2>3 DEF Chain
<1>8. ASSUME NEW c \in 1..(n + 1), Progress(q, n, c)
      PROVE  c + 1 \in 1..((n + 1) + 1) /\ Progress(p, n + 1, c + 1)'
  <2>0. c + 1 \in 2..((n + 1) + 1) /\ (c + 1) - 1 = c
    BY <1>n
  <2>1. cell = Nth(p, n + 1, c + 1)
    <3>1. Nth(p, n + 1, c + 1) = Nth(q, n, c)
      BY <1>n, <1>3 DEF Nth
    <3>. QED  BY <1>8, <3>1 DEF Progress
  <2>2. ASSUME NEW r \in rows PROVE \E i \in 1..((c + 1) - 1) : p[i] = r.thread
    <3>1. PICK i \in 1..(c - 1) : q[i] = r.thread
      BY <1>8, <2>2 DEF Progress
    <3>2. i + 1 \in 1..c /\ i + 1 \in 2..(n + 1) /\ (i + 1) - 1 = i
      BY <1>n
    <3>. QED  BY <1>3, <2>0, <3>1, <3>2
  <2>3. ASSUME NEW t \in due
        PROVE  (\E r \in rows : r.thread = t) \/ \E i \in (c + 1)..(n + 1) : p[i] = t
    <3>1. CASE \E i \in c..n : q[i] = t
      <4>1. PICK i \in c..n : q[i] = t
        BY <3>1
      <4>2. i + 1 \in (c + 1)..(n + 1) /\ i + 1 \in 2..(n + 1) /\ (i + 1) - 1 = i
        BY <1>n
      <4>. QED  BY <1>3, <4>1, <4>2
    <3>. QED  BY <1>8, <3>1 DEF Progress
  <2>. QED  BY <1>1, <2>0, <2>1, <2>2, <2>3 DEF Progress
<1>9. (\E t \in Threads : pc'[t] \in Walking) => \E c \in 1..((n + 1) + 1) : Progress(p, n + 1, c)'
  <2>1. \A t \in Threads : pc'[t] \in Walking => pc[t] \in Walking
    BY <1>r, <1>1 DEF Walking
  <2>. QED  BY <1>2, <1>8, <2>1
<1>10. n + 1 \in 0..Cardinality(Threads)
  <2>1. n + 1 <= Cardinality(Threads)
    BY <1>n, <1>3, <1>5, NoLonger
  <2>. QED  BY <1>n, <2>1, FS_CardinalityType, FiniteAssumption
<1>11. /\ \A t \in Threads : pc'[t] = "s_push" => stats'[t].next = local'[t]
       /\ \A t \in due' : Registered(t)'
       /\ \A r, s \in rows' : r.thread = s.thread => r = s
       /\ \A t \in Threads : pc'[t] = "r_head" => rows' = {}
  <2>1. \A t \in Threads : pc'[t] = "s_push" => t # u /\ pc[t] = "s_push" /\ local'[t] = local[t]
    BY <1>r, <1>1 DEF Types
  <2>2. \A t \in Threads : pc'[t] = "r_head" => pc[t] = "r_head"
    BY <1>r, <1>1
  <2>. QED  BY <1>r, <1>1, <1>6, <2>1, <2>2 DEF ListIs
<1>. QED  BY <1>3, <1>7, <1>9, <1>10, <1>11 DEF ListIs

\* The thread that reads the head is in no list yet.
LEMMA HeadKept ==
  ASSUME Types, ListIs, NEW u \in Threads, ReadHead(u)
  PROVE  ListIs'
<1>r. pc \in [Threads -> Places] /\ due \subseteq Threads
  BY DEF Types
<1>1. /\ pc' = [pc EXCEPT ![u] = "s_push"] /\ pc[u] = "s_head"
      /\ local' = [local EXCEPT ![u] = list]
      /\ UNCHANGED <<list, cell, rows, due>>
      /\ stats' = [stats EXCEPT ![u] = [stats[u] EXCEPT !.next = list]]
  BY DEF ReadHead, Goto, report
<1>2. /\ \A t \in Threads \ {u} : stats'[t] = stats[t] /\ local'[t] = local[t] /\ pc'[t] = pc[t]
      /\ stats'[u].next = list /\ local'[u] = list /\ pc'[u] = "s_push"
  <2>1. stats[u] \in Structures
    BY DEF Types
  <2>2. stats'[u] = [stats[u] EXCEPT !.next = list]
    BY <1>1 DEF Types
  <2>3. stats'[u].next = list
    BY <2>1, <2>2 DEF Structures
  <2>. QED  BY <1>r, <1>1, <2>3 DEF Types
<1>l. PICK n \in 0..Cardinality(Threads) : \E q \in [1..n -> Threads] :
        /\ Chain(q, n)
        /\ (\E t \in Threads : pc[t] \in Walking) => \E c \in 1..(n + 1) : Progress(q, n, c)
  BY DEF ListIs
<1>3. PICK q \in [1..n -> Threads] :
        /\ Chain(q, n)
        /\ (\E t \in Threads : pc[t] \in Walking) => \E c \in 1..(n + 1) : Progress(q, n, c)
  BY <1>l
<1>4. \A t \in Threads : Registered(t)' <=> Registered(t)
  BY <1>r, <1>1, <1>2 DEF Registered
<1>5. \A i \in 1..n : q[i] \in Threads \ {u}
  BY <1>1, <1>3 DEF Chain, Registered
<1>6. Chain(q, n)'
  BY <1>1, <1>2, <1>3, <1>4, <1>5 DEF Chain
<1>7. (\E t \in Threads : pc'[t] \in Walking) => \E c \in 1..(n + 1) : Progress(q, n, c)'
  <2>1. ASSUME NEW c \in 1..(n + 1), Progress(q, n, c) PROVE Progress(q, n, c)'
    BY <1>1, <2>1 DEF Progress
  <2>2. \A t \in Threads : pc'[t] \in Walking => pc[t] \in Walking
    BY <1>2 DEF Walking
  <2>. QED  BY <1>3, <2>1, <2>2
<1>8. /\ \A t \in Threads : pc'[t] = "s_push" => stats'[t].next = local'[t]
      /\ \A t \in due' : Registered(t)'
      /\ \A r, s \in rows' : r.thread = s.thread => r = s
      /\ \A t \in Threads : pc'[t] = "r_head" => rows' = {}
  BY <1>r, <1>1, <1>2, <1>4 DEF ListIs
<1>. QED  BY <1>6, <1>7, <1>8 DEF ListIs

\* Who is due when exit is called is in the list, and the report has not begun.
LEMMA ExitKept ==
  ASSUME Types, ReportIs, ListIs, NEW u \in Threads, Exit(u)
  PROVE  ListIs'
<1>r. pc \in [Threads -> Places] /\ NULL \notin Threads
  BY MainAssumption DEF Types
<1>1. /\ pc' = [pc EXCEPT ![u] = "r_head"] /\ pc[u] \in {"run", "ended"} /\ reporter = NULL
      /\ due' = {t \in Threads : Registered(t)} /\ UNCHANGED <<list, local, cell, rows>>
      /\ stats' = [stats EXCEPT ![u] = [stats[u] EXCEPT !.exit = now'[u]]]
  BY DEF Exit, Goto
<1>2. rows = {} /\ \A t \in Threads : pc[t] \notin Reporting
  BY <1>r, <1>1 DEF ReportIs
<1>3. \A t \in Threads : stats'[t].next = stats[t].next
  <2>1. stats[u] \in Structures
    BY DEF Types
  <2>2. stats'[u] = [stats[u] EXCEPT !.exit = now'[u]]
    BY <1>1 DEF Types
  <2>3. stats'[u].next = stats[u].next
    BY <2>1, <2>2 DEF Structures
  <2>. QED  BY <1>1, <2>3 DEF Types
<1>4. \A t \in Threads : Registered(t)' <=> Registered(t)
  BY <1>r, <1>1 DEF Registered
<1>5. \A t \in Threads : pc'[t] \notin Walking
  BY <1>r, <1>1, <1>2 DEF Reporting, Walking
<1>l. PICK n \in 0..Cardinality(Threads) : \E q \in [1..n -> Threads] : Chain(q, n)
  BY DEF ListIs
<1>6. PICK q \in [1..n -> Threads] : Chain(q, n)
  BY <1>l
<1>7. Chain(q, n)'
  BY <1>1, <1>3, <1>4, <1>6 DEF Chain
<1>8. /\ \A t \in Threads : pc'[t] = "s_push" => stats'[t].next = local'[t]
      /\ \A t \in due' : Registered(t)'
      /\ rows' = {}
  BY <1>r, <1>1, <1>2, <1>3, <1>4 DEF ListIs
<1>. QED  BY <1>5, <1>7, <1>8 DEF ListIs

\* The report starts at the head, with everybody who is due to come.
LEMMA ReportHeadKept ==
  ASSUME Types, ReportIs, ListIs, NEW u \in Threads, ReportHead(u)
  PROVE  ListIs'
<1>r. pc \in [Threads -> Places] /\ due \subseteq Threads
  BY DEF Types
<1>1. /\ pc' = [pc EXCEPT ![u] = "r_date"] /\ pc[u] = "r_head" /\ cell' = list
      /\ UNCHANGED <<list, stats, local, rows, due>>
  BY DEF ReportHead, Goto
<1>2. rows = {}
  BY <1>1 DEF ListIs
<1>3. \A t \in Threads : Registered(t)' <=> Registered(t)
  BY <1>r, <1>1 DEF Registered
<1>l. PICK n \in 0..Cardinality(Threads) : \E q \in [1..n -> Threads] : Chain(q, n)
  BY DEF ListIs
<1>4. PICK q \in [1..n -> Threads] : Chain(q, n)
  BY <1>l
<1>n. n \in Nat
  BY FS_CardinalityType, FiniteAssumption
<1>5. Chain(q, n)'
  BY <1>1, <1>3, <1>4 DEF Chain
<1>6. Progress(q, n, 1)'
  BY <1>r, <1>1, <1>2, <1>4 DEF Progress, Chain, ListIs
<1>7. /\ \A t \in Threads : pc'[t] = "s_push" => stats'[t].next = local'[t]
      /\ \A t \in due' : Registered(t)'
      /\ rows' = {}
  BY <1>r, <1>1, <1>2, <1>3 DEF ListIs
<1>8. 1 \in 1..(n + 1)
  BY <1>n
<1>. QED  BY <1>5, <1>6, <1>7, <1>8 DEF ListIs

\* A row is written for the thread at the cursor, which had none.
LEMMA RowKept ==
  ASSUME Types, ReportIs, ListIs, NEW u \in Threads, ReportRow(u)
  PROVE  ListIs'
<1>r. pc \in [Threads -> Places] /\ due \subseteq Threads /\ NULL \notin Threads
  BY MainAssumption DEF Types
<1>. DEFINE new == [thread |-> cell, of |-> stats[cell], settled |-> pc[cell] = "ended" \/ cell = u]
<1>1. /\ pc' = [pc EXCEPT ![u] = "r_date"] /\ pc[u] = "r_row" /\ cell' = stats[cell].next
      /\ rows' = rows \cup {new} /\ UNCHANGED <<list, stats, local, due>>
  BY DEF ReportRow, Goto
<1>2. cell \in Threads /\ new.thread = cell
  BY <1>1 DEF ReportIs
<1>3. PICK r0 : r0 = new
  OBVIOUS
<1>. HIDE DEF new
<1>4. rows' = rows \cup {r0} /\ r0.thread = cell
  BY <1>1, <1>2, <1>3
<1>5. \A t \in Threads : Registered(t)' <=> Registered(t)
  BY <1>r, <1>1 DEF Registered
<1>l. PICK n \in 0..Cardinality(Threads) : \E q \in [1..n -> Threads] :
        /\ Chain(q, n)
        /\ (\E t \in Threads : pc[t] \in Walking) => \E c \in 1..(n + 1) : Progress(q, n, c)
  BY DEF ListIs
<1>6. PICK q \in [1..n -> Threads] : Chain(q, n) /\ \E c \in 1..(n + 1) : Progress(q, n, c)
  BY <1>l, <1>1 DEF Walking
<1>7. PICK c \in 1..(n + 1) : Progress(q, n, c)
  BY <1>6
<1>n. n \in Nat
  BY FS_CardinalityType, FiniteAssumption
<1>8. c \in 1..n /\ cell = q[c]
  BY <1>r, <1>2, <1>7 DEF Progress, Nth
<1>9. \A r \in rows : r.thread # cell
  <2>1. ASSUME NEW r \in rows, r.thread = cell PROVE FALSE
    <3>1. PICK i \in 1..(c - 1) : q[i] = cell
      BY <1>7, <2>1 DEF Progress
    <3>2. i \in 1..n /\ i # c
      BY <1>n, <1>8
    <3>. QED  BY <1>6, <1>8, <3>1, <3>2 DEF Chain
  <2>. QED  BY <2>1
<1>10. Chain(q, n)'
  BY <1>1, <1>5, <1>6 DEF Chain
<1>11. c + 1 \in 1..(n + 1) /\ (c + 1) - 1 = c
  BY <1>n, <1>8
<1>12. Progress(q, n, c + 1)'
  <2>1. cell' = Nth(q, n, c + 1)
    BY <1>1, <1>6, <1>8 DEF Chain
  <2>2. ASSUME NEW r \in rows' PROVE \E i \in 1..((c + 1) - 1) : q[i] = r.thread
    <3>1. CASE r \in rows
      <4>1. PICK i \in 1..(c - 1) : q[i] = r.thread
        BY <1>7, <3>1 DEF Progress
      <4>2. i \in 1..c
        BY <1>n
      <4>. QED  BY <1>11, <4>1, <4>2
    <3>2. CASE r = r0
      <4>1. c \in 1..c
        BY <1>n
      <4>. QED  BY <1>4, <1>8, <1>11, <3>2, <4>1
    <3>. QED  BY <1>4, <3>1, <3>2
  <2>3. ASSUME NEW t \in due
        PROVE  (\E r \in rows' : r.thread = t) \/ \E i \in (c + 1)..n : q[i] = t
    <3>1. ASSUME NEW i \in c..n, q[i] = t, t # cell PROVE i \in (c + 1)..n
      BY <1>n, <1>8, <3>1
    <3>2. (\E r \in rows : r.thread = t) \/ \E i \in c..n : q[i] = t
      BY <1>7 DEF Progress
    <3>. QED  BY <1>4, <3>1, <3>2
  <2>. QED  BY <1>1, <2>1, <2>2, <2>3 DEF Progress
<1>13. /\ \A t \in Threads : pc'[t] = "s_push" => stats'[t].next = local'[t]
       /\ \A t \in due' : Registered(t)'
       /\ \A r, s \in rows' : r.thread = s.thread => r = s
       /\ \A t \in Threads : pc'[t] # "r_head"
  <2>1. u = reporter /\ \A t \in Threads \ {u} : pc[t] # "r_head"
    BY <1>1 DEF ReportIs, Reporting, Walking
  <2>. QED  BY <1>r, <1>1, <1>4, <1>5, <1>9, <2>1 DEF ListIs
<1>. QED  BY <1>10, <1>11, <1>12, <1>13 DEF ListIs

LEMMA ListKept ==
  ASSUME Types, ReportIs, ListIs, NEW u \in Threads, Does(u)
  PROVE  ListIs'
<1>1. CASE ReadHead(u)
  BY <1>1, HeadKept
<1>2. CASE Push(u) /\ list = local[u]
  BY <1>2, PushKept
<1>3. CASE Exit(u)
  BY <1>3, ExitKept
<1>4. CASE ReportHead(u)
  BY <1>4, ReportHeadKept
<1>5. CASE ReportRow(u)
  BY <1>5, RowKept
<1>6. CASE ~ ReadHead(u) /\ ~ (Push(u) /\ list = local[u]) /\ ~ Exit(u) /\ ~ ReportHead(u) /\ ~ ReportRow(u)
  <2>r. pc \in [Threads -> Places] /\ due \subseteq Threads
    BY DEF Types
  <2>1. UNCHANGED <<list, cell, rows, due>>
    BY <1>6 DEF Does, Stub, Timed, Report, KeyAlloc, KeyStore, SetSpecific, Push, Born, Start, Enter,
         Load, Again, Leave, Account, End, ReportTest, ReportSet, Gone, Create, report
  <2>2. \A t \in Threads :
          /\ Registered(t)' <=> Registered(t)
          /\ pc'[t] = "s_push" => pc[t] = "s_push" /\ local'[t] = local[t]
          /\ pc'[t] = "r_head" => pc[t] = "r_head"
          /\ pc'[t] \in Walking => pc[t] \in Walking
    <3>1. CASE KeyAlloc(u) \/ KeyStore(u) \/ SetSpecific(u) \/ Born(u) \/ \E p \in Threads : Create(p, u)
      BY <2>r, <3>1 DEF Types, KeyAlloc, KeyStore, SetSpecific, Born, Create, Goto, Registered, Walking
    <3>2. CASE Push(u)
      BY <2>r, <1>6, <3>2 DEF Types, Push, Goto, Registered, Walking
    <3>3. CASE Timed(u)
      BY <2>r, <3>3 DEF Timed, Start, Enter, Load, Again, Leave, Account, Goto, Registered, Walking
    <3>4. CASE End(u) \/ ReportTest(u) \/ ReportSet(u) \/ Gone(u)
      BY <2>r, <3>4 DEF End, ReportTest, ReportSet, Gone, Goto, Registered, Walking
    <3>. QED  BY <1>6, <3>1, <3>2, <3>3, <3>4 DEF Does, Stub, Report
  <2>3. ASSUME NEW t \in Threads PROVE stats'[t].next = stats[t].next
    <3>0. stats[t] \in Structures
      BY DEF Types
    <3>1. CASE Born(u)
      BY <3>0, <3>1 DEF Types, Born, Structures
    <3>5. CASE Account(u)
      <4>. DEFINE k == call[u].kind
                  c == [stats[u].count EXCEPT ![k] = @ + 1]
                  i == [stats[u].intime EXCEPT ![k] = @ + (call[u].end - call[u].start)]
                  o == [stats[u].outtime EXCEPT
                          ![k] = @ + (IF last[u][k] = 0 THEN 0 ELSE call[u].start - last[u][k])]
      <4>1. stats' = [stats EXCEPT ![u] = [stats[u] EXCEPT !.count = c, !.intime = i, !.outtime = o]]
        BY ZenonT(60), <3>5 DEF Account
      <4>. HIDE DEF c, i, o
      <4>2. CASE t = u
        <5>1. stats'[t] = [stats[t] EXCEPT !.count = c, !.intime = i, !.outtime = o]
          BY <4>1, <4>2 DEF Types
        <5>. QED  BY <3>0, <5>1 DEF Structures
      <4>3. CASE t # u
        BY <4>1, <4>3 DEF Types
      <4>. QED  BY <4>2, <4>3
    <3>2. CASE End(u)
      BY <3>0, <3>2 DEF Types, End, Structures
    <3>3. CASE ReportSet(u)
      BY <3>0, <3>3 DEF Types, ReportSet, Structures
    <3>4. CASE ~ (Born(u) \/ Account(u) \/ End(u) \/ ReportSet(u))
      BY <1>6, <3>4 DEF Does, Stub, Timed, Report, KeyAlloc, KeyStore, SetSpecific, Push, Start, Enter,
           Load, Again, Leave, ReportTest, Gone, Create
    <3>. QED  BY <3>1, <3>2, <3>3, <3>4, <3>5
  <2>. QED  BY <2>r, <2>1, <2>2, <2>3, ListAlone
<1>. QED  BY <1>1, <1>2, <1>3, <1>4, <1>5, <1>6

---------------------------------------------------------------------------
\* The invariant, and what follows from it

LEMMA Initially == Init => IInv
<1>. SUFFICES ASSUME Init PROVE IInv
  OBVIOUS
<1>. USE MainAssumption, BoundAssumption
<1>p. pc = [t \in Threads |-> IF t = Main THEN "s_alloc" ELSE "none"]
  BY DEF Init
<1>1. Types
  <2>1. Blank \in Structures /\ NoCall \in CallsMade
    BY DEF Blank, Structures, Zero, NoCall, CallsMade
  <2>2. [count |-> Zero, first |-> Zero] \in Truths /\ Zero \in [Kinds -> Nat]
    BY DEF Zero, Truths
  <2>. QED  BY <2>1, <2>2 DEF Init, Types, Places, Unborn, Stubs
<1>2. FirstKey
  BY DEF Init, FirstKey, Stubs
<1>3. ReportIs
  BY DEF Init, ReportIs, Reporting, Walking
<1>4. RowsExact
  BY DEF Init, RowsExact
<1>5. ListIs
  <2>1. \A t \in Threads : ~ Registered(t) /\ pc[t] \notin Walking \cup {"s_push", "r_head"}
    BY <1>p DEF Registered, Walking
  <2>2. 0 \in 0..Cardinality(Threads)
    BY FS_CardinalityType, FiniteAssumption
  <2>3. PICK q : q \in [1..0 -> Threads]
    <3>1. [i \in 1..0 |-> Main] \in [1..0 -> Threads]
      OBVIOUS
    <3>. QED  BY <3>1
  <2>4. Chain(q, 0)
    BY <2>1 DEF Init, Chain, Nth
  <2>. QED  BY <2>1, <2>2, <2>3, <2>4 DEF Init, ListIs
<1>6. ASSUME NEW t \in Threads PROVE KeyIs(t) /\ LifeIs(t)
  <2>1. /\ pc[t] \in {"s_alloc", "none"} /\ reporter = NULL /\ now[t] = 0
        /\ stats[t].create = 0 /\ stats[t].exit = 0
    BY DEF Init, Blank
  <2>. QED  BY <2>1 DEF KeyIs, LifeIs, InCall, Unborn, Stubs, Finished
<1>7. ASSUME NEW t \in Threads, NEW k \in Kinds PROVE CountIs(t, k)
  <2>1. /\ pc[t] \in {"s_alloc", "none"} /\ reporter = NULL /\ now[t] = 0
        /\ last[t][k] = 0 /\ stats[t] = Blank
        /\ truth[t].count = Zero /\ truth[t].first = Zero
    BY DEF Init, Zero
  <2>2. Zero[k] = 0 /\ stats[t].count = Zero /\ stats[t].intime = Zero /\ stats[t].outtime = Zero
    BY <2>1 DEF Blank, Zero
  <2>3. ~ Calling(t, k) /\ ~ Finished(t)
    BY <2>1 DEF Calling, InCall, Finished
  <2>. QED  BY <2>1, <2>2, <2>3 DEF CountIs
<1>. QED  BY <1>1, <1>2, <1>3, <1>4, <1>5, <1>6, <1>7 DEF IInv

LEMMA Step == ASSUME IInv, [Next]_vars PROVE IInv'
<1>1. CASE \E u \in Threads : Alive /\ Does(u)
  <2>1. PICK u \in Threads : Alive /\ Does(u)
    BY <1>1
  <2>2. /\ Types /\ FirstKey /\ ReportIs /\ RowsExact /\ ListIs
        /\ \A t \in Threads : KeyIs(t) /\ LifeIs(t) /\ \A k \in Kinds : CountIs(t, k)
    BY DEF IInv
  <2>3. Types'
    BY <2>1, <2>2, TypesKept
  <2>4. FirstKey' /\ \A t \in Threads : KeyIs(t)'
    BY <2>1, <2>2, FirstKeyKept
  <2>5. \A t \in Threads : LifeIs(t)'
    BY <2>1, <2>2, LifeKept
  <2>6. \A t \in Threads, k \in Kinds : CountIs(t, k)'
    BY <2>1, <2>2, CountKept
  <2>7. ReportIs' /\ RowsExact' /\ ListIs'
    BY <2>1, <2>2, ReportKept, RowsKept, ListKept
  <2>. QED  BY <2>3, <2>4, <2>5, <2>6, <2>7 DEF IInv
<1>2. CASE UNCHANGED vars
  <2>. USE <1>2 DEF vars, measure, report, exitkey
  <2>1. Types' /\ FirstKey'
    BY DEF IInv, Types, FirstKey
  <2>2. ReportIs' /\ RowsExact'
    BY DEF IInv, ReportIs, RowsExact, Finished
  <2>3. ListIs'
    <3>1. \A t \in Threads : Registered(t)' <=> Registered(t)
      BY DEF Registered
    <3>. QED  BY <3>1, ListAlone DEF IInv, Types
  <2>4. \A t \in Threads : KeyIs(t)' /\ LifeIs(t)'
    BY DEF IInv, KeyIs, LifeIs, Finished
  <2>5. \A t \in Threads, k \in Kinds : CountIs(t, k)'
    BY DEF IInv, CountIs, Calling, Finished
  <2>. QED  BY <2>1, <2>2, <2>3, <2>4, <2>5 DEF IInv
<1>. QED  BY <1>1, <1>2, SomebodyDoes

\* The invariant is inductive: every reachable state satisfies it.
THEOREM Inductive == Spec => []IInv
<1>. QED  BY Initially, Step, PTL DEF Spec

\* The variables have their types: nothing negative is ever added up, and a thread
\* sets its value for a key of the process.
THEOREM TypeCorrect == Spec => []TypeOK
<1>1. IInv => TypeOK
  BY DEF IInv, Types, TypeOK, Structures
<1>. QED  BY <1>1, Inductive, PTL

\* A thread that has ended has its date, whichever key it used.
THEOREM Dated == Spec => []EndDated
<1>1. ASSUME IInv PROVE EndDated
  <2>1. Types /\ \A t \in Threads : LifeIs(t)
    BY <1>1 DEF IInv
  <2>2. \A t \in Threads : stats[t].create \in Nat /\ stats[t].exit \in Nat
    BY <2>1 DEF Types, Structures
  <2>. QED  BY <2>1, <2>2 DEF EndDated, LifeIs, Finished
<1>. QED  BY <1>1, Inductive, PTL

\* What the report says of a thread that had ended, or that called exit, is exact.
THEOREM Exactness == Spec => []RowsExact
<1>1. IInv => RowsExact
  BY DEF IInv
<1>. QED  BY <1>1, Inductive, PTL

\* The list, without a lock, holds every registered thread once, and ends.
THEOREM ListIsSound == Spec => []ListSound
<1>1. ASSUME IInv PROVE ListSound
  <2>. DEFINE there == {t \in Threads : Registered(t)}
  <2>0. ListIs
    BY <1>1 DEF IInv
  <2>l. PICK n \in 0..Cardinality(Threads) : \E q \in [1..n -> Threads] : Chain(q, n)
    BY <2>0 DEF ListIs
  <2>1. PICK q \in [1..n -> Threads] : Chain(q, n)
    BY <2>l
  <2>n. n \in Nat
    BY FS_CardinalityType, FiniteAssumption
  <2>2. q \in [1..n -> there] /\ \A t \in there : \E i \in 1..n : q[i] = t
    BY <2>1 DEF Chain
  <2>3. \A i, k \in 1..n : q[i] = q[k] => i = k
    BY <2>1 DEF Chain
  <2>4. Cardinality(there) = n
    <3>. HIDE DEF there
    <3>1. q \in Bijection(1..n, there)
      BY <2>2, <2>3 DEF Bijection, Injection, Surjection, IsInjective
    <3>2. ExistsBijection(1..n, there)
      BY <3>1, Fun_ExistsBij
    <3>3. IsFiniteSet(1..n) /\ Cardinality(1..n) = n
      BY <2>n, FS_Interval
    <3>. QED  BY <3>2, <3>3, FS_Bijection
  <2>5. DOMAIN q = 1..n
    OBVIOUS
  <2>6. Spells(q)
    BY <2>1, <2>5 DEF Spells, Chain, Nth
  <2>. QED  BY <2>2, <2>4, <2>5, <2>6 DEF ListSound
<1>. QED  BY <1>1, Inductive, PTL

\* One element with a property makes the set of those with it a singleton.
LEMMA JustOne ==
  ASSUME NEW S, NEW P, P \subseteq S, NEW s \in P, \A r \in P : r = s
  PROVE  Cardinality(P) = 1
<1>1. P = {s}
  OBVIOUS
<1>. QED  BY <1>1, FS_Singleton

\* Whoever was registered when exit was called gets one row, whatever the other
\* threads push and call while the list is walked.
THEOREM Everybody == Spec => []EverybodyReported
<1>1. ASSUME IInv, reporter # NULL, pc[reporter] = "gone", NEW t \in due
      PROVE  Cardinality({r \in rows : r.thread = t}) = 1
  <2>1. reporter \in Threads /\ cell = NULL /\ NULL \notin Threads
    BY <1>1, MainAssumption DEF IInv, Types, ReportIs
  <2>l. PICK n \in 0..Cardinality(Threads) : \E q \in [1..n -> Threads] :
          \E c \in 1..(n + 1) : Progress(q, n, c)
    BY <1>1, <2>1 DEF IInv, ListIs, Walking
  <2>2. PICK q \in [1..n -> Threads] : \E c \in 1..(n + 1) : Progress(q, n, c)
    BY <2>l
  <2>3. PICK c \in 1..(n + 1) : Progress(q, n, c)
    BY <2>2
  <2>n. n \in Nat
    BY FS_CardinalityType, FiniteAssumption
  <2>4. c \notin 1..n
    BY <2>1, <2>3 DEF Progress, Nth
  <2>5. PICK s \in rows : s.thread = t
    BY <2>n, <2>3, <2>4 DEF Progress
  <2>6. \A r \in rows : r.thread = t => r = s
    BY <1>1, <2>5 DEF IInv, ListIs
  <2>. DEFINE P == {r \in rows : r.thread = t}
  <2>7. P \subseteq rows /\ s \in P /\ \A r \in P : r = s
    BY <2>5, <2>6
  <2>8. Cardinality(P) = 1
    <3>. HIDE DEF P
    <3>. QED  BY <2>7, JustOne
  <2>. QED  BY <2>8
<1>2. IInv => EverybodyReported
  BY <1>1 DEF EverybodyReported
<1>. QED  BY <1>2, Inductive, PTL

\* Nobody touches what a thread left that ended before exit was called.
THEOREM Kept == Spec => EndedKept
<1>1. ASSUME IInv, [Next]_vars, NEW t \in Threads, pc[t] = "ended", pc'[t] = "ended",
             reporter = NULL \/ t \in over
      PROVE  stats'[t] = stats[t]
  <2>0. Types /\ ReportIs
    BY <1>1 DEF IInv
  <2>1. CASE UNCHANGED vars
    BY <2>1 DEF vars
  <2>2. ASSUME NEW u \in Threads, Does(u) PROVE stats'[t] = stats[t]
    <3>1. CASE u = t
      <4>1. ~ Exit(u)
        BY <1>1, <2>0, <3>1 DEF Exit, Goto, Types
      <4>. QED  BY <1>1, <2>2, <3>1, <4>1 DEF Does, Stub, Timed, Report, KeyAlloc, KeyStore, SetSpecific,
                ReadHead, Push, Born, Start, Enter, Load, Again, Leave, Account, End, ReportHead,
                ReportTest, ReportSet, ReportRow, Gone, Create
    <3>2. CASE u # t /\ ReportSet(u)
      <4>1. pc[u] = "r_set" /\ cell \in Threads \ over /\ u = reporter /\ NULL \notin Threads
        BY <2>0, <3>2, MainAssumption DEF ReportSet, ReportIs, Reporting, Walking
      <4>2. t # cell
        BY <1>1, <4>1
      <4>. QED  BY <2>0, <3>2, <4>1, <4>2 DEF ReportSet, Types
    <3>3. CASE u # t /\ ~ ReportSet(u)
      BY <2>0, <2>2, <3>3 DEF Types, Does, Stub, Timed, Report, KeyAlloc, KeyStore, SetSpecific,
           ReadHead, Push, Born, Start, Enter, Load, Again, Leave, Account, End, Exit, ReportHead,
           ReportTest, ReportRow, Gone, Create
    <3>. QED  BY <3>1, <3>2, <3>3
  <2>. QED  BY <1>1, <2>1, <2>2, SomebodyDoes
<1>2. IInv /\ [Next]_vars =>
        \A t \in Threads :
          /\ pc[t] = "ended" /\ pc'[t] = "ended"
          /\ reporter = NULL \/ t \in over
          => stats'[t] = stats[t]
  BY <1>1
<1>. QED  BY <1>2, Inductive, PTL DEF Spec, EndedKept

=============================================================================
