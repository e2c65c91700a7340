--------------------------- MODULE TuiModelProofs ---------------------------
(* The interface: one action at a time, a model that fits its lists, and      *)
(* nothing older than what was shown, for any lists, any keys and any order   *)
(* in which commands end and messages arrive.                                 *)
EXTENDS TuiModel, FiniteSetTheorems, SequenceTheorems, TLAPS

-----------------------------------------------------------------------------
(* The inductive invariant.                                                   *)

ServerLists == {<<>>} \cup {Lists[i] : i \in DOMAIN Lists}

Identifiers == (UNION {Range(l) : l \in ServerLists}) \cup {NoServer}

Versions == 0..Len(Lists)

Chars == {"x", " "}

Models ==
    [servers : ServerLists, at : Versions, status : DaemonStates \cup {""}, statusAt : Nat,
     cursor : Nat, selection : {"auto", "manual"}, selected : Identifiers,
     mode : {"tun", "proxy"}, route : {"global", "rule", "direct"},
     input : {"none", "name", "url"}, name : Seq(Chars), secret : Seq(Chars),
     gen : 0..MaxGen, busy : BOOLEAN]

Sorts == Actions \cup {"snapshot"}

Commands ==
    [kind : Sorts, gen : 0..MaxGen, target : Identifiers \cup {AutoTarget},
     step : {"work", "list", "status"}, at : Versions]

Messages ==
    [kind : Sorts, gen : 0..MaxGen, err : BOOLEAN, servers : ServerLists, at : Versions,
     status : DaemonStates \cup {""}, statusAt : Nat]

Worlds == [version : Versions \ {0}, daemon : DaemonStates, epoch : Nat]

\* Where the fields range, and which steps a command of a kind has.
TypeInv ==
    /\ m \in Models /\ flight \subseteq Commands /\ mail \subseteq Messages /\ world \in Worlds
    /\ \A c \in flight : c.step # "work" => c.kind \in ListActions \cup {"snapshot"}
    /\ \A c \in flight : c.step = "status" => c.kind = "snapshot"

FitInv ==
    /\ Len(m.name) <= MaxText /\ Len(m.secret) <= MaxText
    /\ PointsAtServers /\ InputForgotten

AtMostOne(S) == \A c, d \in S : c = d

\* One snapshot and one action at a time; an action has a generation of its own,
\* and while the user types none runs.
BusyInv ==
    /\ \A c \in Running(Actions) : c.gen # 0
    /\ AtMostOne(Running({"snapshot"}))
    /\ m.input # "none" => ~m.busy
    /\ program = "running" =>
         /\ AtMostOne(Running(Actions))
         /\ m.busy <=> Running(Actions) # {}
         /\ \A c \in Running(Actions) : c.gen = m.gen

\* Nothing is newer than the world, and what is on its way to be shown is not
\* older than what is shown.
ShownInv ==
    /\ m.at <= world.version /\ m.statusAt <= world.epoch
    /\ \A c \in flight : c.at <= world.version
    /\ \A msg \in mail : msg.at <= world.version /\ msg.statusAt <= world.epoch
    /\ program = "running" =>
         /\ m.gen = 0 /\ Running({"snapshot"}) # {} => m.at = 0 /\ m.statusAt = 0
         /\ \A msg \in mail : msg.kind \in Actions /\ ~msg.err =>
              IF msg.kind \in ListActions THEN m.at <= msg.at ELSE m.statusAt <= msg.statusAt

TuiInv == TypeInv /\ FitInv /\ BusyInv /\ ShownInv

-----------------------------------------------------------------------------
(* Lists, commands and messages.                                              *)

\* Every list that can be shown is a sequence of servers.
LEMMA ListsAre ==
    /\ Len(Lists) \in Nat \ {0} /\ DOMAIN Lists = 1..Len(Lists)
    /\ \A l \in ServerLists : l \in Seq(Range(l)) /\ Range(l) \subseteq Identifiers
<1>1. Len(Lists) \in Nat \ {0} /\ DOMAIN Lists = 1..Len(Lists)
  BY TuiAssumption, EmptySeq, LenProperties
<1>2. ASSUME NEW l \in ServerLists PROVE l \in Seq(Range(l)) /\ Range(l) \subseteq Identifiers
  <2>1. CASE l = <<>>
    BY <2>1, <1>2, EmptySeq DEF Identifiers
  <2>2. CASE l # <<>>
    BY <2>2, <1>2, TuiAssumption DEF ServerLists, Identifiers
  <2> QED BY <2>1, <2>2
<1> QED BY <1>1, <1>2

\* Positions of a list that is not empty.
LEMMA Positions ==
    ASSUME NEW l \in ServerLists
    PROVE  /\ Len(l) \in Nat /\ (l # <<>> => Len(l) > 0)
           /\ \A i \in 0..(Len(l) - 1) : l[i + 1] \in Range(l)
<1>1. l \in Seq(Range(l))
  BY ListsAre
<1>2. Len(l) \in Nat /\ DOMAIN l = 1..Len(l) /\ (l # <<>> => Len(l) > 0)
  BY <1>1, EmptySeq, LenProperties
<1>3. \A i \in DOMAIN l : l[i] \in Range(l)
  BY DEF Range
<1> QED BY <1>2, <1>3

\* A command of runner.go is never one of the messages it ends in.
LEMMA CommandsAreNoMessages == Commands \cap Messages = {}
<1> SUFFICES ASSUME NEW c \in Commands, c \in Messages PROVE FALSE
  OBVIOUS
<1>1. "step" \in DOMAIN c
  BY DEF Commands
<1>2. "step" \notin DOMAIN c
  BY Zenon DEF Messages
<1> QED BY <1>1, <1>2

-----------------------------------------------------------------------------
(* The functions on the model.                                                *)

\* k is a model that fits its lists and its input.
Fits(k) ==
    /\ k \in Models
    /\ Len(k.name) <= MaxText /\ Len(k.secret) <= MaxText
    /\ k.cursor \in 0..(IF k.servers = <<>> THEN 0 ELSE Len(k.servers) - 1)
    /\ k.selection = "manual" => k.selected \in Range(k.servers)
    /\ k.input = "none" => k.name = <<>> /\ k.secret = <<>>

\* k and j differ in what no command has to do with.
Alike(k, j) == k.gen = j.gen /\ k.busy = j.busy /\ k.at = j.at /\ k.statusAt = j.statusAt

\* Fits(m) is what TypeInv and FitInv say of the model.
LEMMA FitsIs == m \in Models => (Fits(m) <=> FitInv)
BY Zenon DEF Fits, FitInv, PointsAtServers, InputForgotten

\* The same after a step.
LEMMA FitsThen == m' \in Models => (Fits(m') <=> FitInv')
BY Zenon DEF Fits, FitInv, PointsAtServers, InputForgotten

\* Assigning the cursor.
LEMMA CursorSet ==
    ASSUME NEW k \in Models, NEW v \in Nat
    PROVE  LET w == [k EXCEPT !.cursor = v] IN
           /\ w \in Models /\ w.cursor = v /\ Alike(w, k)
           /\ w.servers = k.servers /\ w.input = k.input /\ w.name = k.name /\ w.secret = k.secret
           /\ w.selection = k.selection /\ w.selected = k.selected
BY Zenon DEF Models, Alike

\* Assigning the selection.
LEMMA SelectionSet ==
    ASSUME NEW k \in Models, NEW how \in {"auto", "manual"}, NEW id \in Identifiers
    PROVE  LET w == [k EXCEPT !.selection = how, !.selected = id] IN
           /\ w \in Models /\ w.selection = how /\ w.selected = id /\ Alike(w, k)
           /\ w.servers = k.servers /\ w.input = k.input /\ w.name = k.name /\ w.secret = k.secret
           /\ w.cursor = k.cursor
BY Zenon DEF Models, Alike

\* WithServers: whatever list arrives, clampCursor and reconcileSelection make
\* the model fit it.
LEMMA ServersFit ==
    ASSUME NEW k, Fits(k), NEW msg \in Messages
    PROVE  LET w == WithServers(k, msg) IN
           /\ Fits(w) /\ w.at = msg.at
           /\ w.gen = k.gen /\ w.busy = k.busy /\ w.input = k.input /\ w.statusAt = k.statusAt
<1> DEFINE j == [k EXCEPT !.servers = msg.servers, !.at = msg.at]
           c == Clamped(j)
           w == Reconciled(c)
<1>0. msg.servers \in ServerLists /\ msg.at \in Versions
  BY Zenon DEF Messages
<1>1. /\ j \in Models /\ j.servers = msg.servers /\ j.at = msg.at
      /\ j.gen = k.gen /\ j.busy = k.busy /\ j.input = k.input /\ j.statusAt = k.statusAt
      /\ j.name = k.name /\ j.secret = k.secret /\ j.cursor = k.cursor
  BY Zenon, <1>0 DEF Models, Fits
<1>2. Len(msg.servers) \in Nat /\ (msg.servers # <<>> => Len(msg.servers) > 0)
  BY <1>0, Positions
<1>3. /\ c \in Models /\ c.servers = msg.servers /\ Alike(c, j)
      /\ c.input = k.input /\ c.name = k.name /\ c.secret = k.secret
      /\ c.cursor \in 0..(IF c.servers = <<>> THEN 0 ELSE Len(c.servers) - 1)
  <2> HIDE DEF j
  <2>1. CASE j.servers = <<>>
    <3>1. c = [j EXCEPT !.cursor = 0]
      BY Zenon, <2>1 DEF Clamped
    <3> HIDE DEF c
    <3>2. 0 \in Nat /\ 0 \in 0..0
      BY SMT
    <3>3. /\ c \in Models /\ c.servers = j.servers /\ Alike(c, j) /\ c.cursor = 0
          /\ c.input = j.input /\ c.name = j.name /\ c.secret = j.secret
      BY Zenon, <1>1, <3>1, <3>2, CursorSet
    <3> QED BY Zenon, <1>1, <2>1, <3>2, <3>3
  <2>2. CASE j.servers # <<>> /\ j.cursor >= Len(j.servers)
    <3>1. c = [j EXCEPT !.cursor = Len(j.servers) - 1]
      BY Zenon, <2>2 DEF Clamped
    <3>2. Len(j.servers) - 1 \in Nat
      BY <1>1, <1>2, <2>2
    <3> HIDE DEF c
    <3>3. /\ c \in Models /\ c.servers = j.servers /\ Alike(c, j) /\ c.cursor = Len(j.servers) - 1
          /\ c.input = j.input /\ c.name = j.name /\ c.secret = j.secret
      BY Zenon, <1>1, <3>1, <3>2, CursorSet
    <3> QED BY <1>1, <2>2, <3>2, <3>3
  <2>3. CASE j.servers # <<>> /\ ~(j.cursor >= Len(j.servers))
    <3>1. c = j
      BY Zenon, <2>3 DEF Clamped
    <3>2. j.cursor \in Nat
      BY Zenon, <1>1 DEF Models
    <3> HIDE DEF c
    <3> QED BY <1>1, <1>2, <2>3, <3>1, <3>2 DEF Alike
  <2> QED BY <2>1, <2>2, <2>3
<1>4. /\ w \in Models /\ w.servers = msg.servers /\ Alike(w, j)
      /\ w.input = k.input /\ w.name = k.name /\ w.secret = k.secret /\ w.cursor = c.cursor
      /\ w.selection = "manual" => w.selected \in Range(w.servers)
  <2> HIDE DEF j, c
  <2>1. CASE c.selection = "manual" /\ c.selected \notin Range(c.servers)
    <3>1. w = [c EXCEPT !.selection = "auto", !.selected = NoServer]
      BY Zenon, <2>1 DEF Reconciled
    <3>2. NoServer \in Identifiers
      BY DEF Identifiers
    <3> HIDE DEF w
    <3> QED BY Zenon, <1>3, <3>1, <3>2, SelectionSet DEF Alike
  <2>2. CASE ~(c.selection = "manual" /\ c.selected \notin Range(c.servers))
    BY Zenon, <1>3, <2>2 DEF Reconciled
  <2> QED BY Zenon, <2>1, <2>2
<1>5. w = WithServers(k, msg)
  BY Zenon DEF WithServers
<1> HIDE DEF j, c, w
<1>6. Fits(w)
  BY Zenon, <1>3, <1>4 DEF Fits
<1> QED BY Zenon, <1>1, <1>4, <1>5, <1>6 DEF Alike

\* moveCursor: around both ends and never off the list.
LEMMA MovedFits ==
    ASSUME NEW k, Fits(k), NEW delta \in {1, -1}
    PROVE  Fits(Moved(k, delta)) /\ Alike(Moved(k, delta), k) /\ Moved(k, delta).input = k.input
<1> DEFINE n == Len(k.servers)
           at == (k.cursor + delta + n) % n
           w == Moved(k, delta)
<1>0. k \in Models
  BY Zenon DEF Fits
<1>1. CASE k.servers = <<>>
  <2>1. w = [k EXCEPT !.cursor = 0]
    BY Zenon, <1>1 DEF Moved
  <2>2. 0 \in Nat /\ 0 \in 0..0
    BY SMT
  <2> HIDE DEF w
  <2>3. /\ w \in Models /\ w.cursor = 0 /\ Alike(w, k)
        /\ w.servers = k.servers /\ w.input = k.input /\ w.name = k.name /\ w.secret = k.secret
        /\ w.selection = k.selection /\ w.selected = k.selected
    BY Zenon, <1>0, <2>1, <2>2, CursorSet
  <2>4. Fits(w) /\ Alike(w, k) /\ w.input = k.input
    BY Zenon, <1>1, <2>2, <2>3 DEF Fits
  <2> QED BY Zenon, <2>4 DEF w
<1>2. CASE k.servers # <<>>
  <2>1. n \in Nat /\ n > 0 /\ k.cursor \in 0..(n - 1)
    BY Zenon, <1>2, Positions DEF Fits, Models
  <2>2. w = [k EXCEPT !.cursor = at]
    BY Zenon, <1>2 DEF Moved
  <2> HIDE DEF n, w
  <2>3. at \in 0..(n - 1)
    BY <2>1
  <2> HIDE DEF at
  <2>4. at \in Nat
    BY <2>1, <2>3
  <2>5. /\ w \in Models /\ w.cursor = at /\ Alike(w, k)
        /\ w.servers = k.servers /\ w.input = k.input /\ w.name = k.name /\ w.secret = k.secret
        /\ w.selection = k.selection /\ w.selected = k.selected
    BY Zenon, <1>0, <2>2, <2>4, CursorSet
  <2>6. at \in 0..(Len(k.servers) - 1)
    BY Zenon, <2>3 DEF n
  <2>7. Fits(w) /\ Alike(w, k) /\ w.input = k.input
    BY Zenon, <1>2, <2>5, <2>6 DEF Fits
  <2> QED BY Zenon, <2>7 DEF w
<1> QED BY Zenon, <1>1, <1>2

\* What is typed fits its field (appendRunesWithinBytes), and so does what is
\* left of it.
LEMMA TextFits ==
    ASSUME NEW t \in Seq(Chars), Len(t) <= MaxText, NEW c \in Chars
    PROVE  /\ Typed(t, c) \in Seq(Chars) /\ Len(Typed(t, c)) <= MaxText
           /\ LET f == IF t = <<>> THEN t ELSE Front(t) IN f \in Seq(Chars) /\ Len(f) <= MaxText
<1>1. Typed(t, c) \in Seq(Chars) /\ Len(Typed(t, c)) <= MaxText
  BY TuiAssumption DEF Typed
<1>2. CASE t = <<>>
  BY <1>1, <1>2
<1>3. CASE t # <<>>
  <2>1. Len(t) \in Nat \ {0} /\ \A i \in 1..Len(t) : t[i] \in Chars
    BY <1>3, EmptySeq, ElementOfSeq
  <2>2. \A i \in 1..(Len(t) - 1) : t[i] \in Chars
    BY <2>1
  <2>3. Front(t) \in Seq(Chars) /\ Len(Front(t)) = IF 1 <= Len(t) - 1 THEN (Len(t) - 1) - 1 + 1 ELSE 0
    BY <2>1, <2>2, SubSeqProperties DEF Front
  <2>4. Len(Front(t)) <= MaxText
    BY <2>1, <2>3, TuiAssumption
  <2> QED BY <1>1, <1>3, <2>3, <2>4
<1> QED BY <1>2, <1>3

\* Assigning the input and its fields.
LEMMA InputSet ==
    ASSUME NEW k \in Models, NEW i \in {"none", "name", "url"},
           NEW a \in Seq(Chars), NEW b \in Seq(Chars)
    PROVE  LET w == [k EXCEPT !.input = i, !.name = a, !.secret = b] IN
           /\ w \in Models /\ w.input = i /\ w.name = a /\ w.secret = b /\ Alike(w, k)
           /\ w.servers = k.servers /\ w.selection = k.selection /\ w.selected = k.selected
           /\ w.cursor = k.cursor
BY Zenon DEF Models, Alike

\* cancelInput forgets both fields.
LEMMA CancelFits ==
    ASSUME NEW k, Fits(k)
    PROVE  Fits(CancelInput(k)) /\ Alike(CancelInput(k), k) /\ CancelInput(k).input = "none"
<1> DEFINE w == CancelInput(k)
<1>0. PICK e : e = <<>>
  OBVIOUS
<1>1. w = [k EXCEPT !.input = "none", !.name = e, !.secret = e]
  BY Zenon, <1>0 DEF CancelInput
<1>2. k \in Models
  BY Zenon DEF Fits
<1>3. e \in Seq(Chars) /\ Len(e) <= MaxText /\ "none" \in {"none", "name", "url"}
  BY TuiAssumption, EmptySeq, <1>0
<1> HIDE DEF w
<1>4. /\ w \in Models /\ w.input = "none" /\ w.name = e /\ w.secret = e /\ Alike(w, k)
      /\ w.servers = k.servers /\ w.selection = k.selection /\ w.selected = k.selected
      /\ w.cursor = k.cursor
  BY Zenon, <1>1, <1>2, <1>3 DEF Models, Alike
<1>5. Fits(w) /\ Alike(w, k) /\ w.input = "none"
  BY Zenon, <1>0, <1>3, <1>4 DEF Fits
<1> QED BY Zenon, <1>5 DEF w

-----------------------------------------------------------------------------
(* How the commands that run and the messages that wait change.               *)

\* A command goes on, or ends in a message of its kind and generation: there is
\* still one action and one snapshot at most.
LEMMA Exchange ==
    ASSUME TuiInv, NEW c \in flight, NEW e, e.kind = c.kind, e.gen = c.gen,
           flight' \cup mail' = ((flight \cup mail) \ {c}) \cup {e}, UNCHANGED <<m, program>>
    PROVE  BusyInv' /\ (Running({"snapshot"})' # {} => Running({"snapshot"}) # {})
<1> USE DEF AtMostOne
<1>1. ASSUME NEW K
      PROVE  /\ c.kind \notin K => Running(K)' = Running(K)
             /\ c.kind \in K => c \in Running(K) /\ Running(K)' = (Running(K) \ {c}) \cup {e}
  BY Zenon DEF Running
<1>2. c.kind \in Actions => Running(Actions)' = (Running(Actions) \ {c}) \cup {e} /\ c \in Running(Actions)
  BY Zenon, <1>1
<1>3. c.kind \notin Actions => Running(Actions)' = Running(Actions)
  BY Zenon, <1>1
<1>4. \A x \in Running(Actions)' : x.gen # 0
  BY Zenon, <1>2, <1>3 DEF TuiInv, BusyInv
<1>5. AtMostOne(Running({"snapshot"}))' /\ (Running({"snapshot"})' # {} => Running({"snapshot"}) # {})
  BY Zenon, <1>1 DEF TuiInv, BusyInv
<1>6. ASSUME program = "running"
      PROVE  /\ \A x, y \in Running(Actions)' : x = y
             /\ m.busy <=> Running(Actions)' # {}
             /\ \A x \in Running(Actions)' : x.gen = m.gen
  <2>1. /\ \A x, y \in Running(Actions) : x = y
        /\ m.busy <=> Running(Actions) # {}
        /\ \A x \in Running(Actions) : x.gen = m.gen
    BY Zenon, <1>6 DEF TuiInv, BusyInv
  <2> QED BY Zenon, <2>1, <1>2, <1>3
<1>7. m'.input # "none" => ~m'.busy
  BY Zenon DEF TuiInv, BusyInv
<1>8. program' = "running" =>
        /\ AtMostOne(Running(Actions))'
        /\ m'.busy <=> Running(Actions)' # {}
        /\ \A x \in Running(Actions)' : x.gen = m'.gen
  BY Zenon, <1>6
<1> QED BY Zenon, <1>4, <1>5, <1>7, <1>8 DEF BusyInv

\* A message is processed: it was the only one of its sort.
LEMMA Arrival ==
    ASSUME TuiInv, program = "running", NEW msg \in mail, Take(msg), UNCHANGED flight
    PROVE  /\ msg.kind = "snapshot" =>
                Running(Actions)' = Running(Actions) /\ Running({"snapshot"})' = {}
           /\ msg.kind # "snapshot" =>
                /\ msg.kind \in Actions /\ msg \in Running(Actions) /\ msg.gen = m.gen /\ m.gen # 0
                /\ Running(Actions)' = {} /\ Running({"snapshot"})' = Running({"snapshot"})
<1>1. msg \notin flight /\ msg \in Messages
  BY Zenon, CommandsAreNoMessages DEF TuiInv, TypeInv
<1>2. msg.kind \in Sorts /\ "snapshot" \notin Actions
  BY Zenon, <1>1 DEF Messages, Actions, ListActions
<1>3. flight' \cup mail' = (flight \cup mail) \ {msg}
  BY Zenon, <1>1 DEF Take
<1>4. ASSUME NEW K
      PROVE  /\ msg.kind \notin K => Running(K)' = Running(K)
             /\ msg.kind \in K => msg \in Running(K) /\ Running(K)' = Running(K) \ {msg}
  BY Zenon, <1>3 DEF Running
<1>5. CASE msg.kind = "snapshot"
  <2>1. Running(Actions)' = Running(Actions)
    BY Zenon, <1>2, <1>4, <1>5
  <2>2. msg \in Running({"snapshot"}) /\ Running({"snapshot"})' = Running({"snapshot"}) \ {msg}
    BY Zenon, <1>4, <1>5
  <2>3. Running({"snapshot"})' = {}
    BY Zenon, <2>2 DEF TuiInv, BusyInv, AtMostOne
  <2> QED BY Zenon, <1>5, <2>1, <2>3
<1>6. CASE msg.kind # "snapshot"
  <2>1. msg.kind \in Actions
    BY Zenon, <1>2, <1>6 DEF Sorts
  <2>2. msg \in Running(Actions) /\ Running(Actions)' = Running(Actions) \ {msg}
    BY Zenon, <1>4, <2>1
  <2>3. Running({"snapshot"})' = Running({"snapshot"})
    BY Zenon, <1>4, <1>6
  <2>4. msg.gen = m.gen /\ msg.gen # 0 /\ Running(Actions)' = {}
    BY Zenon, <2>2 DEF TuiInv, BusyInv, AtMostOne
  <2> QED BY Zenon, <1>6, <2>1, <2>2, <2>3, <2>4
<1> QED BY Zenon, <1>5, <1>6

\* Every version is one of the lists.
LEMMA ListOfVersion ==
    ASSUME NEW v \in Versions, v # 0
    PROVE  Lists[v] \in ServerLists
<1>1. Len(Lists) \in Nat /\ DOMAIN Lists = 1..Len(Lists)
  BY Zenon, ListsAre
<1>2. v \in DOMAIN Lists
  BY <1>1 DEF Versions
<1> QED BY Zenon, <1>2 DEF ServerLists

\* msg is what c ends in, of a list and a session of these versions.
Tells(msg, c, err, at, statusAt) ==
    /\ msg \in Messages /\ msg.kind = c.kind /\ msg.gen = c.gen /\ msg.err = err
    /\ msg.at = at /\ msg.statusAt = statusAt

\* The message of a command tells of the list and the session it was given.
LEMMA MessageIs ==
    ASSUME NEW c \in Commands, NEW err \in BOOLEAN, NEW listed \in Versions, NEW seen,
           seen.status \in DaemonStates \cup {""}, seen.at \in Nat
    PROVE  Tells(Message(c, err, listed, seen), c, err, listed, seen.at)
<1> DEFINE list == IF listed = 0 THEN <<>> ELSE Lists[listed]
<1>1. list \in ServerLists
  <2>1. CASE listed = 0
    BY Zenon, <2>1 DEF ServerLists
  <2>2. CASE listed # 0
    BY Zenon, <2>2, ListOfVersion
  <2> QED BY Zenon, <2>1, <2>2
<1>2. PICK msg : msg = Message(c, err, listed, seen)
  OBVIOUS
<1>3. msg = [kind |-> c.kind, gen |-> c.gen, err |-> err, servers |-> list, at |-> listed,
             status |-> seen.status, statusAt |-> seen.at]
  BY Zenon, <1>2 DEF Message
<1>4. c.kind \in Sorts /\ c.gen \in 0..MaxGen
  BY Zenon DEF Commands
<1> HIDE DEF list
<1>5. /\ msg.kind = c.kind /\ msg.gen = c.gen /\ msg.err = err
      /\ msg.at = listed /\ msg.statusAt = seen.at
  BY Zenon, <1>3
<1>6. msg \in Messages
  BY Zenon, <1>1, <1>3, <1>4 DEF Messages
<1>7. Tells(msg, c, err, listed, seen.at)
  BY Zenon, <1>5, <1>6 DEF Tells
<1> QED BY Zenon, <1>2, <1>7

\* What other processes and the calls of a command do to the world: lists and
\* sessions only get newer.
LEMMA WorldGrows ==
    ASSUME world \in Worlds, NEW w \in Later \cup Session \cup {world}
    PROVE  w \in Worlds /\ world.version <= w.version /\ world.epoch <= w.epoch
<1>0. /\ world.version \in Versions \ {0} /\ world.epoch \in Nat /\ world.daemon \in DaemonStates
      /\ Len(Lists) \in Nat
  BY ListsAre DEF Worlds
<1>1. CASE w \in Later
  <2>1. /\ w \in [version : world.version..Len(Lists), daemon : {world.daemon}, epoch : {world.epoch}]
    BY Zenon, <1>1 DEF Later
  <2>2. w.version \in world.version..Len(Lists) /\ w.daemon = world.daemon /\ w.epoch = world.epoch
        /\ w = [version |-> w.version, daemon |-> w.daemon, epoch |-> w.epoch]
    BY <2>1
  <2>3. w.version \in Versions \ {0} /\ world.version <= w.version /\ world.epoch <= w.epoch
    BY <1>0, <2>2 DEF Versions
  <2> QED BY <1>0, <2>2, <2>3 DEF Worlds
<1>2. CASE w \in Session
  <2>1. PICK d \in DaemonStates : w = [world EXCEPT !.daemon = d, !.epoch = @ + 1]
    BY Zenon, <1>2 DEF Session
  <2>2. world.epoch + 1 \in Nat /\ world.version <= world.version /\ world.epoch <= world.epoch + 1
    BY <1>0 DEF Versions
  <2>3. w.daemon = d /\ w.epoch = world.epoch + 1 /\ w.version = world.version
        /\ w = [version |-> w.version, daemon |-> w.daemon, epoch |-> w.epoch]
    BY Zenon, <2>1 DEF Worlds
  <2> QED BY <1>0, <2>2, <2>3 DEF Worlds
<1>3. CASE w = world
  BY <1>0, <1>3 DEF Versions
<1> QED BY Zenon, <1>1, <1>2, <1>3

-----------------------------------------------------------------------------
(* The steps.                                                                 *)

\* A key that starts no action changes nothing that a command has to do with.
LEMMA QuietStep ==
    ASSUME TuiInv, Fits(m'), Alike(m', m), m'.input # "none" => ~m'.busy,
           UNCHANGED <<flight, mail, world>>, program' = "running" => program = "running"
    PROVE  TuiInv'
<1>1. m' \in Models
  BY Zenon DEF Fits
<1>2. TypeInv'
  BY Zenon, <1>1 DEF TuiInv, TypeInv
<1>3. FitInv'
  BY Zenon, <1>1, FitsThen
<1>4. \A K : Running(K)' = Running(K)
  BY Zenon DEF Running
<1>5. Running(Actions)' = Running(Actions) /\ Running({"snapshot"})' = Running({"snapshot"})
  BY Zenon, <1>4
<1>6. m'.gen = m.gen /\ m'.busy = m.busy /\ m'.at = m.at /\ m'.statusAt = m.statusAt
  BY Zenon DEF Alike
<1>7. BusyInv'
  BY Zenon, <1>5, <1>6 DEF TuiInv, BusyInv, AtMostOne
<1>8. ShownInv'
  BY Zenon, <1>5, <1>6 DEF TuiInv, ShownInv
<1> QED BY Zenon, <1>2, <1>3, <1>7, <1>8 DEF TuiInv

\* startAction: the model was idle, and the command is the only action.
LEMMA StartStep ==
    ASSUME TuiInv, program = "running", ~m.busy, NEW k, Fits(k), Alike(k, m), k.input = "none",
           NEW kind \in Actions, NEW target \in Identifiers \cup {AutoTarget},
           StartAction(k, kind, target), UNCHANGED <<mail, world, program>>
    PROVE  TuiInv' /\ m'.at = m.at /\ m'.statusAt = m.statusAt
<1> DEFINE g == k.gen + 1
           cmd == Command(kind, g, target)
<1>0. k \in Models /\ k.gen \in 0..MaxGen /\ k.gen < MaxGen
  BY Zenon DEF Fits, Models, StartAction
<1>1. g \in 0..MaxGen /\ g # 0
  BY <1>0, TuiAssumption
<1>2. m' = [k EXCEPT !.gen = g, !.busy = TRUE] /\ flight' = flight \cup {cmd}
  BY Zenon DEF StartAction
<1> HIDE DEF g
<1>3. /\ m' \in Models /\ m'.gen = g /\ m'.busy = TRUE /\ m'.at = k.at /\ m'.statusAt = k.statusAt
      /\ m'.input = k.input /\ m'.name = k.name /\ m'.secret = k.secret /\ m'.servers = k.servers
      /\ m'.selection = k.selection /\ m'.selected = k.selected /\ m'.cursor = k.cursor
  BY Zenon, <1>0, <1>1, <1>2 DEF Models
<1>4. FitInv'
  <2>1. Fits(m')
    BY Zenon, <1>3 DEF Fits
  <2> QED BY Zenon, <1>3, <2>1, FitsThen
<1>5. kind # "snapshot" /\ "snapshot" \notin Actions /\ 0 \in Versions
  BY ListsAre DEF Actions, ListActions, Versions
<1>6. cmd = [kind |-> kind, gen |-> g, target |-> target, step |-> "work", at |-> 0]
  BY Zenon, <1>5 DEF Command
<1> HIDE DEF cmd
<1>7. cmd \in Commands /\ cmd.kind = kind /\ cmd.gen = g /\ cmd.step = "work" /\ cmd.at = 0
  BY Zenon, <1>1, <1>5, <1>6 DEF Commands, Sorts
<1>8. TypeInv'
  <2>1. /\ flight' \subseteq Commands /\ mail' \subseteq Messages /\ world' \in Worlds
    BY Zenon, <1>2, <1>7 DEF TuiInv, TypeInv
  <2>2. \A c \in flight' : c.step # "work" => c.kind \in ListActions \cup {"snapshot"}
    BY Zenon, <1>2, <1>7 DEF TuiInv, TypeInv
  <2>3. \A c \in flight' : c.step = "status" => c.kind = "snapshot"
    BY Zenon, <1>2, <1>7 DEF TuiInv, TypeInv
  <2> QED BY Zenon, <1>3, <2>1, <2>2, <2>3 DEF TypeInv
<1>9. Running(Actions) = {}
  BY Zenon DEF TuiInv, BusyInv
<1>10. Running(Actions)' = {cmd} /\ Running({"snapshot"})' = Running({"snapshot"})
  <2>1. flight' \cup mail' = (flight \cup mail) \cup {cmd}
    BY Zenon, <1>2
  <2>2. Running(Actions)' = Running(Actions) \cup {cmd}
    BY Zenon, <1>7, <2>1 DEF Running
  <2>3. Running({"snapshot"})' = Running({"snapshot"})
    BY Zenon, <1>5, <1>7, <2>1 DEF Running
  <2> QED BY Zenon, <1>9, <2>2, <2>3
<1>11. BusyInv'
  BY Zenon, <1>1, <1>3, <1>7, <1>10 DEF TuiInv, BusyInv, AtMostOne
<1>12. m'.at = m.at /\ m'.statusAt = m.statusAt
  BY Zenon, <1>3 DEF Alike
<1>13. ShownInv'
  <2>1. 0 <= world.version
    BY DEF TuiInv, TypeInv, Worlds, Versions
  <2> QED BY Zenon, <1>1, <1>2, <1>3, <1>7, <1>12, <2>1 DEF TuiInv, ShownInv
<1> QED BY Zenon, <1>4, <1>8, <1>11, <1>13, <1>12 DEF TuiInv

\* Inequalities chain.
LEMMA Chain == \A a, b, c \in Int : a <= b /\ b <= c => a <= c
OBVIOUS

\* Whatever was no newer than the world is no newer than a later one.
LEMMA StillOlder ==
    ASSUME TuiInv, world' \in Worlds, world.version <= world'.version, world.epoch <= world'.epoch
    PROVE  /\ m.at <= world'.version /\ m.statusAt <= world'.epoch
           /\ \A c \in flight : c.at <= world'.version
           /\ \A msg \in mail : msg.at <= world'.version /\ msg.statusAt <= world'.epoch
<1>1. Versions \subseteq Int /\ Nat \subseteq Int
  BY ListsAre DEF Versions
<1>2. world.version \in Int /\ world'.version \in Int /\ world.epoch \in Int /\ world'.epoch \in Int
  BY Zenon, <1>1 DEF TuiInv, TypeInv, Worlds
<1>3. m.at \in Int /\ m.statusAt \in Int
  BY Zenon, <1>1 DEF TuiInv, TypeInv, Models
<1>4. \A c \in flight : c.at \in Int
  BY Zenon, <1>1 DEF TuiInv, TypeInv, Commands
<1>5. \A msg \in mail : msg.at \in Int /\ msg.statusAt \in Int
  BY Zenon, <1>1 DEF TuiInv, TypeInv, Messages
<1> QED BY Zenon, <1>2, <1>3, <1>4, <1>5, Chain DEF TuiInv, ShownInv

\* A command ends in its message.  If it tells of a list or of a session, it
\* tells of the one there is now.
LEMMA AnswerStep ==
    ASSUME TuiInv, NEW c \in flight, NEW msg \in Messages, Answer(c, msg),
           msg.kind = c.kind, msg.gen = c.gen, UNCHANGED <<m, program>>,
           world' \in Worlds, world.version <= world'.version, world.epoch <= world'.epoch,
           msg.at <= world'.version, msg.statusAt <= world'.epoch,
           msg.kind \in Actions /\ ~msg.err =>
              IF msg.kind \in ListActions THEN msg.at = world'.version ELSE msg.statusAt = world'.epoch
    PROVE  TuiInv'
<1>1. c \notin mail
  BY Zenon, CommandsAreNoMessages DEF TuiInv, TypeInv
<1>2. flight' = flight \ {c} /\ mail' = mail \cup {msg}
  BY Zenon DEF Answer
<1>3. flight' \cup mail' = ((flight \cup mail) \ {c}) \cup {msg}
  BY Zenon, <1>1, <1>2
<1>4. BusyInv' /\ (Running({"snapshot"})' # {} => Running({"snapshot"}) # {})
  BY Zenon, <1>3, Exchange
<1>5. TypeInv'
  BY Zenon, <1>2 DEF TuiInv, TypeInv
<1>6. FitInv'
  BY Zenon DEF TuiInv, FitInv, PointsAtServers, InputForgotten
<1>7. ShownInv'
  <2>1. /\ m.at <= world'.version /\ m.statusAt <= world'.epoch
        /\ \A d \in flight : d.at <= world'.version
        /\ \A x \in mail : x.at <= world'.version /\ x.statusAt <= world'.epoch
    BY Zenon, StillOlder
  <2>2. m'.at <= world'.version /\ m'.statusAt <= world'.epoch
    BY Zenon, <2>1
  <2>3. /\ \A d \in flight' : d.at <= world'.version
        /\ \A x \in mail' : x.at <= world'.version /\ x.statusAt <= world'.epoch
    BY Zenon, <1>2, <2>1
  <2>4. ASSUME program' = "running"
        PROVE  /\ m'.gen = 0 /\ Running({"snapshot"})' # {} => m'.at = 0 /\ m'.statusAt = 0
               /\ \A x \in mail' : x.kind \in Actions /\ ~x.err =>
                    IF x.kind \in ListActions THEN m'.at <= x.at ELSE m'.statusAt <= x.statusAt
    <3>1. m'.gen = 0 /\ Running({"snapshot"})' # {} => m'.at = 0 /\ m'.statusAt = 0
      BY Zenon, <1>4, <2>4 DEF TuiInv, ShownInv
    <3>2. \A x \in mail : x.kind \in Actions /\ ~x.err =>
             IF x.kind \in ListActions THEN m'.at <= x.at ELSE m'.statusAt <= x.statusAt
      BY Zenon, <2>4 DEF TuiInv, ShownInv
    <3>3. msg.kind \in Actions /\ ~msg.err =>
             IF msg.kind \in ListActions THEN m'.at <= msg.at ELSE m'.statusAt <= msg.statusAt
      BY Zenon, <2>2
    <3> QED BY Zenon, <1>2, <3>1, <3>2, <3>3
  <2> QED BY Zenon, <2>2, <2>3, <2>4 DEF ShownInv
<1> QED BY Zenon, <1>4, <1>5, <1>6, <1>7 DEF TuiInv

\* A command goes on with its next call.
LEMMA ContinueStep ==
    ASSUME TuiInv, NEW c \in flight, NEW d \in Commands, Continue(c, d), UNCHANGED <<m, program>>,
           d.kind = c.kind, d.gen = c.gen, d.kind \in ListActions \cup {"snapshot"},
           d.step = "status" => d.kind = "snapshot",
           world' \in Worlds, world.version <= world'.version, world.epoch <= world'.epoch,
           d.at <= world'.version
    PROVE  TuiInv'
<1>1. c \notin mail
  BY Zenon, CommandsAreNoMessages DEF TuiInv, TypeInv
<1>2. flight' = (flight \ {c}) \cup {d} /\ mail' = mail
  BY Zenon DEF Continue
<1>3. flight' \cup mail' = ((flight \cup mail) \ {c}) \cup {d}
  BY Zenon, <1>1, <1>2
<1>4. BusyInv' /\ (Running({"snapshot"})' # {} => Running({"snapshot"}) # {})
  BY Zenon, <1>3, Exchange
<1>5. TypeInv'
  <2>1. flight' \subseteq Commands /\ mail' \subseteq Messages /\ m' \in Models
    BY Zenon, <1>2 DEF TuiInv, TypeInv
  <2>2. /\ \A x \in flight' : x.step # "work" => x.kind \in ListActions \cup {"snapshot"}
        /\ \A x \in flight' : x.step = "status" => x.kind = "snapshot"
    BY Zenon, <1>2 DEF TuiInv, TypeInv
  <2> QED BY Zenon, <2>1, <2>2 DEF TypeInv
<1>6. FitInv'
  BY Zenon DEF TuiInv, FitInv, PointsAtServers, InputForgotten
<1>7. ShownInv'
  <2>1. /\ m.at <= world'.version /\ m.statusAt <= world'.epoch
        /\ \A x \in flight : x.at <= world'.version
        /\ \A x \in mail : x.at <= world'.version /\ x.statusAt <= world'.epoch
    BY Zenon, StillOlder
  <2>2. /\ m'.at <= world'.version /\ m'.statusAt <= world'.epoch
        /\ \A x \in flight' : x.at <= world'.version
        /\ \A x \in mail' : x.at <= world'.version /\ x.statusAt <= world'.epoch
    BY Zenon, <1>2, <2>1
  <2>3. program' = "running" =>
          /\ m'.gen = 0 /\ Running({"snapshot"})' # {} => m'.at = 0 /\ m'.statusAt = 0
          /\ \A x \in mail' : x.kind \in Actions /\ ~x.err =>
               IF x.kind \in ListActions THEN m'.at <= x.at ELSE m'.statusAt <= x.statusAt
    BY Zenon, <1>2, <1>4 DEF TuiInv, ShownInv
  <2> QED BY Zenon, <2>2, <2>3 DEF ShownInv
<1> QED BY Zenon, <1>4, <1>5, <1>6, <1>7 DEF TuiInv

\* A command that fails says nothing of the world.
LEMMA ErrorStep ==
    ASSUME TuiInv, NEW c \in flight, Answer(c, Message(c, TRUE, 0, NotSeen)), UNCHANGED <<m, program>>,
           world' \in Worlds, world.version <= world'.version, world.epoch <= world'.epoch
    PROVE  TuiInv'
<1>1. c \in Commands
  BY Zenon DEF TuiInv, TypeInv
<1>2. 0 \in Versions /\ 0 \in Nat /\ 0 <= world'.version /\ 0 <= world'.epoch
  BY ListsAre DEF Versions, Worlds
<1>3. NotSeen.status \in DaemonStates \cup {""} /\ NotSeen.at = 0
  BY Zenon DEF NotSeen
<1>4. PICK msg : msg = Message(c, TRUE, 0, NotSeen) /\ Tells(msg, c, TRUE, 0, NotSeen.at)
  BY Zenon, <1>1, <1>2, <1>3, MessageIs
<1>5. /\ msg \in Messages /\ msg.kind = c.kind /\ msg.gen = c.gen /\ msg.err = TRUE
      /\ msg.at = 0 /\ msg.statusAt = 0
  BY Zenon, <1>3, <1>4 DEF Tells
<1>6. Answer(c, msg)
  BY Zenon, <1>4
<1> QED BY Zenon, <1>2, <1>5, <1>6, AnswerStep

\* A command makes its next call (adapter.go).
LEMMA BackendStep ==
    ASSUME TuiInv, NEW c \in flight, Backend(c)
    PROVE  TuiInv'
<1>0. UNCHANGED <<m, program>> /\ c \in Commands /\ world \in Worlds
  BY Zenon DEF Backend, TuiInv, TypeInv
<1>1. c.kind \in Sorts /\ c.gen \in 0..MaxGen /\ c.at \in Versions
  BY Zenon, <1>0 DEF Commands
<1>2. /\ world.version \in Versions /\ world.epoch \in Nat /\ world.daemon \in DaemonStates
      /\ 0 \in Versions /\ 0 \in Nat /\ 0 <= world.version /\ 0 <= world.epoch
      /\ world.version <= world.version /\ world.epoch <= world.epoch
  BY <1>0, ListsAre DEF Versions, Worlds
<1>3. CASE Work(c)
  <2>1. c.kind \in ListActions /\ c.kind # "snapshot" /\ world' \in Later \cup Session \cup {world}
    BY Zenon, <1>3 DEF Work, ListActions
  <2>2. world' \in Worlds /\ world.version <= world'.version /\ world.epoch <= world'.epoch
    BY Zenon, <1>0, <2>1, WorldGrows
  <2>3. CASE Continue(c, [c EXCEPT !.step = "list"])
    <3>1. PICK d : d = [c EXCEPT !.step = "list"]
      OBVIOUS
    <3>2. d \in Commands /\ d.kind = c.kind /\ d.gen = c.gen /\ d.step = "list" /\ d.at = c.at
      BY Zenon, <1>0, <3>1 DEF Commands
    <3>3. d.at <= world'.version
      BY Zenon, <2>2, <3>2, StillOlder
    <3>4. Continue(c, d)
      BY Zenon, <2>3, <3>1
    <3> QED BY Zenon, <1>0, <2>1, <2>2, <3>2, <3>3, <3>4, ContinueStep
  <2>4. CASE Answer(c, Message(c, TRUE, 0, NotSeen))
    BY Zenon, <1>0, <2>2, <2>4, ErrorStep
  <2> QED BY Zenon, <1>3, <2>3, <2>4 DEF Work
<1>4. CASE ListServers(c)
  <2>0. world' = world /\ c.step = "list"
    BY Zenon, <1>4 DEF ListServers
  <2>1. c.kind \in ListActions \cup {"snapshot"}
    BY Zenon, <2>0 DEF TuiInv, TypeInv
  <2>2. CASE c.kind = "snapshot" /\ Continue(c, [c EXCEPT !.step = "status", !.at = world.version])
    <3>1. PICK d : d = [c EXCEPT !.step = "status", !.at = world.version]
      OBVIOUS
    <3>2. d \in Commands /\ d.kind = c.kind /\ d.gen = c.gen /\ d.step = "status" /\ d.at = world.version
      BY Zenon, <1>0, <1>2, <3>1 DEF Commands
    <3>3. Continue(c, d)
      BY Zenon, <2>2, <3>1
    <3> QED BY Zenon, <1>0, <1>2, <2>0, <2>2, <3>2, <3>3, ContinueStep
  <2>3. CASE c.kind # "snapshot" /\ Answer(c, Message(c, FALSE, world.version, NotSeen))
    <3>1. NotSeen.status \in DaemonStates \cup {""} /\ NotSeen.at = 0
      BY Zenon DEF NotSeen
    <3>2. PICK msg : /\ msg = Message(c, FALSE, world.version, NotSeen)
                     /\ Tells(msg, c, FALSE, world.version, NotSeen.at)
      BY Zenon, <1>0, <1>2, <3>1, MessageIs
    <3>3. /\ msg \in Messages /\ msg.kind = c.kind /\ msg.gen = c.gen
          /\ msg.at = world.version /\ msg.statusAt = 0
      BY Zenon, <3>1, <3>2 DEF Tells
    <3>4. Answer(c, msg) /\ msg.kind \in ListActions
      BY Zenon, <2>1, <2>3, <3>2, <3>3
    <3> QED BY Zenon, <1>0, <1>2, <2>0, <3>3, <3>4, AnswerStep
  <2>4. CASE Answer(c, Message(c, TRUE, 0, NotSeen))
    BY Zenon, <1>0, <1>2, <2>0, <2>4, ErrorStep
  <2> QED BY Zenon, <1>4, <2>2, <2>3, <2>4 DEF ListServers
<1>5. CASE ReadStatus(c)
  <2>0. world' = world /\ c.step = "status"
    BY Zenon, <1>5 DEF ReadStatus
  <2>1. c.kind = "snapshot" /\ c.at <= world.version
    BY Zenon, <2>0 DEF TuiInv, TypeInv, ShownInv
  <2>2. "snapshot" \notin Actions
    BY Zenon DEF Actions, ListActions
  <2>3. PICK err \in BOOLEAN, seen \in {Seen(world), [NotSeen EXCEPT !.status = "failed"]} :
           Answer(c, Message(c, err, c.at, seen))
    BY Zenon, <1>5 DEF ReadStatus
  <2>4. seen.status \in DaemonStates \cup {""} /\ seen.at \in Nat /\ seen.at <= world.epoch
    <3>1. CASE seen = Seen(world)
      <4>1. seen.status = world.daemon /\ seen.at = world.epoch
        BY Zenon, <3>1 DEF Seen
      <4> QED BY Zenon, <1>2, <4>1
    <3>2. CASE seen = [NotSeen EXCEPT !.status = "failed"]
      <4>1. seen.status = "failed" /\ seen.at = 0
        BY Zenon, <3>2 DEF NotSeen
      <4> QED BY Zenon, <1>2, <4>1 DEF DaemonStates
    <3> QED BY Zenon, <2>3, <3>1, <3>2
  <2>5. PICK msg : msg = Message(c, err, c.at, seen) /\ Tells(msg, c, err, c.at, seen.at)
    BY Zenon, <1>0, <1>1, <2>4, MessageIs
  <2>6. /\ msg \in Messages /\ msg.kind = c.kind /\ msg.gen = c.gen
        /\ msg.at = c.at /\ msg.statusAt = seen.at
    BY Zenon, <2>5 DEF Tells
  <2>7. Answer(c, msg)
    BY Zenon, <2>3, <2>5
  <2> QED BY Zenon, <1>0, <1>2, <2>0, <2>1, <2>2, <2>4, <2>6, <2>7, AnswerStep
<1>6. CASE ChangeSession(c)
  <2>0. c.kind \in {"connect", "disconnect"} /\ world' \in Later \cup Session \cup {world}
    BY Zenon, <1>6 DEF ChangeSession
  <2>1. c.kind \notin ListActions
    BY Zenon, <2>0 DEF ListActions
  <2>2. world' \in Worlds /\ world.version <= world'.version /\ world.epoch <= world'.epoch
    BY Zenon, <1>0, <2>0, WorldGrows
  <2>3. CASE Answer(c, Message(c, FALSE, 0, Seen(world')))
    <3>1. PICK seen : seen = Seen(world')
      OBVIOUS
    <3>2. world'.epoch \in Nat /\ world'.daemon \in DaemonStates /\ 0 <= world'.version
          /\ world'.epoch <= world'.epoch
      BY <2>2, ListsAre DEF Worlds, Versions
    <3>3. seen.status \in DaemonStates \cup {""} /\ seen.at = world'.epoch
      BY Zenon, <3>1, <3>2 DEF Seen
    <3>4. PICK msg : msg = Message(c, FALSE, 0, seen) /\ Tells(msg, c, FALSE, 0, seen.at)
      BY Zenon, <1>0, <1>2, <3>2, <3>3, MessageIs
    <3>5. /\ msg \in Messages /\ msg.kind = c.kind /\ msg.gen = c.gen
          /\ msg.at = 0 /\ msg.statusAt = seen.at
      BY Zenon, <3>4 DEF Tells
    <3>6. Answer(c, msg)
      BY Zenon, <2>3, <3>1, <3>4
    <3> QED BY Zenon, <1>0, <2>1, <2>2, <3>2, <3>3, <3>5, <3>6, AnswerStep
  <2>4. CASE Answer(c, Message(c, TRUE, 0, NotSeen))
    BY Zenon, <1>0, <2>2, <2>4, ErrorStep
  <2> QED BY Zenon, <1>6, <2>3, <2>4 DEF ChangeSession
<1> QED BY Zenon, <1>3, <1>4, <1>5, <1>6 DEF Backend

\* Another process changes the servers or the session.
LEMMA OthersStep ==
    ASSUME TuiInv, Others
    PROVE  TuiInv'
<1>1. world' \in Later \cup Session \cup {world} /\ UNCHANGED <<m, flight, mail, program>> /\ world \in Worlds
  BY Zenon DEF Others, TuiInv, TypeInv
<1>2. world' \in Worlds /\ world.version <= world'.version /\ world.epoch <= world'.epoch
  BY Zenon, <1>1, WorldGrows
<1>3. TypeInv' /\ FitInv'
  BY Zenon, <1>1, <1>2 DEF TuiInv, TypeInv, FitInv, PointsAtServers, InputForgotten
<1>4. Running(Actions)' = Running(Actions) /\ Running({"snapshot"})' = Running({"snapshot"})
  BY Zenon, <1>1 DEF Running
<1>5. BusyInv'
  BY Zenon, <1>1, <1>4 DEF TuiInv, BusyInv
<1>6. /\ m.at <= world'.version /\ m.statusAt <= world'.epoch
      /\ \A c \in flight : c.at <= world'.version
      /\ \A msg \in mail : msg.at <= world'.version /\ msg.statusAt <= world'.epoch
  BY Zenon, <1>2, StillOlder
<1>7. ShownInv'
  BY Zenon, <1>1, <1>4, <1>6 DEF TuiInv, ShownInv
<1> QED BY Zenon, <1>3, <1>5, <1>7 DEF TuiInv

\* What NeverShowsOlder says of a step.
NotOlder ==
    /\ m'.at # 0 => m'.at >= m.at
    /\ m'.statusAt # 0 => m'.statusAt >= m.statusAt

\* A number is not less than itself or than zero.
LEMMA Least == ASSUME NEW n \in Nat PROVE n >= n /\ n >= 0
OBVIOUS

\* Versions count from zero.
LEMMA ShownTypes ==
    ASSUME TuiInv
    PROVE  m.at \in Nat /\ m.statusAt \in Nat /\ \A msg \in mail : msg.at \in Nat /\ msg.statusAt \in Nat
<1>1. Versions \subseteq Nat
  BY ListsAre DEF Versions
<1> QED BY Zenon, <1>1 DEF TuiInv, TypeInv, Models, Messages

\* Update of a snapshotMsg: only before the first action does it change what is
\* shown, and then nothing has been shown.
LEMMA SnapshotStep ==
    ASSUME TuiInv, SnapshotArrives
    PROVE  TuiInv' /\ NotOlder
<1>0. program = "running" /\ UNCHANGED <<flight, world, program>>
  BY Zenon DEF SnapshotArrives
<1>1. PICK msg \in mail :
        /\ msg.kind = "snapshot" /\ Take(msg)
        /\ m' = IF m.gen # 0 THEN m
                ELSE [WithServers(m, msg) EXCEPT !.status = msg.status, !.statusAt = msg.statusAt]
  BY Zenon DEF SnapshotArrives
<1>2. Running(Actions)' = Running(Actions) /\ Running({"snapshot"})' = {}
  BY Zenon, <1>0, <1>1, Arrival
<1>3. mail' = mail \ {msg} /\ msg \in Messages /\ m \in Models /\ Fits(m)
  BY Zenon, <1>1, FitsIs DEF Take, TuiInv, TypeInv
<1>4. m.at \in Nat /\ m.statusAt \in Nat /\ msg.at \in Nat /\ msg.statusAt \in Nat
  BY Zenon, <1>1, ShownTypes
<1>5. CASE m.gen # 0
  <2>1. m' = m
    BY Zenon, <1>1, <1>5
  <2>2. TypeInv' /\ FitInv'
    BY Zenon, <1>0, <1>3, <2>1 DEF TuiInv, TypeInv, FitInv, PointsAtServers, InputForgotten
  <2>3. BusyInv'
    BY Zenon, <1>0, <1>2, <2>1 DEF TuiInv, BusyInv, AtMostOne
  <2>4. ShownInv'
    BY Zenon, <1>0, <1>2, <1>3, <2>1 DEF TuiInv, ShownInv
  <2>5. NotOlder
    BY Zenon, <1>4, <2>1, Least DEF NotOlder
  <2> QED BY Zenon, <2>2, <2>3, <2>4, <2>5 DEF TuiInv
<1>6. CASE m.gen = 0
  <2>0. PICK w : w = WithServers(m, msg)
    OBVIOUS
  <2>1. /\ Fits(w) /\ w.at = msg.at
        /\ w.gen = m.gen /\ w.busy = m.busy /\ w.input = m.input
    BY Zenon, <1>3, <2>0, ServersFit
  <2>2. m' = [w EXCEPT !.status = msg.status, !.statusAt = msg.statusAt]
    BY Zenon, <1>1, <1>6, <2>0
  <2>3. msg.status \in DaemonStates \cup {""} /\ msg.statusAt \in Nat /\ w \in Models
    BY Zenon, <1>3, <2>1 DEF Messages, Fits
  <2>4. /\ m' \in Models /\ m'.at = w.at /\ m'.statusAt = msg.statusAt
        /\ m'.gen = w.gen /\ m'.busy = w.busy /\ m'.input = w.input
        /\ m'.name = w.name /\ m'.secret = w.secret /\ m'.servers = w.servers
        /\ m'.selection = w.selection /\ m'.selected = w.selected /\ m'.cursor = w.cursor
    BY Zenon, <2>2, <2>3 DEF Models
  <2>5. Fits(m')
    BY Zenon, <2>1, <2>4 DEF Fits
  <2>6. FitInv'
    BY Zenon, <2>4, <2>5, FitsThen
  <2>7. TypeInv'
    BY Zenon, <1>0, <1>3, <2>4 DEF TuiInv, TypeInv
  <2>8. m'.at = msg.at /\ m'.statusAt = msg.statusAt /\ m'.gen = m.gen /\ m'.busy = m.busy /\ m'.input = m.input
    BY Zenon, <2>1, <2>4
  <2>9. BusyInv'
    BY Zenon, <1>0, <1>2, <2>8 DEF TuiInv, BusyInv, AtMostOne
  <2>10. \A x \in mail : x.kind \notin Actions
    <3>1. Running(Actions) = {}
      BY Zenon, <1>0, <1>6 DEF TuiInv, BusyInv
    <3> QED BY Zenon, <3>1 DEF Running
  <2>11. ShownInv'
    <3>1. m'.at <= world'.version /\ m'.statusAt <= world'.epoch
      BY Zenon, <1>0, <2>8 DEF TuiInv, ShownInv
    <3> QED BY Zenon, <1>0, <1>2, <1>3, <2>10, <3>1 DEF TuiInv, ShownInv
  <2>12. NotOlder
    <3>1. msg \in Running({"snapshot"})
      BY Zenon, <1>1 DEF Running
    <3>2. m.at = 0 /\ m.statusAt = 0
      BY Zenon, <1>0, <1>6, <3>1 DEF TuiInv, ShownInv
    <3> QED BY Zenon, <1>4, <2>8, <3>2, Least DEF NotOlder
  <2> QED BY Zenon, <2>6, <2>7, <2>9, <2>11, <2>12 DEF TuiInv
<1> QED BY Zenon, <1>5, <1>6

\* Update of an actionResultMsg: the result of the one action there is.
LEMMA ResultStep ==
    ASSUME TuiInv, ResultArrives
    PROVE  TuiInv' /\ NotOlder
<1>0. program = "running" /\ UNCHANGED <<flight, world, program>>
  BY Zenon DEF ResultArrives
<1>1. PICK idle : idle = [m EXCEPT !.busy = FALSE]
  OBVIOUS
<1>2. PICK msg \in mail :
        /\ msg.kind # "snapshot" /\ Take(msg)
        /\ m' = IF msg.gen # m.gen THEN m
                ELSE IF msg.err THEN idle
                ELSE IF msg.kind \in ListActions THEN WithServers(idle, msg)
                ELSE [idle EXCEPT !.status = msg.status, !.statusAt = msg.statusAt]
  BY Zenon, <1>1 DEF ResultArrives
<1>3. /\ msg.kind \in Actions /\ msg.gen = m.gen /\ m.gen # 0
      /\ Running(Actions)' = {} /\ Running({"snapshot"})' = Running({"snapshot"})
  BY Zenon, <1>0, <1>2, Arrival
<1>4. mail' = mail \ {msg} /\ msg \in Messages /\ m \in Models /\ Fits(m)
  BY Zenon, <1>2, FitsIs DEF Take, TuiInv, TypeInv
<1>5. /\ Fits(idle) /\ idle \in Models /\ idle.at = m.at /\ idle.statusAt = m.statusAt
      /\ idle.gen = m.gen /\ idle.busy = FALSE
  <2>1. /\ idle \in Models /\ idle.at = m.at /\ idle.statusAt = m.statusAt
        /\ idle.gen = m.gen /\ idle.busy = FALSE /\ idle.input = m.input
        /\ idle.name = m.name /\ idle.secret = m.secret /\ idle.servers = m.servers
        /\ idle.selection = m.selection /\ idle.selected = m.selected /\ idle.cursor = m.cursor
    BY Zenon, <1>1, <1>4 DEF Models
  <2> QED BY Zenon, <1>4, <2>1 DEF Fits
<1>6. m.at \in Nat /\ m.statusAt \in Nat /\ msg.at \in Nat /\ msg.statusAt \in Nat
  BY Zenon, <1>2, ShownTypes
<1>7. SUFFICES /\ Fits(m') /\ m'.gen = m.gen /\ m'.busy = FALSE /\ NotOlder
               /\ m'.at <= world.version /\ m'.statusAt <= world.epoch
  <2>0. ASSUME Fits(m'), m'.gen = m.gen, m'.busy = FALSE, NotOlder,
               m'.at <= world.version, m'.statusAt <= world.epoch
        PROVE  TuiInv'
    <3>1. m' \in Models /\ FitInv'
      BY Zenon, <2>0, FitsThen DEF Fits
    <3>2. TypeInv'
      BY Zenon, <1>0, <1>4, <3>1 DEF TuiInv, TypeInv
    <3>3. BusyInv'
      BY Zenon, <1>0, <1>3, <2>0 DEF TuiInv, BusyInv, AtMostOne
    <3>4. \A x \in mail' : x.kind \notin Actions
      BY Zenon, <1>3 DEF Running
    <3>5. ShownInv'
      BY Zenon, <1>0, <1>3, <1>4, <2>0, <3>4 DEF TuiInv, ShownInv
    <3> QED BY Zenon, <3>1, <3>2, <3>3, <3>5 DEF TuiInv
  <2> QED BY Zenon, <2>0
<1>8. m.at <= world.version /\ m.statusAt <= world.epoch /\ msg.at <= world.version /\ msg.statusAt <= world.epoch
  BY Zenon, <1>2 DEF TuiInv, ShownInv
<1>9. CASE msg.err
  <2>1. m' = idle
    BY Zenon, <1>2, <1>3, <1>9
  <2>2. NotOlder
    BY Zenon, <1>5, <1>6, <2>1, Least DEF NotOlder
  <2> QED BY Zenon, <1>5, <1>8, <2>1, <2>2
<1>10. CASE ~msg.err /\ msg.kind \in ListActions
  <2>0. PICK w : w = WithServers(idle, msg)
    OBVIOUS
  <2>1. /\ Fits(w) /\ w.at = msg.at
        /\ w.gen = idle.gen /\ w.busy = idle.busy /\ w.statusAt = idle.statusAt
    BY Zenon, <1>4, <1>5, <2>0, ServersFit
  <2>2. m' = w
    BY Zenon, <1>2, <1>3, <1>10, <2>0
  <2>3. m.at <= msg.at
    BY Zenon, <1>0, <1>2, <1>3, <1>10 DEF TuiInv, ShownInv
  <2>4. m'.at >= m.at /\ m'.statusAt >= m.statusAt
    BY <1>5, <1>6, <2>1, <2>2, <2>3
  <2> QED BY Zenon, <1>5, <1>8, <2>1, <2>2, <2>4 DEF NotOlder
<1>11. CASE ~msg.err /\ msg.kind \notin ListActions
  <2>1. m' = [idle EXCEPT !.status = msg.status, !.statusAt = msg.statusAt]
    BY Zenon, <1>2, <1>3, <1>11
  <2>2. msg.status \in DaemonStates \cup {""} /\ msg.statusAt \in Nat
    BY Zenon, <1>4 DEF Messages
  <2>3. /\ m' \in Models /\ m'.at = idle.at /\ m'.statusAt = msg.statusAt
        /\ m'.gen = idle.gen /\ m'.busy = idle.busy /\ m'.input = idle.input
        /\ m'.name = idle.name /\ m'.secret = idle.secret /\ m'.servers = idle.servers
        /\ m'.selection = idle.selection /\ m'.selected = idle.selected /\ m'.cursor = idle.cursor
    BY Zenon, <1>5, <2>1, <2>2 DEF Models
  <2>4. Fits(m')
    BY Zenon, <1>5, <2>3 DEF Fits
  <2>5. m.statusAt <= msg.statusAt
    BY Zenon, <1>0, <1>2, <1>3, <1>11 DEF TuiInv, ShownInv
  <2>6. m'.at >= m.at /\ m'.statusAt >= m.statusAt
    BY <1>5, <1>6, <2>3, <2>5
  <2> QED BY Zenon, <1>5, <1>8, <2>3, <2>4, <2>6 DEF NotOlder
<1> QED BY Zenon, <1>9, <1>10, <1>11

\* The model is replaced by one like it, and no command is started.
LEMMA LikeStep ==
    ASSUME TuiInv, program = "running", NEW k, Fits(k), Alike(k, m), k.input # "none" => ~k.busy,
           m' = k, UNCHANGED <<flight, mail, world>>
    PROVE  TuiInv' /\ NotOlder
<1>1. TuiInv'
  BY Zenon, QuietStep
<1>2. m'.at = m.at /\ m'.statusAt = m.statusAt /\ m.at \in Nat /\ m.statusAt \in Nat
  BY Zenon, ShownTypes DEF Alike
<1> QED BY Zenon, <1>1, <1>2, Least DEF NotOlder

\* An action is started from a model that is idle.
LEMMA StartLike ==
    ASSUME TuiInv, program = "running", ~m.busy, NEW k, Fits(k), Alike(k, m), k.input = "none",
           NEW kind \in Actions, NEW target \in Identifiers \cup {AutoTarget},
           StartAction(k, kind, target), UNCHANGED <<mail, world, program>>
    PROVE  TuiInv' /\ NotOlder
<1>1. TuiInv' /\ m'.at = m.at /\ m'.statusAt = m.statusAt
  BY Zenon, StartStep
<1>2. m.at \in Nat /\ m.statusAt \in Nat
  BY Zenon, ShownTypes
<1> QED BY Zenon, <1>1, <1>2, Least DEF NotOlder

\* updateKey outside of an input field.
LEMMA PlainKeyStep ==
    ASSUME TuiInv, program = "running", NEW key, PlainKey(key), UNCHANGED <<mail, world>>
    PROVE  TuiInv' /\ NotOlder
<1>0. m \in Models /\ Fits(m) /\ Alike(m, m) /\ m.input = "none" /\ NoServer \in Identifiers
  <2>1. NoServer \in Identifiers
    BY DEF Identifiers
  <2> QED BY Zenon, <2>1, FitsIs DEF TuiInv, TypeInv, PlainKey, Alike
<1>1. CASE UNCHANGED <<m, flight>>
  BY Zenon, <1>0, <1>1, LikeStep
<1>2. CASE key = "down" /\ m' = Moved(m, 1) /\ UNCHANGED flight
  <2>1. 1 \in {1, -1}
    OBVIOUS
  <2>2. Fits(Moved(m, 1)) /\ Alike(Moved(m, 1), m) /\ Moved(m, 1).input = m.input
    BY Zenon, <1>0, <2>1, MovedFits
  <2> QED BY Zenon, <1>0, <1>2, <2>2, LikeStep
<1>3. CASE key = "up" /\ m' = Moved(m, -1) /\ UNCHANGED flight
  <2>1. -1 \in {1, -1}
    OBVIOUS
  <2>2. Fits(Moved(m, -1)) /\ Alike(Moved(m, -1), m) /\ Moved(m, -1).input = m.input
    BY Zenon, <1>0, <2>1, MovedFits
  <2> QED BY Zenon, <1>0, <1>3, <2>2, LikeStep
<1>4. ASSUME NEW how \in {"auto", "manual"}, NEW id \in Identifiers, how = "manual" => id \in Range(m.servers),
             m' = [m EXCEPT !.selection = how, !.selected = id], UNCHANGED flight
      PROVE  TuiInv' /\ NotOlder
  <2>1. PICK k : k = [m EXCEPT !.selection = how, !.selected = id]
    OBVIOUS
  <2>2. /\ k \in Models /\ k.selection = how /\ k.selected = id /\ Alike(k, m)
        /\ k.servers = m.servers /\ k.input = m.input /\ k.name = m.name /\ k.secret = m.secret
        /\ k.cursor = m.cursor
    BY Zenon, <1>0, <2>1 DEF Models, Alike
  <2>3. Fits(k)
    BY Zenon, <1>0, <1>4, <2>2 DEF Fits
  <2>4. m' = k
    BY Zenon, <1>4, <2>1
  <2> QED BY Zenon, <1>0, <1>4, <2>2, <2>3, <2>4, LikeStep
<1>5. CASE /\ key = "enter" /\ UNCHANGED flight
           /\ m' = IF m.servers = <<>> THEN m
                   ELSE [m EXCEPT !.selection = "manual", !.selected = m.servers[m.cursor + 1]]
  <2>1. CASE m.servers = <<>>
    BY Zenon, <1>1, <1>5, <2>1
  <2>2. CASE m.servers # <<>>
    <3>1. m.servers \in ServerLists /\ m.cursor \in 0..(Len(m.servers) - 1)
      BY Zenon, <1>0, <2>2 DEF Fits, Models
    <3>2. m.servers[m.cursor + 1] \in Range(m.servers)
      BY Zenon, <3>1, Positions
    <3>3. m.servers[m.cursor + 1] \in Identifiers
      BY Zenon, <3>1, <3>2, ListsAre
    <3>4. m' = [m EXCEPT !.selection = "manual", !.selected = m.servers[m.cursor + 1]]
      BY Zenon, <1>5, <2>2
    <3> QED BY Zenon, <1>4, <1>5, <3>2, <3>3, <3>4
  <2> QED BY Zenon, <2>1, <2>2
<1>6. CASE key = "a" /\ m' = [m EXCEPT !.selection = "auto", !.selected = NoServer] /\ UNCHANGED flight
  BY Zenon, <1>0, <1>4, <1>6
<1>7. CASE key = "m" /\ m' = [m EXCEPT !.mode = IF m.mode = "tun" THEN "proxy" ELSE "tun"] /\ UNCHANGED flight
  <2>1. PICK mode \in {"tun", "proxy"} : mode = IF m.mode = "tun" THEN "proxy" ELSE "tun"
    BY Zenon
  <2>2. /\ m' \in Models /\ m'.selection = m.selection /\ m'.selected = m.selected /\ Alike(m', m)
        /\ m'.servers = m.servers /\ m'.input = m.input /\ m'.name = m.name /\ m'.secret = m.secret
        /\ m'.cursor = m.cursor
    BY Zenon, <1>0, <1>7, <2>1 DEF Models, Alike
  <2>3. Fits(m')
    BY Zenon, <1>0, <2>2 DEF Fits
  <2> QED BY Zenon, <1>0, <1>7, <2>2, <2>3, LikeStep
<1>8. CASE /\ key = "r" /\ UNCHANGED flight
           /\ m' = [m EXCEPT !.route = CASE m.route = "global" -> "rule"
                                         [] m.route = "rule" -> "direct"
                                         [] m.route = "direct" -> "global"]
  <2>0. m.route \in {"global", "rule", "direct"}
    BY Zenon, <1>0 DEF Models
  <2>1. PICK route \in {"global", "rule", "direct"} :
           route = CASE m.route = "global" -> "rule"
                     [] m.route = "rule" -> "direct"
                     [] m.route = "direct" -> "global"
    BY <2>0
  <2>2. m' = [m EXCEPT !.route = route]
    BY Zenon, <1>8, <2>1
  <2>3. /\ m' \in Models /\ m'.selection = m.selection /\ m'.selected = m.selected /\ Alike(m', m)
        /\ m'.servers = m.servers /\ m'.input = m.input /\ m'.name = m.name /\ m'.secret = m.secret
        /\ m'.cursor = m.cursor
    BY Zenon, <1>0, <2>2 DEF Models, Alike
  <2>4. Fits(m')
    BY Zenon, <1>0, <2>3 DEF Fits
  <2> QED BY Zenon, <1>0, <1>8, <2>3, <2>4, LikeStep
<1>9. ASSUME ~m.busy
      PROVE  /\ key = "n" /\ m' = [m EXCEPT !.input = "name", !.name = <<>>, !.secret = <<>>] /\ UNCHANGED flight
                => TuiInv' /\ NotOlder
             /\ \A kind \in Actions, target \in Identifiers \cup {AutoTarget} :
                   StartAction(m, kind, target) /\ UNCHANGED program => TuiInv' /\ NotOlder
  <2>1. ASSUME key = "n", m' = [m EXCEPT !.input = "name", !.name = <<>>, !.secret = <<>>], UNCHANGED flight
        PROVE  TuiInv' /\ NotOlder
    <3>1. m.name = <<>> /\ m.secret = <<>>
      BY Zenon, <1>0 DEF Fits
    <3>2. /\ m' \in Models /\ m'.selection = m.selection /\ m'.selected = m.selected /\ Alike(m', m)
          /\ m'.servers = m.servers /\ m'.input = "name" /\ m'.name = m.name /\ m'.secret = m.secret
          /\ m'.cursor = m.cursor
      <4>1. PICK e : e = <<>>
        OBVIOUS
      <4>2. m' = [m EXCEPT !.input = "name", !.name = e, !.secret = e] /\ m.name = e /\ m.secret = e
        BY Zenon, <2>1, <3>1, <4>1
      <4> QED BY Zenon, <1>0, <4>2 DEF Models, Alike
    <3>3. Fits(m') /\ ~m'.busy
      BY Zenon, <1>0, <1>9, <3>2 DEF Fits, Alike
    <3> QED BY Zenon, <1>0, <2>1, <3>2, <3>3, LikeStep
  <2>2. ASSUME NEW kind \in Actions, NEW target \in Identifiers \cup {AutoTarget},
               StartAction(m, kind, target), UNCHANGED program
        PROVE  TuiInv' /\ NotOlder
    BY Zenon, <1>0, <1>9, <2>2, StartLike
  <2> QED BY Zenon, <2>1, <2>2
<1>10. CASE m.busy /\ isSideEffectKey(key)
  <2>1. UNCHANGED <<m, flight>>
    BY Zenon, <1>10 DEF PlainKey
  <2> QED BY Zenon, <1>1, <2>1
<1>11. CASE ~(m.busy /\ isSideEffectKey(key))
  <2>0. key \in {"n", "u", "l", "c", "d"} => ~m.busy
    BY Zenon, <1>11 DEF isSideEffectKey
  <2>1. /\ "refresh" \in Actions /\ "latency" \in Actions /\ "connect" \in Actions /\ "disconnect" \in Actions
        /\ NoServer \in Identifiers \cup {AutoTarget} /\ Target \in Identifiers \cup {AutoTarget}
    <3>1. m.selected \in Identifiers
      BY Zenon, <1>0 DEF Models
    <3> QED BY Zenon, <1>0, <3>1 DEF Actions, ListActions, Target
  <2>2. CASE UNCHANGED program /\ key \in {"u", "l", "c", "d"}
    <3>1. \/ UNCHANGED <<m, flight>>
          \/ \E kind \in Actions, target \in Identifiers \cup {AutoTarget} : StartAction(m, kind, target)
      BY Zenon, <1>11, <2>1, <2>2 DEF PlainKey
    <3> QED BY Zenon, <1>1, <1>9, <2>0, <2>2, <3>1
  <2>3. CASE ~(UNCHANGED program /\ key \in {"u", "l", "c", "d"})
    <3>1. CASE key = "n"
      BY Zenon, <1>9, <1>11, <2>0, <2>3, <3>1 DEF PlainKey
    <3>2. CASE key # "n"
      BY Zenon, <1>1, <1>2, <1>3, <1>5, <1>6, <1>7, <1>8, <1>11, <2>3, <3>2 DEF PlainKey, Quit
    <3> QED BY Zenon, <3>1, <3>2
  <2> QED BY Zenon, <2>2, <2>3
<1> QED BY Zenon, <1>10, <1>11

\* updateInput: nothing runs while the user types, and what is typed fits.
LEMMA InputKeyStep ==
    ASSUME TuiInv, program = "running", NEW key, InputKey(key), UNCHANGED <<mail, world>>
    PROVE  TuiInv' /\ NotOlder
<1>0. /\ m \in Models /\ Fits(m) /\ Alike(m, m) /\ m.input # "none" /\ ~m.busy
      /\ NoServer \in Identifiers /\ UNCHANGED program
  <2>1. NoServer \in Identifiers
    BY DEF Identifiers
  <2> QED BY Zenon, <2>1, FitsIs DEF TuiInv, TypeInv, BusyInv, InputKey, Alike
<1>1. /\ m.name \in Seq(Chars) /\ m.secret \in Seq(Chars) /\ m.input \in {"none", "name", "url"}
      /\ Len(m.name) <= MaxText /\ Len(m.secret) <= MaxText
  BY Zenon, <1>0 DEF Fits, Models
<1>2. CASE UNCHANGED <<m, flight>>
  BY Zenon, <1>0, <1>2, LikeStep
<1>3. /\ Fits(CancelInput(m)) /\ Alike(CancelInput(m), m) /\ CancelInput(m).input = "none"
  BY Zenon, <1>0, CancelFits
<1>4. CASE m' = CancelInput(m) /\ UNCHANGED flight
  BY Zenon, <1>3, <1>4, LikeStep
<1>5. ASSUME NEW i \in {"name", "url"}, NEW a \in Seq(Chars), Len(a) <= MaxText,
             NEW b \in Seq(Chars), Len(b) <= MaxText,
             m' = [m EXCEPT !.input = i, !.name = a, !.secret = b], UNCHANGED flight
      PROVE  TuiInv' /\ NotOlder
  <2>1. /\ m' \in Models /\ m'.selection = m.selection /\ m'.selected = m.selected /\ Alike(m', m)
        /\ m'.servers = m.servers /\ m'.input = i /\ m'.name = a /\ m'.secret = b
        /\ m'.cursor = m.cursor
    BY Zenon, <1>0, <1>5 DEF Models, Alike
  <2>2. Fits(m') /\ ~m'.busy
    BY Zenon, <1>0, <1>5, <2>1 DEF Fits, Alike
  <2> QED BY Zenon, <1>0, <1>5, <2>1, <2>2, LikeStep
<1>6. m = [m EXCEPT !.input = m.input, !.name = m.name, !.secret = m.secret]
  BY Zenon, <1>0 DEF Models
<1>7. ASSUME m.input = "name", NEW a \in Seq(Chars), Len(a) <= MaxText,
             m' = [m EXCEPT !.name = a], UNCHANGED flight
      PROVE  TuiInv' /\ NotOlder
  <2>1. m' = [m EXCEPT !.input = m.input, !.name = a, !.secret = m.secret]
    BY Zenon, <1>0, <1>7 DEF Models
  <2> QED BY Zenon, <1>0, <1>1, <1>5, <1>7, <2>1
<1>8. ASSUME m.input # "name", NEW b \in Seq(Chars), Len(b) <= MaxText,
             m' = [m EXCEPT !.secret = b], UNCHANGED flight
      PROVE  TuiInv' /\ NotOlder
  <2>1. m' = [m EXCEPT !.input = m.input, !.name = m.name, !.secret = b]
    BY Zenon, <1>0, <1>8 DEF Models
  <2> QED BY Zenon, <1>0, <1>1, <1>5, <1>8, <2>1
<1>9. CASE /\ key = "backspace" /\ UNCHANGED flight
           /\ m' = IF m.input = "name" THEN [m EXCEPT !.name = IF @ = <<>> THEN @ ELSE Front(@)]
                   ELSE [m EXCEPT !.secret = IF @ = <<>> THEN @ ELSE Front(@)]
  <2>0. PICK a : a = IF m.name = <<>> THEN m.name ELSE Front(m.name)
    OBVIOUS
  <2>1. PICK b : b = IF m.secret = <<>> THEN m.secret ELSE Front(m.secret)
    OBVIOUS
  <2>2. "x" \in Chars
    BY Zenon DEF Chars
  <2>3. a \in Seq(Chars) /\ Len(a) <= MaxText /\ b \in Seq(Chars) /\ Len(b) <= MaxText
    BY Zenon, <1>1, <2>0, <2>1, <2>2, TextFits
  <2>4. CASE m.input = "name"
    <3>1. m' = [m EXCEPT !.name = a]
      BY Zenon, <1>9, <2>0, <2>4
    <3> QED BY Zenon, <1>7, <1>9, <2>3, <2>4, <3>1
  <2>5. CASE m.input # "name"
    <3>1. m' = [m EXCEPT !.secret = b]
      BY Zenon, <1>9, <2>1, <2>5
    <3> QED BY Zenon, <1>8, <1>9, <2>3, <2>5, <3>1
  <2> QED BY Zenon, <2>4, <2>5
<1>10. CASE /\ key = "enter" /\ m.input = "name" /\ UNCHANGED flight
            /\ m' = IF Blank(m.name) THEN m ELSE [m EXCEPT !.input = "url"]
  <2>1. CASE Blank(m.name)
    BY Zenon, <1>2, <1>10, <2>1
  <2>2. CASE ~Blank(m.name)
    <3>1. m' = [m EXCEPT !.input = "url", !.name = m.name, !.secret = m.secret]
      BY Zenon, <1>0, <1>10, <2>2 DEF Models
    <3> QED BY Zenon, <1>1, <1>5, <1>10, <3>1
  <2> QED BY Zenon, <2>1, <2>2
<1>11. CASE /\ key = "enter" /\ m.input = "url"
            /\ IF Blank(m.secret) THEN UNCHANGED <<m, flight>> ELSE StartAction(CancelInput(m), "add", NoServer)
  <2>1. CASE Blank(m.secret)
    BY Zenon, <1>2, <1>11, <2>1
  <2>2. CASE ~Blank(m.secret)
    <3>1. "add" \in Actions /\ NoServer \in Identifiers \cup {AutoTarget}
      BY Zenon, <1>0 DEF Actions, ListActions
    <3>2. StartAction(CancelInput(m), "add", NoServer)
      BY Zenon, <1>11, <2>2
    <3> QED BY Zenon, <1>0, <1>3, <3>1, <3>2, StartLike
  <2> QED BY Zenon, <2>1, <2>2
<1>12. CASE /\ key \in {"x", " "} /\ UNCHANGED flight
            /\ m' = IF m.input = "name" THEN [m EXCEPT !.name = Typed(@, key)]
                    ELSE [m EXCEPT !.secret = Typed(@, key)]
  <2>1. key \in Chars
    BY Zenon, <1>12 DEF Chars
  <2>2. /\ Typed(m.name, key) \in Seq(Chars) /\ Len(Typed(m.name, key)) <= MaxText
        /\ Typed(m.secret, key) \in Seq(Chars) /\ Len(Typed(m.secret, key)) <= MaxText
    BY Zenon, <1>1, <2>1, TextFits
  <2>3. CASE m.input = "name"
    <3>1. m' = [m EXCEPT !.name = Typed(m.name, key)]
      BY Zenon, <1>12, <2>3
    <3> QED BY Zenon, <1>7, <1>12, <2>2, <2>3, <3>1
  <2>4. CASE m.input # "name"
    <3>1. m' = [m EXCEPT !.secret = Typed(m.secret, key)]
      BY Zenon, <1>12, <2>4
    <3> QED BY Zenon, <1>8, <1>12, <2>2, <2>4, <3>1
  <2> QED BY Zenon, <2>3, <2>4
<1> QED BY Zenon, <1>4, <1>9, <1>10, <1>11, <1>12 DEF InputKey

\* Every step keeps the invariant and shows nothing older.
LEMMA TuiStep ==
    ASSUME TuiInv, Next
    PROVE  TuiInv' /\ NotOlder
<1>0. m \in Models /\ Fits(m) /\ Alike(m, m) /\ (m.input # "none" => ~m.busy)
  BY Zenon, FitsIs DEF TuiInv, TypeInv, BusyInv, Alike
<1>1. CASE UNCHANGED m /\ TuiInv'
  <2>1. m.at \in Nat /\ m.statusAt \in Nat
    BY Zenon, ShownTypes
  <2> QED BY Zenon, <1>1, <2>1, Least DEF NotOlder
<1>2. CASE SnapshotArrives
  BY Zenon, <1>2, SnapshotStep
<1>3. CASE ResultArrives
  BY Zenon, <1>3, ResultStep
<1>4. CASE Press
  <2>0. program = "running" /\ UNCHANGED <<mail, world>>
    BY Zenon, <1>4 DEF Press
  <2>1. PICK key : (m' = CancelInput(m) /\ Quit) \/ PlainKey(key) \/ InputKey(key)
    BY Zenon, <1>4 DEF Press
  <2>2. CASE m' = CancelInput(m) /\ Quit
    <3>1. Fits(CancelInput(m)) /\ Alike(CancelInput(m), m) /\ CancelInput(m).input = "none"
      BY Zenon, <1>0, CancelFits
    <3>2. UNCHANGED flight
      BY Zenon, <2>2 DEF Quit
    <3> QED BY Zenon, <2>0, <2>2, <3>1, <3>2, LikeStep
  <2>3. CASE PlainKey(key)
    BY Zenon, <2>0, <2>3, PlainKeyStep
  <2>4. CASE InputKey(key)
    BY Zenon, <2>0, <2>4, InputKeyStep
  <2> QED BY Zenon, <2>1, <2>2, <2>3, <2>4
<1>5. CASE Others
  <2>1. UNCHANGED m
    BY Zenon, <1>5 DEF Others
  <2> QED BY Zenon, <1>1, <1>5, <2>1, OthersStep
<1>6. CASE CloseService
  <2>1. UNCHANGED <<m, flight, mail, world>> /\ program' = "closed"
    BY Zenon, <1>6 DEF CloseService
  <2>2. Fits(m') /\ Alike(m', m) /\ (m'.input # "none" => ~m'.busy)
    BY Zenon, <1>0, <2>1
  <2>3. TuiInv'
    BY Zenon, <2>1, <2>2, QuietStep
  <2> QED BY Zenon, <1>1, <2>1, <2>3
<1>7. ASSUME NEW c \in flight, Backend(c)
      PROVE  TuiInv' /\ NotOlder
  <2>1. UNCHANGED m
    BY Zenon, <1>7 DEF Backend
  <2> QED BY Zenon, <1>1, <1>7, <2>1, BackendStep
<1> QED BY Zenon, <1>2, <1>3, <1>4, <1>5, <1>6, <1>7 DEF Next

-----------------------------------------------------------------------------
(* The theorems.                                                              *)

\* The invariant holds when NewModel and its first command start.
LEMMA TuiStart == Init => TuiInv
<1> SUFFICES ASSUME Init PROVE TuiInv
  OBVIOUS
<1> DEFINE c == Command("snapshot", 0, NoServer)
<1>0. /\ 0 \in Versions /\ 1 \in Versions \ {0} /\ 0 \in 0..MaxGen /\ 0 \in Nat /\ 0 <= MaxText
      /\ 0 <= 1 /\ 0 \in 0..0 /\ 1 \in Nat
  BY ListsAre, TuiAssumption DEF Versions
<1>1. <<>> \in ServerLists /\ <<>> \in Seq(Chars) /\ Len(<<>>) = 0 /\ NoServer \in Identifiers
  BY EmptySeq DEF ServerLists, Identifiers
<1>2. /\ m.servers = <<>> /\ m.at = 0 /\ m.status = "disconnected" /\ m.statusAt = 0 /\ m.cursor = 0
      /\ m.selection = "auto" /\ m.input = "none" /\ m.name = <<>> /\ m.secret = <<>>
      /\ m.gen = 0 /\ m.busy = FALSE
  BY Zenon DEF Init
<1>3. m \in Models
  <2>1. PICK e : e = <<>>
    OBVIOUS
  <2>2. m = [servers |-> e, at |-> 0, status |-> "disconnected", statusAt |-> 0, cursor |-> 0,
             selection |-> "auto", selected |-> NoServer, mode |-> "tun", route |-> "global",
             input |-> "none", name |-> e, secret |-> e, gen |-> 0, busy |-> FALSE]
    BY Zenon, <2>1 DEF Init
  <2>3. e \in ServerLists /\ e \in Seq(Chars)
    BY Zenon, <1>1, <2>1
  <2> QED BY Zenon, <1>0, <1>1, <2>2, <2>3 DEF Models, DaemonStates
<1>4. c = [kind |-> "snapshot", gen |-> 0, target |-> NoServer, step |-> "list", at |-> 0]
  BY Zenon DEF Command
<1>5. flight = {c} /\ mail = {} /\ program = "running"
  BY Zenon DEF Init
<1> HIDE DEF c
<1>6. c \in Commands /\ c.kind = "snapshot" /\ c.step = "list" /\ c.at = 0
  BY Zenon, <1>0, <1>1, <1>4 DEF Commands, Sorts
<1>7. world \in Worlds /\ world.version = 1 /\ world.epoch = 1
  <2>1. world \in [version : {1}, daemon : {"disconnected", "connected"}, epoch : {1}]
    BY Zenon DEF Init
  <2> QED BY <1>0, <2>1 DEF Worlds, DaemonStates
<1>8. TypeInv
  BY Zenon, <1>3, <1>5, <1>6, <1>7 DEF TypeInv
<1>9. FitInv
  BY Zenon, <1>0, <1>1, <1>2 DEF FitInv, PointsAtServers, InputForgotten
<1>10. Running(Actions) = {} /\ Running({"snapshot"}) = {c}
  <2>1. "snapshot" \notin Actions
    BY Zenon DEF Actions, ListActions
  <2> QED BY Zenon, <1>5, <1>6, <2>1 DEF Running
<1>11. BusyInv
  BY Zenon, <1>2, <1>10 DEF BusyInv, AtMostOne
<1>12. ShownInv
  BY Zenon, <1>0, <1>2, <1>5, <1>6, <1>7 DEF ShownInv
<1> QED BY Zenon, <1>8, <1>9, <1>11, <1>12 DEF TuiInv

\* The invariant of the interface, for any lists, keys and bounds: every key,
\* every message and every step of a command or of another process keeps it.
THEOREM TuiInvariance == Spec => []TuiInv
<1>1. TuiInv /\ [Next]_vars => TuiInv'
  <2> SUFFICES ASSUME TuiInv, [Next]_vars PROVE TuiInv'
    OBVIOUS
  <2>1. CASE Next
    BY Zenon, <2>1, TuiStep
  <2>2. CASE UNCHANGED vars
    <3>1. UNCHANGED <<m, flight, mail, world, program>>
      BY Zenon, <2>2 DEF vars
    <3>2. Fits(m') /\ Alike(m', m) /\ (m'.input # "none" => ~m'.busy)
      BY Zenon, <3>1, FitsIs DEF TuiInv, TypeInv, BusyInv, Alike
    <3> QED BY Zenon, <3>1, <3>2, QuietStep
  <2> QED BY Zenon, <2>1, <2>2
<1> QED BY TuiStart, <1>1, PTL DEF Spec

\* One action at a time: the model is busy exactly while the command of its last
\* action runs or its result waits (startAction, isSideEffectKey).
THEOREM OneActionAtATime == Spec => []BusyIsOneAction
<1>1. TuiInv => BusyIsOneAction
  <2> SUFFICES ASSUME TuiInv, program = "running"
               PROVE  /\ Cardinality(Running(Actions)) = (IF m.busy THEN 1 ELSE 0)
                      /\ \A c \in Running(Actions) : c.gen = m.gen
    BY Zenon DEF BusyIsOneAction
  <2>1. /\ AtMostOne(Running(Actions)) /\ (m.busy <=> Running(Actions) # {})
        /\ \A c \in Running(Actions) : c.gen = m.gen
    BY Zenon DEF TuiInv, BusyInv
  <2>2. CASE m.busy
    <3>1. PICK c : Running(Actions) = {c}
      BY Zenon, <2>1, <2>2 DEF AtMostOne
    <3>2. Cardinality({c}) = 1
      BY Zenon, FS_Singleton
    <3> QED BY Zenon, <2>1, <2>2, <3>1, <3>2
  <2>3. CASE ~m.busy
    <3>1. Running(Actions) = {}
      BY Zenon, <2>1, <2>3
    <3> QED BY Zenon, <2>1, <2>3, <3>1, FS_EmptySet
  <2> QED BY Zenon, <2>2, <2>3
<1> QED BY <1>1, TuiInvariance, PTL

\* Whatever lists arrive and whatever is typed, the cursor is on a server, a
\* manual selection is in the list, and nothing typed survives its input
\* (clampCursor, reconcileSelection, moveCursor, updateInput, cancelInput).
THEOREM ModelAlwaysFits == Spec => []ModelFits
<1>1. TuiInv => ModelFits
  BY Zenon DEF TuiInv, TypeInv, FitInv, ModelFits, TypeOK, Models
<1> QED BY <1>1, TuiInvariance, PTL

\* Neither a late snapshot nor the result of an earlier action takes the lists
\* or the session that are shown back (Update).
THEOREM ShowsNothingOlder == Spec => NeverShowsOlder
<1>1. TuiInv /\ [Next]_vars =>
        [/\ m'.at # 0 => m'.at >= m.at
         /\ m'.statusAt # 0 => m'.statusAt >= m.statusAt]_vars
  BY Zenon, TuiStep DEF NotOlder
<1> QED BY <1>1, TuiInvariance, PTL DEF Spec, NeverShowsOlder
=============================================================================
