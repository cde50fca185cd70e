---------------------------- MODULE KeyFileProofs ----------------------------
(***************************************************************************)
(* Theorems about KeyFile, for every number of processes, keys and         *)
(* passphrases, and every set of keys that begin like a seal.              *)
(***************************************************************************)
EXTENDS KeyFile, TLAPS

-----------------------------------------------------------------------------
(* Shapes                                                                  *)

\* What may lie at the path, by its format.
LEMMA ContentsShape ==
  /\ \A c \in Contents : "key" \in DOMAIN c <=> c.format \in {"plain", "sealed"}
  /\ \A c \in Contents : c.format \in {"plain", "sealed"} => c.key \in Keys
  /\ \A c \in Contents : c.format \in {"absent", "empty", "torn", "plain", "sealed"}
  /\ \A c \in Contents : /\ c.format = "absent" <=> c = Absent
                         /\ c.format = "empty" <=> c = Empty
                         /\ c.format = "torn" <=> c = Torn
BY DEF Contents, Absent, Empty, Torn

\* What a key is written as.
LEMMA BytesShape ==
  ASSUME NEW key \in Keys, NEW seal \in Seals
  PROVE  /\ Bytes(key, seal) \in Contents
         /\ Bytes(key, seal).format \in {"plain", "sealed"}
         /\ Bytes(key, seal).key = key
         /\ Overwritten(Empty, Bytes(key, seal)) = Bytes(key, seal)
<1>1. CASE seal = None
  BY <1>1 DEF Bytes, Plain, Contents, Overwritten, Empty
<1>2. CASE seal # None
  BY <1>2 DEF Bytes, Sealed, Seals, Contents, Overwritten, Empty
<1> QED BY <1>1, <1>2

\* The call a process is in, by its place.
LEMMA CallShape ==
  ASSUME NEW c \in Calls
  PROVE  /\ c.pc \in {"idle", "load", "save", "opened", "written", "holding"}
         /\ c.pc \in {"save", "opened", "written"} =>
              /\ c.key \in Keys /\ c.seal \in Seals /\ "key" \in DOMAIN c
              /\ \A pc \in {"save", "opened", "written"} :
                   /\ [c EXCEPT !.pc = pc] \in Calls
                   /\ [c EXCEPT !.pc = pc].pc = pc
                   /\ [c EXCEPT !.pc = pc].key = c.key
                   /\ [c EXCEPT !.pc = pc].seal = c.seal
         /\ c.pc = "holding" => c.key \in Keys /\ "key" \in DOMAIN c
         /\ c.pc = "load" => c.seal \in Seals
         /\ "key" \in DOMAIN c => c.pc \in {"save", "opened", "written", "holding"}
<1>1. CASE c \in [pc : {"load"}, seal : Seals]
  BY <1>1
<1>2. CASE c \in [pc : {"save", "opened", "written"}, key : Keys, seal : Seals]
  BY <1>2 DEF Calls
<1>3. CASE c \in [pc : {"holding"}, key : Keys]
  BY <1>3
<1>4. CASE c = Idle
  BY <1>4 DEF Idle
<1> QED BY <1>1, <1>2, <1>3, <1>4 DEF Calls

-----------------------------------------------------------------------------
(* The inductive invariant                                                 *)

\* Until two saves overlap there is one saver. What it opened is empty, what it
\* wrote is its key, and a key in the file is the one it is about to write.
OneSaver ==
  ~overlapped =>
    \A p \in Savers :
      /\ \A q \in Savers : q = p
      /\ process[p].pc = "opened" => file = Empty
      /\ process[p].pc = "written" => file = Bytes(process[p].key, process[p].seal)
      /\ "key" \in DOMAIN file => file.key = process[p].key

Inv == TypeOK /\ OneSaver /\ SameKeyEveryTime /\ WholeAndPrivate

LEMMA InitInv == Init => Inv
<1> SUFFICES ASSUME Init PROVE Inv
  OBVIOUS
<1>1. Savers = {}
  BY DEF Init, Savers, Idle
<1>2. TypeOK
  BY DEF Init, TypeOK, Contents, Calls, Idle, Absent, Torn
<1> QED BY <1>1, <1>2 DEF Init, Inv, OneSaver, SameKeyEveryTime, WholeAndPrivate

-----------------------------------------------------------------------------
(* The steps                                                               *)

\* What a process may hold or save has been generated, and is a key.
LEMMA KeysKnown ==
  ASSUME TypeOK
  PROVE  /\ \A p \in Processes : process[p] \in Calls
         /\ \A p \in Savers : process[p].key \in generated
         /\ \A p \in Processes : process[p].pc = "holding" => process[p].key \in returned
         /\ "key" \in DOMAIN file => file.key \in generated
         /\ generated \subseteq Keys
<1>1. \A p \in Processes : process[p] \in Calls
  BY DEF TypeOK
<1>2. ASSUME NEW p \in Savers PROVE process[p].key \in generated
  <2>1. "key" \in DOMAIN process[p]
    BY <1>1, CallShape DEF Savers
  <2> QED BY <2>1 DEF TypeOK, Savers
<1> QED BY <1>1, <1>2 DEF TypeOK

\* A step of one process from one call to another, for the type invariant.
LEMMA TypeStep ==
  ASSUME TypeOK, NEW p \in Processes, NEW c \in Calls, Step(p, c),
         "key" \in DOMAIN c => c.key \in generated',
         c.pc = "holding" => c.key \in returned',
         file' \in Contents,
         "key" \in DOMAIN file' => file'.key \in generated',
         file' = Torn => overlapped',
         returned \subseteq returned', returned' \subseteq generated',
         generated \subseteq generated', generated' \subseteq Keys,
         private' \in BOOLEAN, overlapped' \in BOOLEAN, interrupted' \in BOOLEAN
  PROVE  /\ TypeOK'
         /\ process'[p] = c
         /\ \A q \in Processes : q # p => process'[q] = process[q]
<1>1. process' = [process EXCEPT ![p] = c] /\ process \in [Processes -> Calls]
  BY DEF Step, TypeOK
<1>2. process'[p] = c /\ \A q \in Processes : q # p => process'[q] = process[q]
  BY <1>1
<1>3. process' \in [Processes -> Calls]
  BY <1>1
<1>4. ASSUME NEW q \in Processes
      PROVE  /\ "key" \in DOMAIN process'[q] => process'[q].key \in generated'
             /\ process'[q].pc = "holding" => process'[q].key \in returned'
  <2>1. CASE q = p BY <1>2, <2>1
  <2>2. CASE q # p BY <1>2, <2>2 DEF TypeOK
  <2> QED BY <2>1, <2>2
<1> QED BY <1>2, <1>3, <1>4 DEF TypeOK

\* Calls that carry no key are calls.
LEMMA PlainCalls ==
  /\ Idle \in Calls /\ Idle.pc = "idle" /\ "key" \notin DOMAIN Idle
  /\ \A seal \in Seals : LET c == [pc |-> "load", seal |-> seal]
                         IN c \in Calls /\ c.pc = "load" /\ "key" \notin DOMAIN c
  /\ \A key \in Keys : LET c == [pc |-> "holding", key |-> key]
                       IN c \in Calls /\ c.pc = "holding" /\ c.key = key
  /\ \A key \in Keys, seal \in Seals :
       /\ Saving(key, seal) \in Calls
       /\ Saving(key, seal).pc = "save"
       /\ Saving(key, seal).key = key
BY DEF Idle, Calls, Saving

\* Find, or a Load that raises: nothing but the place of a process that is
\* not saving changes.
LEMMA AsideKeeps ==
  ASSUME Inv, NEW p \in Processes, p \notin Savers, NEW c \in Calls, Step(p, c),
         c.pc \in {"idle", "load"},
         UNCHANGED <<file, private, generated, returned, overlapped, interrupted>>
  PROVE  Inv'
<1> USE DEF Inv
<1>1. /\ TypeOK' /\ process'[p] = c
      /\ \A q \in Processes : q # p => process'[q] = process[q]
  <2>1. "key" \notin DOMAIN c
    BY CallShape
  <2> QED BY <2>1, TypeStep DEF TypeOK
<1>2. Savers' = Savers /\ \A q \in Savers : process'[q] = process[q]
  BY <1>1 DEF Savers
<1>3. OneSaver'
  BY <1>2 DEF OneSaver, Empty, Bytes, Plain, Sealed
<1>4. SameKeyEveryTime'
  BY <1>2 DEF SameKeyEveryTime, Empty
<1>5. WholeAndPrivate'
  BY <1>2 DEF WholeAndPrivate, Absent
<1> QED BY <1>1, <1>3, <1>4, <1>5

LEMMA LoadKeeps ==
  ASSUME Inv, NEW p \in Processes, Load(p)
  PROVE  Inv'
<1> USE DEF Inv
<1>1. p \notin Savers /\ process[p] \in Calls
  BY DEF Load, Savers, TypeOK
<1>2. CASE ~Loads(process[p].seal)
  BY <1>1, <1>2, PlainCalls, AsideKeeps DEF Load, Idle
<1>3. CASE Loads(process[p].seal)
  <2> DEFINE c == [pc |-> "holding", key |-> file.key]
  <2>1. "key" \in DOMAIN file /\ file.key \in generated /\ file.key \in Keys
    BY <1>3, ContentsShape, KeysKnown DEF Loads, Unseals, TypeOK
  <2>2. /\ Step(p, c) /\ returned' = returned \cup {file.key}
        /\ UNCHANGED <<file, private, generated, overlapped, interrupted>>
    BY <1>3 DEF Load, Return
  <2>3. c \in Calls /\ c.pc = "holding" /\ c.key = file.key
    BY <2>1, PlainCalls
  <2> HIDE DEF c
  <2>4. /\ TypeOK' /\ process'[p] = c
        /\ \A q \in Processes : q # p => process'[q] = process[q]
    BY <2>1, <2>2, <2>3, TypeStep DEF TypeOK
  <2>5. Savers' = Savers /\ \A q \in Savers : process'[q] = process[q]
    BY <1>1, <2>3, <2>4 DEF Savers
  <2>6. OneSaver'
    BY <2>2, <2>5 DEF OneSaver, Empty, Bytes, Plain, Sealed
  <2>7. SameKeyEveryTime'
    <3>1. SUFFICES ASSUME ~overlapped
                   PROVE  /\ returned \subseteq {file.key}
                          /\ \A q \in Savers : process[q].key = file.key
      BY <2>1, <2>2, <2>5 DEF SameKeyEveryTime
    <3>2. file # Empty
      BY <2>1 DEF Empty
    <3> QED BY <2>1, <3>1, <3>2 DEF SameKeyEveryTime, OneSaver
  <2>8. WholeAndPrivate'
    BY <2>2, <2>5 DEF WholeAndPrivate, Absent
  <2> QED BY <2>4, <2>6, <2>7, <2>8
<1> QED BY <1>2, <1>3

\* A process begins to save a key, which nobody else is doing unless the saves
\* overlap. The key is new and there is no file, or it has been returned.
LEMMA BeginKeeps ==
  ASSUME Inv, NEW p \in Processes, p \notin Savers, NEW key \in generated',
         NEW seal \in Seals, Step(p, Saving(key, seal)),
         file = Absent \/ key \in returned,
         generated \subseteq generated', generated' \subseteq Keys,
         overlapped' = (overlapped \/ Savers # {}),
         UNCHANGED <<file, private, returned, interrupted>>
  PROVE  Inv'
<1> USE DEF Inv
<1> DEFINE c == Saving(key, seal)
<1>1. key \in Keys /\ c \in Calls /\ c.pc = "save" /\ c.key = key
  BY PlainCalls
<1> HIDE DEF c
<1>2. Step(p, c)
  BY DEF c
<1>3. /\ TypeOK' /\ process'[p] = c
      /\ \A q \in Processes : q # p => process'[q] = process[q]
  BY <1>1, <1>2, TypeStep DEF TypeOK
<1>4. Savers' = Savers \cup {p}
  BY <1>1, <1>3 DEF Savers
<1>5. ASSUME ~overlapped' PROVE ~overlapped /\ Savers = {} /\ Savers' = {p}
  BY <1>4, <1>5
<1>6. file = Absent => "key" \notin DOMAIN file /\ file # Empty
  BY DEF Absent, Empty
<1>7. OneSaver'
  <2>1. SUFFICES ASSUME ~overlapped', "key" \in DOMAIN file
                 PROVE  file.key = key
    BY <1>1, <1>3, <1>5 DEF OneSaver
  <2>2. key \in returned /\ file # Empty
    BY <1>6, <2>1 DEF Empty
  <2> QED BY <1>5, <2>1, <2>2 DEF SameKeyEveryTime
<1>8. SameKeyEveryTime'
  <2>1. SUFFICES ASSUME ~overlapped', NEW k \in returned
                 PROVE  /\ returned = {k}
                        /\ key = k
                        /\ \/ "key" \in DOMAIN file /\ file.key = k
                           \/ file = Empty
    BY <1>1, <1>3, <1>5 DEF SameKeyEveryTime, Empty
  <2> QED BY <1>5, <1>6, <2>1 DEF SameKeyEveryTime
<1>9. WholeAndPrivate'
  BY <1>4 DEF WholeAndPrivate
<1> QED BY <1>3, <1>7, <1>8, <1>9

LEMMA OpenKeeps ==
  ASSUME Inv, NEW p \in Processes, Open(p)
  PROVE  Inv'
<1> USE DEF Inv
<1> DEFINE c == [process[p] EXCEPT !.pc = "opened"]
<1>1. p \in Savers /\ process[p] \in Calls
  BY DEF Open, Savers, TypeOK
<1>2. /\ c \in Calls /\ c.pc = "opened" /\ c.key = process[p].key
      /\ c.key \in generated
  BY <1>1, CallShape, KeysKnown DEF Savers
<1>3. /\ Step(p, c) /\ file' = Empty
      /\ UNCHANGED <<private, generated, returned, overlapped, interrupted>>
  BY DEF Open
<1> HIDE DEF c
<1>4. Empty \in Contents /\ "key" \notin DOMAIN Empty /\ Empty # Torn /\ Empty # Absent
  BY DEF Contents, Empty, Torn, Absent
<1>5. /\ TypeOK' /\ process'[p] = c
      /\ \A q \in Processes : q # p => process'[q] = process[q]
  BY <1>2, <1>3, <1>4, TypeStep DEF TypeOK
<1>6. Savers' = Savers
  BY <1>1, <1>2, <1>5 DEF Savers
<1>7. \A q \in Savers : process'[q].key = process[q].key
  BY <1>2, <1>5 DEF Savers
<1>8. OneSaver'
  BY <1>1, <1>2, <1>3, <1>4, <1>5, <1>6 DEF OneSaver, Empty
<1>9. SameKeyEveryTime'
  BY <1>1, <1>3, <1>6, <1>7 DEF SameKeyEveryTime, Empty
<1>10. WholeAndPrivate'
  BY <1>1, <1>6 DEF WholeAndPrivate
<1> QED BY <1>5, <1>8, <1>9, <1>10

\* One saver writes over what it emptied, two may tear the file.
LEMMA WriteKeeps ==
  ASSUME Inv, NEW p \in Processes, Write(p)
  PROVE  Inv'
<1> USE DEF Inv
<1> DEFINE c == [process[p] EXCEPT !.pc = "written"]
           new == Bytes(process[p].key, process[p].seal)
<1>1. p \in Savers /\ process[p] \in Calls /\ process[p].pc = "opened"
  BY DEF Write, Savers, TypeOK
<1>2. /\ c \in Calls /\ c.pc = "written" /\ c.key = process[p].key
      /\ c.seal = process[p].seal
      /\ c.key \in generated /\ c.key \in Keys /\ c.seal \in Seals
  BY <1>1, CallShape, KeysKnown DEF Savers
<1>3. /\ Step(p, c) /\ file' = Overwritten(file, new)
      /\ UNCHANGED <<private, generated, returned, overlapped, interrupted>>
  BY DEF Write
<1>4. /\ new \in Contents /\ new.key = c.key /\ "key" \in DOMAIN new
      /\ Overwritten(Empty, new) = new
      /\ new = Bytes(c.key, c.seal)
  BY <1>2, BytesShape, ContentsShape
<1> HIDE DEF c, new
<1>5. ~overlapped => file = Empty /\ file' = new /\ Savers = {p}
  BY <1>1, <1>3, <1>4 DEF OneSaver
<1>6. /\ file' \in Contents
      /\ "key" \in DOMAIN file' => file'.key \in generated
      /\ file' = Torn => overlapped
  <2>1. file' = new \/ (file' = Torn /\ overlapped)
    BY <1>3, <1>5 DEF Overwritten
  <2>2. Torn \in Contents /\ "key" \notin DOMAIN Torn
    BY DEF Contents, Torn
  <2>3. new # Torn
    BY <1>4, <2>2
  <2> QED BY <1>2, <1>4, <2>1, <2>2, <2>3
<1>7. /\ TypeOK' /\ process'[p] = c
      /\ \A q \in Processes : q # p => process'[q] = process[q]
  BY <1>2, <1>3, <1>6, TypeStep DEF TypeOK
<1>8. Savers' = Savers
  BY <1>1, <1>2, <1>7 DEF Savers
<1>9. OneSaver'
  <2>1. SUFFICES ASSUME ~overlapped
                 PROVE  file' = Bytes(c.key, c.seal) /\ file'.key = c.key
    BY <1>2, <1>3, <1>5, <1>7, <1>8 DEF OneSaver
  <2> QED BY <1>4, <1>5, <2>1
<1>10. SameKeyEveryTime'
  <2>1. SUFFICES ASSUME ~overlapped, NEW k \in returned
                 PROVE  /\ returned = {k}
                        /\ c.key = k
                        /\ "key" \in DOMAIN file' /\ file'.key = k
    BY <1>3, <1>5, <1>7, <1>8 DEF SameKeyEveryTime
  <2> QED BY <1>1, <1>2, <1>4, <1>5, <2>1 DEF SameKeyEveryTime
<1>11. WholeAndPrivate'
  BY <1>1, <1>8 DEF WholeAndPrivate
<1> QED BY <1>7, <1>9, <1>10, <1>11

LEMMA ChmodKeeps ==
  ASSUME Inv, NEW p \in Processes, Chmod(p)
  PROVE  Inv'
<1> USE DEF Inv
<1> DEFINE key == process[p].key
           c == [pc |-> "holding", key |-> key]
<1>1. p \in Savers /\ process[p].pc = "written" /\ key \in generated
  BY KeysKnown DEF Chmod, Savers
<1>2. key \in Keys /\ process[p].seal \in Seals
  BY <1>1, CallShape DEF TypeOK
<1>3. /\ Step(p, c) /\ private' = TRUE /\ returned' = returned \cup {key}
      /\ UNCHANGED <<file, generated, overlapped, interrupted>>
  BY DEF Chmod, Return
<1>4. c \in Calls /\ c.pc = "holding" /\ c.key = key
  BY <1>2, PlainCalls
<1> HIDE DEF c
<1>5. /\ TypeOK' /\ process'[p] = c
      /\ \A q \in Processes : q # p => process'[q] = process[q]
  BY <1>1, <1>3, <1>4, TypeStep DEF TypeOK
<1>6. Savers' = Savers \ {p}
  BY <1>4, <1>5 DEF Savers
<1>7. ASSUME ~overlapped
      PROVE  /\ Savers = {p} /\ Savers' = {} /\ "key" \in DOMAIN file
             /\ file.key = key /\ file # Empty
  <2>1. Savers = {p} /\ file = Bytes(key, process[p].seal)
    BY <1>1, <1>7 DEF OneSaver
  <2>2. "key" \in DOMAIN file /\ file.key = key
    BY <1>2, <2>1, BytesShape, ContentsShape
  <2> QED BY <1>6, <2>1, <2>2 DEF Empty
<1>8. OneSaver'
  BY <1>3, <1>7 DEF OneSaver
<1>9. SameKeyEveryTime'
  <2>1. ASSUME ~overlapped, NEW k \in returned PROVE k = key
    BY <1>7, <2>1 DEF SameKeyEveryTime
  <2>2. ~overlapped => returned' = {key}
    BY <1>3, <2>1
  <2> QED BY <1>3, <1>7, <2>2 DEF SameKeyEveryTime
<1>10. WholeAndPrivate'
  BY <1>3, <1>7 DEF WholeAndPrivate
<1> QED BY <1>5, <1>8, <1>9, <1>10

\* Whoever stops in a save leaves a file that no other key will fill.
LEMMA StopKeeps ==
  ASSUME Inv, NEW p \in Processes, Stop(p)
  PROVE  Inv'
<1> USE DEF Inv
<1>1. /\ Step(p, Idle) /\ interrupted' = (interrupted \/ p \in Savers)
      /\ UNCHANGED <<file, private, generated, returned, overlapped>>
  BY DEF Stop
<1>2. /\ TypeOK' /\ process'[p] = Idle
      /\ \A q \in Processes : q # p => process'[q] = process[q]
  BY <1>1, PlainCalls, TypeStep DEF TypeOK
<1>3. Savers' = Savers \ {p} /\ \A q \in Savers' : process'[q] = process[q]
  BY <1>2, PlainCalls DEF Savers
<1>4. OneSaver'
  BY <1>1, <1>3 DEF OneSaver, Empty, Bytes, Plain, Sealed
<1>5. SameKeyEveryTime'
  BY <1>1, <1>3 DEF SameKeyEveryTime, Empty
<1>6. WholeAndPrivate'
  BY <1>1, <1>3 DEF WholeAndPrivate, Absent
<1> QED BY <1>2, <1>4, <1>5, <1>6

-----------------------------------------------------------------------------
(* The theorems                                                            *)

LEMMA NextInv == Inv /\ [Next]_vars => Inv'
<1> SUFFICES ASSUME Inv, [Next]_vars PROVE Inv'
  OBVIOUS
<1>1. ASSUME NEW p \in Processes, NEW seal \in Seals, Find(p, seal) PROVE Inv'
  <2>1. p \notin Savers
    BY <1>1 DEF Find, Savers, Idle
  <2> QED BY <1>1, <2>1, PlainCalls, AsideKeeps DEF Find
<1>2. ASSUME NEW p \in Processes, NEW seal \in Seals, SaveAgain(p, seal) PROVE Inv'
  <2>1. p \notin Savers /\ process[p].key \in returned /\ returned \subseteq generated
    BY <1>2 DEF SaveAgain, Savers, Inv, TypeOK
  <2>2. generated \subseteq Keys
    BY DEF Inv, TypeOK
  <2> QED BY <1>2, <2>1, <2>2, BeginKeeps DEF SaveAgain
<1>3. ASSUME NEW p \in Processes, NEW seal \in Seals, NEW key \in Keys,
             Generate(p, key, seal)
      PROVE  Inv'
  <2>1. p \notin Savers
    BY <1>3 DEF Generate, Savers, Idle
  <2>2. generated \subseteq Keys
    BY DEF Inv, TypeOK
  <2> QED BY <1>3, <2>1, <2>2, BeginKeeps DEF Generate
<1>4. CASE UNCHANGED vars
  BY <1>4 DEF Inv, vars, TypeOK, OneSaver, SameKeyEveryTime, WholeAndPrivate, Savers
<1> QED BY <1>1, <1>2, <1>3, <1>4, LoadKeeps, OpenKeeps, WriteKeeps, ChmodKeeps,
           StopKeeps DEF Next

LEMMA Invariance == Spec => []Inv
BY InitInv, NextInv, PTL DEF Spec

\* What a process holds was generated and returned to it, and only overlapping
\* saves tear the file: the three functions of keyfile.py.
THEOREM TypeCorrect == Spec => []TypeOK
<1>1. Inv => TypeOK
  BY DEF Inv
<1> QED BY <1>1, Invariance, PTL

\* "Created on first run, reloaded ever after": however many processes share
\* the file and wherever they stop, load_or_create_keys returns one key only,
\* unless two of them save at once.
THEOREM OneKeyForEver == Spec => []SameKeyEveryTime
<1>1. Inv => SameKeyEveryTime
  BY DEF Inv
<1> QED BY <1>1, Invariance, PTL

\* What save_keys leaves behind is a whole key that only its owner can read.
THEOREM SavedIsWholeAndPrivate == Spec => []WholeAndPrivate
<1>1. Inv => WholeAndPrivate
  BY DEF Inv
<1> QED BY <1>1, Invariance, PTL
=============================================================================
