-------------------------- MODULE StagingToolProofs --------------------------
(***************************************************************************)
(* What TLAPS proves of StagingTool, for any number of resource files of   *)
(* distinct names and of threads, any contents and any time.               *)
(*                                                                         *)
(* The list is right about a file because every entry of it was right when *)
(* the list was written, and what is modified later is not older than its  *)
(* gen-date: a file that is skipped has not changed (ListIsRight).  What   *)
(* is downloaded is what was listed because a run that is not killed takes *)
(* each compressed file from what the list said of it to what the list is  *)
(* going to say (Downloads).                                               *)
(***************************************************************************)
EXTENDS StagingTool, TLAPS

\* The output directory has one compressed file for each name: files that share one
\* are out of what the tool promises.
DistinctNames == \A f, g \in Files : NameOf[f] = NameOf[g] => f = g

\* No resource is modified while the tool runs.
Undisturbed == ~EditsDuringRuns

-----------------------------------------------------------------------------
(* The inductive invariant *)

\* Nothing is dated later than now.
DatesArePast ==
    /\ \A f \in Files : mtime[f] <= clock
    /\ genDate <= clock /\ stamp <= clock

\* An entry of a list with a date is right about the file of its name, if that file
\* was not modified since.
ListIsRight ==
    \A f \in Files, e \in list :
        e.name = NameOf[f] /\ mtime[f] < genDate => e.hash = res[f]

Hashed == {"hashed", "compressing", "compressed"}

\* A run works on the files there are, and on the list there was until it starts to
\* write; what it has hashed and listed so far is what the files have.
Running ==
    /\ pc = "idle" => resources = {} /\ \A f \in Files : stage[f] = "absent"
    /\ pc # "idle" =>
          /\ ~done /\ seen = Files
          /\ \A f \in Files : stage[f] = "absent" <=> res[f] = NoFile
          /\ \A f \in Files : stage[f] \in Hashed => resHash[f] = res[f]
    /\ pc \in {"foreach", "sweep"} => previous = list /\ since \in {0, genDate}
    /\ pc \in {"sweep", "write"} => \A f \in Files : stage[f] \in {"absent", "listed"}
    /\ pc = "write" => list = {}
    /\ \A e \in resources : \E f \in Files :
          stage[f] = "listed" /\ e.name = NameOf[f] /\ e.hash = res[f]
    /\ \A f \in Files : stage[f] = "listed" =>
          \E e \in resources : e.name = NameOf[f] /\ e.hash = res[f]

\* The compressed file of f is no longer what the last list said of it.
Passed(f) == stage[f] \in {"compressing", "compressed", "listed"}

\* In the order a run takes each compressed file: as it was listed, or not there;
\* compressed again; as it is going to be listed.  A run that is killed in between
\* loses the trust.
Downloads ==
    trust =>
        /\ \A e \in list :
              /\ e.dl = e.hash
              /\ (\A f \in Files : NameOf[f] = e.name => ~Passed(f))
                    => lzma[e.name] \in {e.hash, NoFile}
        /\ \A f \in Files : stage[f] = "compressed" => lzma[NameOf[f]] = res[f]
        /\ \A e \in resources : e.dl = e.hash /\ lzma[e.name] = e.hash

-----------------------------------------------------------------------------
(* Types, with what List needs: a file that is listed has been hashed. *)

TypeInv == TypeOK /\ \A f \in Files : stage[f] \in Hashed => resHash[f] # NoFile

LEMMA InitTyped == Init => TypeInv
<1> SUFFICES ASSUME Init PROVE TypeInv OBVIOUS
<1>1. incremental \in BOOLEAN /\ done \in BOOLEAN /\ trust \in BOOLEAN
  BY Zenon DEF Init
<1>2. 1 \in Time BY StagingConstants DEF Time
<1> QED BY <1>1, <1>2 DEF Init, TypeInv, TypeOK, Hashed

\* What a run leaves in memory when it ends is well typed.
LEMMA RestTyped ==
    ASSUME AtRest
    PROVE  /\ pc' = "idle" /\ incremental' \in BOOLEAN /\ since' = 0 /\ previous' = {}
           /\ stage' = [f \in Files |-> "absent"] /\ resHash' = [f \in Files |-> NoFile]
           /\ resources' = {} /\ stamp' = 0
<1>1. incremental' \in BOOLEAN BY Zenon DEF AtRest
<1> QED BY <1>1 DEF AtRest

LEMMA OutsideTyped == ASSUME TypeInv, Admin \/ Tick PROVE TypeInv'
<1> USE DEF TypeInv, TypeOK, main
<1>1. CASE Tick BY <1>1, StagingConstants DEF Tick, outputs, Time
<1>2. CASE Edit BY <1>2 DEF Edit, outputs
<1>3. CASE DeleteLzma BY <1>3 DEF DeleteLzma, sources
<1>4. CASE DeleteList
  <2>1. done' \in BOOLEAN /\ trust' \in BOOLEAN BY <1>4, Zenon DEF DeleteList
  <2> QED BY <1>4, <2>1 DEF DeleteList, sources
<1> QED BY <1>1, <1>2, <1>3, <1>4 DEF Admin

LEMMA StartTyped == ASSUME TypeInv, Start PROVE TypeInv'
<1> USE DEF TypeInv, TypeOK, sources, outputs
<1>1. PICK inc \in BOOLEAN : incremental' = inc /\ since' = IF inc THEN genDate ELSE 0
  BY DEF Start
<1>2. done' \in BOOLEAN BY Zenon DEF Start
<1> QED BY <1>1, <1>2 DEF Start, Hashed

\* The entry that List adds is one.
LEMMA EntryTyped ==
    ASSUME TypeOK, NEW f \in Files, resHash[f] # NoFile, lzma[NameOf[f]] # NoFile
    PROVE  [name |-> NameOf[f], hash |-> resHash[f], dl |-> lzma[NameOf[f]]] \in Entry
BY DEF TypeOK, Entry, Names

LEMMA ProcessTyped ==
    ASSUME TypeInv, NEW f \in Files, Process(f) PROVE TypeInv'
<1> USE DEF Process, TypeInv, TypeOK, sources, Hashed
<1>1. CASE Skip(f) BY <1>1 DEF Skip, Previous
<1>2. CASE HashFile(f) BY <1>2 DEF HashFile
<1>3. CASE Keep(f) BY <1>3 DEF Keep
<1>4. CASE CompressBegin(f) BY <1>4 DEF CompressBegin
<1>5. CASE CompressEnd(f) BY <1>5 DEF CompressEnd
<1>6. CASE List(f) BY <1>6, EntryTyped DEF List
<1> QED BY <1>1, <1>2, <1>3, <1>4, <1>5, <1>6

LEMMA EndTyped ==
    ASSUME TypeInv, AllListed \/ SweepOne \/ WriteBegin \/ WriteEnd \/ Dies
    PROVE  TypeInv'
<1> USE DEF TypeInv, TypeOK, sources, outputs, Hashed
<1>1. CASE AllListed BY <1>1 DEF AllListed
<1>2. CASE SweepOne BY <1>2 DEF SweepOne, Removed, NamesIn, main
<1>3. CASE WriteBegin BY <1>3 DEF WriteBegin
<1>4. CASE WriteEnd
  <2>1. done' \in BOOLEAN BY <1>4, Zenon DEF WriteEnd
  <2> QED BY <1>4, <2>1, RestTyped DEF WriteEnd
<1>5. CASE Dies
  <2>1. trust' \in BOOLEAN BY <1>5, Zenon DEF Dies
  <2> QED BY <1>5, <2>1, RestTyped DEF Dies
<1> QED BY <1>1, <1>2, <1>3, <1>4, <1>5

LEMMA StepTyped == ASSUME TypeInv, [Next]_vars PROVE TypeInv'
<1>1. CASE UNCHANGED vars
  BY <1>1 DEF TypeInv, TypeOK, vars, sources, outputs, main
<1>2. CASE Run
  BY <1>2, StartTyped, ProcessTyped, EndTyped DEF Run
<1>3. CASE Dies \/ Admin \/ Tick
  BY <1>3, EndTyped, OutsideTyped
<1> QED BY <1>1, <1>2, <1>3 DEF Next

\* Every run of the tool keeps to the types, whatever happens to the files under it
\* (app.d:60-268).
THEOREM TypeCorrect == Spec => []TypeOK
<1>1. TypeInv => TypeOK BY DEF TypeInv
<1> QED BY <1>1, InitTyped, StepTyped, PTL DEF Spec

-----------------------------------------------------------------------------
(* The sweep *)

\* In a run, a file that is there and was left alone is on its way to the new list, or is
\* on it under its name.
OnItsWay ==
    /\ pc \in {"foreach", "sweep"} =>
        /\ \A f \in seen : stage[f] = "absent" => res[f] = NoFile
        /\ \A f \in Files : stage[f] = "listed" => NameOf[f] \in NamesIn(resources)
    /\ pc = "sweep" => \A f \in Files : stage[f] \in {"absent", "listed"}

LEMMA StepOnItsWay ==
    ASSUME TypeInv, OnItsWay, [Next]_vars PROVE OnItsWay'
<1> USE DEF TypeInv, TypeOK, sources, outputs, main
<1>1. CASE Start
  BY <1>1 DEF Start, OnItsWay
<1>2. ASSUME NEW f \in Files, Process(f) PROVE OnItsWay'
  <2>1. /\ pc = "foreach" /\ UNCHANGED <<pc, res, seen>>
        /\ \A g \in Files \ {f} : stage'[g] = stage[g]
        /\ stage[f] # "absent" /\ stage'[f] # "absent"
        /\ NamesIn(resources) \subseteq NamesIn(resources')
    BY <1>2 DEF Process, Skip, HashFile, Keep, CompressBegin, CompressEnd, List, NamesIn
  <2>2. stage'[f] = "listed" => NameOf[f] \in NamesIn(resources')
    <3>1. CASE Skip(f)
      BY <3>1 DEF Skip, Previous, NamesIn
    <3>2. CASE List(f)
      <4> DEFINE e == [name |-> NameOf[f], hash |-> resHash[f], dl |-> lzma[NameOf[f]]]
      <4>1. resources' = resources \union {e} /\ e.name = NameOf[f] BY <3>2 DEF List
      <4> HIDE DEF e
      <4> QED BY <4>1 DEF NamesIn
    <3> QED BY <1>2, <3>1, <3>2 DEF Process, HashFile, Keep, CompressBegin, CompressEnd
  <2> QED BY <2>1, <2>2 DEF OnItsWay
<1>3. CASE AllListed \/ SweepOne \/ WriteBegin \/ WriteEnd \/ Dies
  BY <1>3 DEF AllListed, SweepOne, WriteBegin, WriteEnd, Dies, AtRest, OnItsWay
<1>4. CASE Admin \/ Tick
  <2>1. /\ UNCHANGED <<pc, stage, resources>>
        /\ \A f \in seen' : pc # "idle" => f \in seen /\ res'[f] = res[f]
    BY <1>4 DEF Admin, Edit, DeleteLzma, DeleteList, Tick
  <2> QED BY <2>1 DEF OnItsWay
<1>5. CASE UNCHANGED vars
  BY <1>5 DEF vars, OnItsWay
<1> QED BY <1>1, <1>2, <1>3, <1>4, <1>5 DEF Next, Run

\* The sweep takes the compressed file of no resource that is there and was left alone
\* since the run started, whatever is modified or killed meanwhile: such a file has been
\* hashed or skipped, and listed, before the sweep starts (app.d:184-238).
THEOREM SweepIsSafe == Spec => SweepSparesPresent
<1> DEFINE Spares ==
        \A n \in Names : pc = "sweep" /\ lzma[n] # NoFile /\ lzma'[n] = NoFile
            => \A f \in seen : NameOf[f] = n => res[f] = NoFile
<1>1. ASSUME TypeInv, OnItsWay, [Next]_vars PROVE [Spares]_vars
  <2> SUFFICES ASSUME Next, NEW f \in seen, pc = "sweep", lzma[NameOf[f]] # NoFile,
                      lzma'[NameOf[f]] = NoFile
               PROVE  res[f] = NoFile
    BY <1>1
  <2>1. f \in Files BY <1>1 DEF TypeInv, TypeOK
  <2>2. SweepOne
    BY DEF Next, Run, Admin, Start, Process, AllListed, WriteBegin, WriteEnd, Dies, Edit,
           DeleteLzma, DeleteList, Tick, outputs
  <2>3. NameOf[f] \notin NamesIn(resources)
    BY <1>1, <2>1, <2>2 DEF SweepOne, Removed, TypeInv, TypeOK
  <2> QED BY <1>1, <2>1, <2>3 DEF OnItsWay
<1>2. Init => OnItsWay BY DEF Init, OnItsWay
<1> QED BY <1>1, <1>2, InitTyped, StepTyped, StepOnItsWay, PTL DEF Spec, SweepSparesPresent

-----------------------------------------------------------------------------
(* The list is right *)

RightInv == TypeInv /\ DatesArePast /\ ListIsRight /\ Running /\ UpToDate

LEMMA InitRight == Init => RightInv
<1> SUFFICES ASSUME Init PROVE RightInv OBVIOUS
<1>1. TypeInv BY InitTyped
<1>2. DatesArePast /\ ListIsRight BY DEF Init, DatesArePast, ListIsRight
<1>3. Running BY DEF Init, Running
<1>4. UpToDate BY Zenon DEF Init, UpToDate
<1> QED BY <1>1, <1>2, <1>3, <1>4 DEF RightInv

LEMMA TickRight == ASSUME RightInv, Tick PROVE RightInv'
<1> USE DEF RightInv, Tick, outputs, main
<1>1. TypeInv' BY OutsideTyped
<1>2. DatesArePast' BY DEF DatesArePast, TypeInv, TypeOK, Time
<1>3. ListIsRight' BY DEF ListIsRight
<1>4. Running' BY DEF Running
<1>5. UpToDate' BY DEF UpToDate, NamesIn
<1> QED BY <1>1, <1>2, <1>3, <1>4, <1>5

\* What is modified now is not older than the list.
LEMMA EditRight == ASSUME Undisturbed, RightInv, Edit PROVE RightInv'
<1> USE DEF RightInv
<1>1. TypeInv' BY OutsideTyped DEF Admin
<1>2. PICK f \in Files, c \in Content \union {NoFile} :
          /\ res' = [res EXCEPT ![f] = c]
          /\ mtime' = [mtime EXCEPT ![f] = clock]
          /\ seen' = seen \ {f}
  BY DEF Edit
<1>3. pc = "idle" BY DEF Edit, Undisturbed
<1>4. UNCHANGED <<clock, list, genDate, stamp, pc, resources, stage, resHash, done>>
  BY DEF Edit, outputs, main
<1>5. DatesArePast'
  BY <1>2, <1>4 DEF DatesArePast, TypeInv, TypeOK, Time
<1>6. ListIsRight'
  <2> SUFFICES ASSUME NEW g \in Files, NEW e \in list, e.name = NameOf[g],
                      mtime'[g] < genDate
               PROVE  e.hash = res'[g]
    BY <1>4 DEF ListIsRight
  <2>1. g # f BY <1>2 DEF DatesArePast, TypeInv, TypeOK, Time
  <2> QED BY <1>2, <2>1 DEF ListIsRight, TypeInv, TypeOK
<1>7. Running' BY <1>3, <1>4 DEF Running
<1>8. UpToDate'
  <2>1. f \notin seen' /\ seen' # Files BY <1>2
  <2>2. \A g \in seen' : g \in seen /\ res'[g] = res[g]
    BY <1>2, <2>1 DEF TypeInv, TypeOK
  <2> QED BY <1>4, <2>1, <2>2 DEF UpToDate
<1> QED BY <1>1, <1>5, <1>6, <1>7, <1>8

LEMMA DeletionsRight ==
    ASSUME RightInv, DeleteLzma \/ DeleteList PROVE RightInv'
<1> USE DEF RightInv
<1>1. TypeInv' BY OutsideTyped DEF Admin
<1>2. DatesArePast'
  BY DEF DeleteLzma, DeleteList, sources, main, DatesArePast, TypeInv, TypeOK, Time
<1>3. ListIsRight'
  BY DEF DeleteLzma, DeleteList, sources, ListIsRight
<1>4. Running'
  BY DEF DeleteLzma, DeleteList, sources, main, Running
<1>5. UpToDate'
  BY DEF DeleteLzma, DeleteList, sources, main, UpToDate, NamesIn
<1> QED BY <1>1, <1>2, <1>3, <1>4, <1>5

LEMMA StartRight == ASSUME RightInv, Start PROVE RightInv'
<1> USE DEF RightInv, Start, sources, outputs
<1>1. TypeInv' BY StartTyped
<1>2. DatesArePast' BY DEF DatesArePast
<1>3. ListIsRight' BY DEF ListIsRight
<1>4. Running'
  <2>1. since' \in {0, genDate} OBVIOUS
  <2> QED BY <2>1 DEF Running, Hashed
<1>5. UpToDate' BY DEF UpToDate
<1> QED BY <1>1, <1>2, <1>3, <1>4, <1>5

\* An entry that is taken over is right about the file.
LEMMA SkippedIsRight ==
    ASSUME RightInv, pc = "foreach", NEW f \in Files, TooOld(f), NEW e \in Previous(f)
    PROVE  e \in list /\ e.name = NameOf[f] /\ e.hash = res[f]
<1>1. mtime[f] < genDate
  BY DEF RightInv, TypeInv, TypeOK, Running, TooOld, Time
<1> QED BY <1>1 DEF RightInv, Running, ListIsRight, Previous

\* One step of a file: it goes on, or is listed with what it has.
LEMMA ProcessRight ==
    ASSUME RightInv, NEW f \in Files, Process(f) PROVE RightInv'
<1> USE DEF RightInv, Process, sources
<1>1. TypeInv' BY ProcessTyped
<1>2. DatesArePast' BY DEF DatesArePast
<1>3. ListIsRight' BY DEF ListIsRight
<1>4. Running'
  <2>1. CASE Skip(f)
    <3>1. PICK e \in Previous(f) : resources' = resources \union {e}
      BY <2>1 DEF Skip
    <3>2. e.name = NameOf[f] /\ e.hash = res[f]
      BY <2>1, <3>1, SkippedIsRight DEF Skip
    <3> QED BY <2>1, <3>1, <3>2 DEF Skip, Running, Hashed, TypeInv, TypeOK
  <2>2. CASE HashFile(f)
    BY <2>2 DEF HashFile, Running, Hashed, TypeInv, TypeOK
  <2>3. CASE Keep(f) \/ CompressBegin(f) \/ CompressEnd(f)
    BY <2>3 DEF Keep, CompressBegin, CompressEnd, Running, Hashed, TypeInv, TypeOK
  <2>4. CASE List(f)
    <3> DEFINE e == [name |-> NameOf[f], hash |-> resHash[f], dl |-> lzma[NameOf[f]]]
    <3>1. resources' = resources \union {e} BY <2>4 DEF List
    <3>2. e.name = NameOf[f] /\ e.hash = res[f]
      BY <2>4 DEF List, Running, Hashed
    <3> HIDE DEF e
    <3> QED BY <2>4, <3>1, <3>2 DEF List, Running, Hashed, TypeInv, TypeOK
  <2> QED BY <2>1, <2>2, <2>3, <2>4
<1>5. UpToDate' BY DEF UpToDate
<1> QED BY <1>1, <1>2, <1>3, <1>4, <1>5

LEMMA SweepRight ==
    ASSUME RightInv, AllListed \/ SweepOne \/ WriteBegin PROVE RightInv'
<1> USE DEF RightInv
<1>1. TypeInv' BY EndTyped
<1>2. DatesArePast'
  BY DEF AllListed, SweepOne, WriteBegin, sources, outputs, main, DatesArePast, TypeInv,
         TypeOK, Time
<1>3. ListIsRight'
  BY DEF AllListed, SweepOne, WriteBegin, sources, outputs, ListIsRight
<1>4. Running'
  BY DEF AllListed, SweepOne, WriteBegin, sources, outputs, main, Running
<1>5. UpToDate'
  BY DEF AllListed, SweepOne, WriteBegin, main, UpToDate
<1> QED BY <1>1, <1>2, <1>3, <1>4, <1>5

\* The new list has an entry for each file there is, right about it, and no other.
LEMMA WriteEndRight == ASSUME DistinctNames, RightInv, WriteEnd PROVE RightInv'
<1> USE DEF RightInv, WriteEnd, sources
<1>1. TypeInv' BY EndTyped
<1>2. DatesArePast' BY RestTyped DEF DatesArePast, TypeInv, TypeOK, Time
<1>3. \A e \in resources : \E f \in Files :
          res[f] # NoFile /\ e.name = NameOf[f] /\ e.hash = res[f]
  BY DEF Running
<1>4. \A f \in Files : res[f] # NoFile =>
          \E e \in resources : e.name = NameOf[f] /\ e.hash = res[f]
  BY DEF Running
<1>5. ListIsRight' BY <1>3 DEF ListIsRight, DistinctNames
<1>6. Running' BY RestTyped DEF Running, Hashed
<1>7. UpToDate'
  <2>1. \A f \in seen' : res'[f] # NoFile =>
            \E e \in list' : e.name = NameOf[f] /\ e.hash = res'[f]
    BY <1>4 DEF TypeInv, TypeOK
  <2>2. NamesIn(list') = {NameOf[f] : f \in {g \in Files : res'[g] # NoFile}}
    BY <1>3, <1>4 DEF NamesIn
  <2> QED BY <2>1, <2>2 DEF UpToDate, NamesIn
<1> QED BY <1>1, <1>2, <1>5, <1>6, <1>7

LEMMA DiesRight == ASSUME RightInv, Dies PROVE RightInv'
<1> USE DEF RightInv, Dies, sources, outputs
<1>1. TypeInv' BY EndTyped
<1>2. DatesArePast' BY RestTyped DEF DatesArePast, TypeInv, TypeOK, Time
<1>3. ListIsRight' BY DEF ListIsRight
<1>4. Running' BY RestTyped DEF Running, Hashed
<1>5. UpToDate' BY DEF UpToDate, Running
<1> QED BY <1>1, <1>2, <1>3, <1>4, <1>5

LEMMA StepRight ==
    ASSUME DistinctNames, Undisturbed, RightInv, [Next]_vars PROVE RightInv'
<1>1. CASE UNCHANGED vars
  <2> USE <1>1 DEF RightInv, vars, sources, outputs, main
  <2>1. TypeInv' BY StepTyped
  <2>2. DatesArePast' /\ ListIsRight' BY DEF DatesArePast, ListIsRight
  <2>3. Running' BY DEF Running
  <2>4. UpToDate' BY DEF UpToDate, NamesIn
  <2> QED BY <2>1, <2>2, <2>3, <2>4
<1>2. CASE Run
  BY <1>2, StartRight, ProcessRight, SweepRight, WriteEndRight DEF Run
<1>3. CASE Dies \/ Admin \/ Tick
  BY <1>3, DiesRight, EditRight, DeletionsRight, TickRight DEF Admin
<1> QED BY <1>1, <1>2, <1>3 DEF Next

\* When files are only modified between runs, the list of a run that ended has the
\* hash of every file as it was when the run started, skipped files included, and
\* nothing else, however the runs before it were made or killed, and whatever was
\* deleted between them (README.md:3-4, app.d:184-268).
THEOREM ListIsUpToDate ==
    ASSUME DistinctNames, Undisturbed
    PROVE  Spec => []UpToDate
<1>1. RightInv => UpToDate BY DEF RightInv
<1> QED BY <1>1, InitRight, StepRight, PTL DEF Spec

-----------------------------------------------------------------------------
(* Downloads *)

IInv == RightInv /\ Downloads

LEMMA OutsideDownloads == ASSUME IInv, Undisturbed, Admin \/ Tick PROVE Downloads'
<1> USE DEF IInv, RightInv
<1>1. CASE Tick BY <1>1 DEF Tick, outputs, main, Downloads, Passed
<1>2. CASE Edit
  <2>1. UNCHANGED <<trust, list, stage, lzma, resources>>
    BY <1>2 DEF Edit, outputs, main
  <2>2. pc = "idle" BY <1>2 DEF Edit, Undisturbed
  <2> QED BY <2>1, <2>2 DEF Downloads, Passed, Running
<1>3. CASE DeleteLzma
  <2>1. PICK n \in Names : lzma' = [lzma EXCEPT ![n] = NoFile]
    BY <1>3 DEF DeleteLzma
  <2>2. pc = "idle" /\ UNCHANGED <<trust, list, stage, resources>>
    BY <1>3 DEF DeleteLzma, main
  <2>3. \A e \in list : e.name \in Names
    BY DEF TypeInv, TypeOK, Entry
  <2> QED BY <2>1, <2>2, <2>3 DEF Downloads, Passed, Running, TypeInv, TypeOK
<1>4. CASE DeleteList
  BY <1>4 DEF DeleteList, main, Downloads, Running
<1> QED BY <1>1, <1>2, <1>3, <1>4 DEF Admin

\* In a run, each compressed file goes from what was listed to what is going to be.
LEMMA ProcessDownloads ==
    ASSUME DistinctNames, IInv, NEW f \in Files, Process(f) PROVE Downloads'
<1> SUFFICES ASSUME trust, trust' PROVE Downloads'
  BY DEF Process, Downloads
<1> DEFINE name == NameOf[f]
<1>1. UNCHANGED <<list, res>> /\ pc = "foreach" /\ previous = list
  BY DEF IInv, RightInv, Running, Process, sources
<1>2. \A g \in Files : NameOf[g] = name => g = f
  BY DEF DistinctNames
<1>3. /\ TypeOK
      /\ \A e \in list :
            /\ e.dl = e.hash
            /\ (\A g \in Files : NameOf[g] = e.name => ~Passed(g))
                  => lzma[e.name] \in {e.hash, NoFile}
      /\ \A g \in Files : stage[g] = "compressed" => lzma[NameOf[g]] = res[g]
      /\ \A e \in resources : e.dl = e.hash /\ lzma[e.name] = e.hash
  BY DEF IInv, RightInv, TypeInv, Downloads
<1>4. \A e \in resources : \E g \in Files : stage[g] = "listed" /\ e.name = NameOf[g]
  BY DEF IInv, RightInv, Running
<1>5. name \in Names /\ stage = [g \in Files |-> stage[g]] /\ lzma = [n \in Names |-> lzma[n]]
  BY <1>3 DEF TypeOK, Names
<1>6. CASE Skip(f)
  <2>1. PICK e \in Previous(f) : resources' = resources \union {e}
    BY <1>6 DEF Skip
  <2>2. e \in list /\ e.name = name
    BY <1>1, <2>1 DEF Previous
  <2>3. e.dl = e.hash /\ lzma[name] = e.hash
    BY <1>2, <1>3, <1>6, <2>2 DEF Skip, TooOld, Passed
  <2>4. lzma' = lzma /\ stage' = [stage EXCEPT ![f] = "listed"]
    BY <1>6 DEF Skip
  <2> QED BY <1>1, <1>2, <1>3, <1>5, <2>1, <2>2, <2>3, <2>4 DEF Downloads, Passed
<1>7. CASE HashFile(f)
  BY <1>1, <1>3, <1>5, <1>7 DEF HashFile, Downloads, Passed
<1>8. CASE Keep(f)
  <2>1. resHash[f] = res[f] BY <1>8 DEF Keep, IInv, RightInv, Running, Hashed
  <2>2. PICK e \in list : e.name = name /\ e.hash = res[f] /\ lzma[name] # NoFile
    BY <1>1, <1>8, <2>1 DEF Keep, Modified, Previous
  <2>3. lzma[name] = res[f]
    BY <1>2, <1>3, <1>8, <2>2 DEF Keep, Passed
  <2> QED BY <1>1, <1>3, <1>5, <1>8, <2>3 DEF Keep, Downloads, Passed
<1>9. CASE CompressBegin(f)
  <2>1. \A e \in resources : e.name # name
    BY <1>2, <1>4, <1>9 DEF CompressBegin
  <2> QED BY <1>1, <1>2, <1>3, <1>5, <1>9, <2>1 DEF CompressBegin, Downloads, Passed, TypeOK,
             Entry
<1>10. CASE CompressEnd(f)
  <2>1. \A e \in resources : e.name # name
    BY <1>2, <1>4, <1>10 DEF CompressEnd
  <2> QED BY <1>1, <1>2, <1>3, <1>5, <1>10, <2>1 DEF CompressEnd, Downloads, Passed, TypeOK,
             Entry
<1>11. CASE List(f)
  <2> DEFINE e == [name |-> name, hash |-> resHash[f], dl |-> lzma[name]]
  <2>1. resources' = resources \union {e} BY <1>11 DEF List
  <2>2. resHash[f] = res[f] BY <1>11 DEF List, IInv, RightInv, Running, Hashed
  <2>3. e.name = name /\ e.dl = e.hash /\ lzma[name] = e.hash
    BY <1>3, <1>11, <2>2 DEF List
  <2> HIDE DEF e
  <2> QED BY <1>1, <1>2, <1>3, <1>5, <1>11, <2>1, <2>3 DEF List, Downloads, Passed
<1> QED BY <1>6, <1>7, <1>8, <1>9, <1>10, <1>11 DEF Process

LEMMA EndDownloads ==
    ASSUME IInv, Start \/ AllListed \/ SweepOne \/ WriteBegin \/ WriteEnd \/ Dies
    PROVE  Downloads'
<1> USE DEF IInv, RightInv
<1>1. CASE Start BY <1>1 DEF Start, sources, outputs, Downloads, Running, Passed
<1>2. CASE AllListed BY <1>2 DEF AllListed, sources, outputs, Downloads, Passed
<1>3. CASE SweepOne
  <2>1. PICK n \in Removed : lzma' = [lzma EXCEPT ![n] = NoFile]
    BY <1>3 DEF SweepOne
  <2>2. UNCHANGED <<trust, list, stage, res, resources>> /\ pc = "sweep"
    BY <1>3 DEF SweepOne, sources, main
  <2>3. \A e \in resources : e.name # n BY <2>1 DEF Removed, NamesIn
  <2>4. \A e \in list \union resources : e.name \in Names
    BY DEF TypeInv, TypeOK, Entry
  <2>5. \A f \in Files : stage[f] # "compressed" BY <2>2 DEF Running
  <2> QED BY <2>1, <2>2, <2>3, <2>4, <2>5 DEF Downloads, Passed, TypeInv, TypeOK
<1>4. CASE WriteBegin BY <1>4 DEF WriteBegin, sources, Downloads, Passed
<1>5. CASE WriteEnd BY <1>5, RestTyped DEF WriteEnd, sources, Downloads, Passed
<1>6. CASE Dies BY <1>6 DEF Dies, Downloads
<1> QED BY <1>1, <1>2, <1>3, <1>4, <1>5, <1>6

LEMMA StepDownloads ==
    ASSUME DistinctNames, Undisturbed, IInv, [Next]_vars PROVE IInv'
<1>1. RightInv' BY StepRight DEF IInv
<1>2. CASE UNCHANGED vars
  BY <1>1, <1>2 DEF IInv, vars, sources, outputs, main, Downloads, Passed
<1>3. CASE Run BY <1>1, <1>3, ProcessDownloads, EndDownloads DEF Run, IInv
<1>4. CASE Dies \/ Admin \/ Tick
  BY <1>1, <1>4, OutsideDownloads, EndDownloads DEF IInv
<1> QED BY <1>2, <1>3, <1>4 DEF Next

LEMMA InitDownloads == Init => IInv
<1> SUFFICES ASSUME Init PROVE IInv OBVIOUS
<1>1. Downloads BY DEF Init, Downloads
<1> QED BY <1>1, InitRight DEF IInv

\* Between runs a player who downloads a listed file gets what its listed hashes say, or
\* nothing, if no run was killed since the list was last deleted and resources are only
\* modified between runs (README.md:3-4, app.d:198-260).
THEOREM DownloadsAreAsListed ==
    ASSUME DistinctNames, Undisturbed
    PROVE  Spec => []Published
<1>1. IInv => Published
  <2> SUFFICES ASSUME IInv, pc = "idle", trust, NEW e \in list
               PROVE  e.dl = e.hash /\ lzma[e.name] \in {e.hash, NoFile}
    BY Zenon DEF Published
  <2>1. \A f \in Files : ~Passed(f) BY DEF IInv, RightInv, Running, Passed
  <2> QED BY <2>1 DEF IInv, Downloads
<1> QED BY <1>1, InitDownloads, StepDownloads, PTL DEF Spec

==============================================================================
