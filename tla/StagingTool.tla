---------------------------- MODULE StagingTool ----------------------------
(***************************************************************************)
(* nwn2-stagingtool (stagingtool/source/app.d): lists the resource files   *)
(* that players must download in moduledownloaderresources.xml, with the   *)
(* hash of each file and that of its compressed form, and compresses the   *)
(* files that changed, in parallel.                                        *)
(*                                                                         *)
(* A content stands for its hash, and a compressed file for the content it *)
(* decompresses to: SHA-1 and LZMA are external.  Times are in seconds, as *)
(* gen-date is.                                                            *)
(***************************************************************************)
EXTENDS Integers, FiniteSets

CONSTANTS
    Files,          \* resource files, in one directory or another
    NameOf,         \* their name, in lower case
    Content,
    Threads,        \* how many files are processed at the same time: -j N gives N + 1
    EditsDuringRuns,\* whether resources may change while the tool runs
    MaxTime,        \* bound: the latest time
    NoFile, Torn

Names == {NameOf[f] : f \in Files}
Time == 1..MaxTime

ASSUME StagingConstants ==
    /\ DOMAIN NameOf = Files
    /\ EditsDuringRuns \in BOOLEAN /\ Threads \in Nat /\ MaxTime \in Nat \ {0}
    /\ NoFile \notin Content /\ Torn \notin Content /\ NoFile # Torn

VARIABLES
    clock,
    res, mtime,     \* the resource files
    lzma,           \* the compressed files in the output directory
    xml,            \* the list: not there, torn or whole
    list,           \* its entries
    genDate,        \* its gen-date, 0 if it has none
    pc, incremental, since,
    previous,       \* previousResources
    stage, resHash, \* of each resource file in the parallel foreach
    resources,      \* the entries so far
    stamp,          \* the gen-date that is being written
    \* history
    seen,           \* the files not modified since the last run started
    done,           \* the last run ended well
    trust           \* no run was killed since there was no list

sources == <<clock, res, mtime>>
outputs == <<lzma, xml, list, genDate>>
main == <<pc, incremental, since, previous, stage, resHash, resources, stamp>>
vars == <<sources, outputs, main, seen, done, trust>>

Entry == [name : Names, hash : Content, dl : Content \union {Torn}]

TypeOK ==
    /\ clock \in Time
    /\ res \in [Files -> Content \union {NoFile}] /\ mtime \in [Files -> Time]
    /\ lzma \in [Names -> Content \union {NoFile, Torn}]
    /\ xml \in {"none", "torn", "whole"} /\ list \subseteq Entry
    /\ genDate \in Time \union {0} /\ stamp \in Time \union {0}
    /\ since \in Time \union {0}
    /\ pc \in {"idle", "foreach", "sweep", "write"} /\ incremental \in BOOLEAN
    /\ previous \subseteq Entry /\ resources \subseteq Entry
    /\ stage \in [Files -> {"absent", "waiting", "hashed", "compressing",
                            "compressed", "listed"}]
    /\ resHash \in [Files -> Content \union {NoFile}]
    /\ seen \subseteq Files /\ done \in BOOLEAN /\ trust \in BOOLEAN

Init ==
    /\ clock = 1
    /\ res \in [Files -> Content \union {NoFile}] /\ mtime = [f \in Files |-> 1]
    /\ lzma = [n \in Names |-> NoFile]
    /\ xml = "none" /\ list = {} /\ genDate = 0
    /\ pc = "idle" /\ incremental = FALSE /\ since = 0 /\ previous = {}
    /\ stage = [f \in Files |-> "absent"]
    /\ resHash = [f \in Files |-> NoFile]
    /\ resources = {} /\ stamp = 0
    /\ seen = {} /\ done = FALSE /\ trust = TRUE

-----------------------------------------------------------------------------
(* The administrator, and time: external *)

Tick ==
    /\ clock < MaxTime
    /\ clock' = clock + 1
    /\ UNCHANGED <<res, mtime, outputs, main, seen, done, trust>>

Edit ==
    /\ pc = "idle" \/ EditsDuringRuns
    /\ \E f \in Files, c \in Content \union {NoFile} :
        /\ res' = [res EXCEPT ![f] = c]
        /\ mtime' = [mtime EXCEPT ![f] = clock]
        /\ seen' = seen \ {f}
    /\ UNCHANGED <<clock, outputs, main, done, trust>>

DeleteLzma ==
    /\ pc = "idle"
    /\ \E n \in Names : lzma' = [lzma EXCEPT ![n] = NoFile]
    /\ UNCHANGED <<sources, xml, list, genDate, main, seen, done, trust>>

\* Also what he must do when it is torn: the parser throws.
DeleteList ==
    /\ pc = "idle"
    /\ xml' = "none" /\ list' = {} /\ genDate' = 0 /\ done' = FALSE /\ trust' = TRUE
    /\ UNCHANGED <<sources, lzma, main, seen>>

-----------------------------------------------------------------------------
(* One run *)

\* Mutant: one second is taken off, of a missing date too.
Start_safer ==
    /\ pc = "idle" /\ xml # "torn"
    /\ \E inc \in BOOLEAN :
        /\ incremental' = inc
        /\ since' = IF inc THEN genDate - 1 ELSE 0
    /\ previous' = list
    /\ stage' = [f \in Files |-> IF res[f] = NoFile THEN "absent" ELSE "waiting"]
    /\ pc' = "foreach"
    /\ seen' = Files /\ done' = FALSE
    /\ UNCHANGED <<sources, outputs, resHash, resources, stamp, trust>>

\* --since is left out: it gives since any value the user likes.
Start ==
    /\ pc = "idle" /\ xml # "torn"
    /\ \E inc \in BOOLEAN :
        /\ incremental' = inc
        /\ since' = IF inc THEN genDate ELSE 0
    /\ previous' = list
    /\ stage' = [f \in Files |-> IF res[f] = NoFile THEN "absent" ELSE "waiting"]
    /\ pc' = "foreach"
    /\ seen' = Files /\ done' = FALSE
    /\ UNCHANGED <<sources, outputs, resHash, resources, stamp, trust>>

Previous(f) == {e \in previous : e.name = NameOf[f]}

Busy == {f \in Files : stage[f] \in {"hashed", "compressing", "compressed"}}

\* Mutant: <= in place of <.
TooOld_orEqual(f) ==
    mtime[f] <= since /\ Previous(f) # {} /\ lzma[NameOf[f]] # NoFile

TooOld(f) == mtime[f] < since /\ Previous(f) # {} /\ lzma[NameOf[f]] # NoFile

\* Mutant: the entry is not taken over.
Skip_unlisted(f) ==
    /\ stage[f] = "waiting" /\ TooOld(f)
    /\ stage' = [stage EXCEPT ![f] = "listed"]
    /\ UNCHANGED <<lzma, resHash, resources>>

Skip(f) ==
    /\ stage[f] = "waiting" /\ TooOld(f)
    /\ \E e \in Previous(f) : resources' = resources \union {e}
    /\ stage' = [stage EXCEPT ![f] = "listed"]
    /\ UNCHANGED <<lzma, resHash>>

\* A resource that has gone meanwhile is an exception.
HashFile(f) ==
    /\ stage[f] = "waiting" /\ ~TooOld(f)
    /\ Cardinality(Busy) < Threads
    /\ res[f] # NoFile
    /\ resHash' = [resHash EXCEPT ![f] = res[f]]
    /\ stage' = [stage EXCEPT ![f] = "hashed"]
    /\ UNCHANGED <<lzma, resources>>

\* Mutant: only a missing compressed file is looked for.
Modified_missing(f) == lzma[NameOf[f]] = NoFile

Modified(f) ==
    \/ lzma[NameOf[f]] = NoFile
    \/ \A e \in Previous(f) : e.hash # resHash[f]

Keep(f) ==
    /\ stage[f] = "hashed" /\ ~Modified(f)
    /\ stage' = [stage EXCEPT ![f] = "compressed"]
    /\ UNCHANGED <<lzma, resHash, resources>>

CompressBegin(f) ==
    /\ stage[f] = "hashed" /\ Modified(f)
    /\ lzma' = [lzma EXCEPT ![NameOf[f]] = Torn]
    /\ stage' = [stage EXCEPT ![f] = "compressing"]
    /\ UNCHANGED <<resHash, resources>>

\* The file is read once more.
CompressEnd(f) ==
    /\ stage[f] = "compressing"
    /\ res[f] # NoFile
    /\ lzma' = [lzma EXCEPT ![NameOf[f]] = res[f]]
    /\ stage' = [stage EXCEPT ![f] = "compressed"]
    /\ UNCHANGED <<resHash, resources>>

List(f) ==
    /\ stage[f] = "compressed"
    /\ lzma[NameOf[f]] # NoFile
    /\ resources' = resources \union
            {[name |-> NameOf[f], hash |-> resHash[f], dl |-> lzma[NameOf[f]]]}
    /\ stage' = [stage EXCEPT ![f] = "listed"]
    /\ UNCHANGED <<lzma, resHash>>

Process(f) ==
    /\ pc = "foreach"
    /\ Skip(f) \/ HashFile(f) \/ Keep(f) \/ CompressBegin(f) \/ CompressEnd(f) \/ List(f)
    /\ UNCHANGED <<sources, xml, list, genDate, pc, incremental, since, previous, stamp,
                   seen, done, trust>>

AllListed ==
    /\ pc = "foreach"
    /\ \A f \in Files : stage[f] \in {"absent", "listed"}
    /\ pc' = "sweep"
    /\ UNCHANGED <<sources, outputs, incremental, since, previous, stage, resHash,
                   resources, stamp, seen, done, trust>>

NamesIn(entries) == {e.name : e \in entries}

Removed == {n \in NamesIn(previous) \ NamesIn(resources) : lzma[n] # NoFile}

SweepOne ==
    /\ pc = "sweep"
    /\ \E n \in Removed : lzma' = [lzma EXCEPT ![n] = NoFile]
    /\ UNCHANGED <<sources, xml, list, genDate, main, seen, done, trust>>

WriteBegin ==
    /\ pc = "sweep" /\ Removed = {}
    /\ stamp' = IF incremental THEN clock ELSE 0
    /\ xml' = "torn" /\ list' = {} /\ genDate' = 0
    /\ pc' = "write"
    /\ UNCHANGED <<sources, lzma, incremental, since, previous, stage, resHash,
                   resources, seen, done, trust>>

AtRest ==
    /\ pc' = "idle" /\ incremental' = FALSE /\ since' = 0 /\ previous' = {}
    /\ stage' = [f \in Files |-> "absent"] /\ resHash' = [f \in Files |-> NoFile]
    /\ resources' = {} /\ stamp' = 0

WriteEnd ==
    /\ pc = "write"
    /\ xml' = "whole" /\ list' = resources /\ genDate' = stamp
    /\ done' = TRUE
    /\ AtRest
    /\ UNCHANGED <<sources, lzma, seen, trust>>

\* Killed, or an exception.
Dies ==
    /\ pc # "idle"
    /\ AtRest
    /\ trust' = FALSE
    /\ UNCHANGED <<sources, outputs, seen, done>>

Run ==
    \/ Start
    \/ \E f \in Files : Process(f)
    \/ AllListed \/ SweepOne \/ WriteBegin \/ WriteEnd
Admin == Edit \/ DeleteLzma \/ DeleteList
Next == Run \/ Dies \/ Admin \/ Tick

Spec == Init /\ [][Next]_vars

-----------------------------------------------------------------------------
(* Properties *)

\* README.md:3-4: after a run, the list has the hash of every file as it was when
\* the run started, skipped files included, and lists nothing else.
UpToDate ==
    pc = "idle" /\ done =>
        /\ \A f \in seen : res[f] # NoFile =>
            \E e \in list : e.name = NameOf[f] /\ e.hash = res[f]
        /\ seen = Files =>
            NamesIn(list) = {NameOf[f] : f \in {g \in Files : res[g] # NoFile}}

\* Between runs, what a player downloads is what its listed hashes say, if no run
\* was killed and nobody modified a file under the tool.
Published ==
    pc = "idle" /\ xml = "whole" /\ trust =>
        \A e \in list : e.dl = e.hash /\ lzma[e.name] \in {e.hash, NoFile}

\* The sweep takes the compressed file of no resource that is there and was left
\* alone since the run started, whichever way each file of that name went through
\* the foreach and whatever else is modified meanwhile: a run killed between the
\* sweep and the writing of the list has taken nothing from the players that the
\* old list rightly offers them (app.d:184-238).
SweepSparesPresent ==
    [][\A n \in Names : pc = "sweep" /\ lzma[n] # NoFile /\ lzma'[n] = NoFile
            => \A f \in seen : NameOf[f] = n => res[f] = NoFile]_vars

=============================================================================
