-------------------------- MODULE KernelSearchProofs --------------------------
(***************************************************************************)
(* For every number of searches, candidates, kernels and restarts: what a  *)
(* candidate was judged by is a library of its own fingerprint, a run that *)
(* nothing disturbs rebuilds what it finds torn, and the winner is         *)
(* admissible, best, and worth its compile time.                           *)
(*                                                                         *)
(* The first needs that texts, libraries and the texts that compilers hold *)
(* were made for their directory; the second, that nothing else works on   *)
(* the disk while a lone run is on its way; the third is about the gates   *)
(* and the choice of the winner alone.                                     *)
(***************************************************************************)
EXTENDS KernelSearch, WellFoundedInduction, TLAPS

-----------------------------------------------------------------------------
(***************************************************************************)
(* Types.                                                                  *)
(***************************************************************************)

MadeFor(d) == {Torn} \cup {k \in Kernels : Fingerprint[k] = d}

Building == {"create", "write", "spawn", "wait", "load"}
Holding == {"record", "truncate", "sign", "certify"}
Judging == {"probe", "reuse"} \cup Building \cup Holding
Rejections == {"none", "limit", "identity", "budget", "justification", "failed", "torn"}
Outcomes == [reject : Rejections, kernel : Kernels \cup {Torn}, comptime : Nat, runtime : Nat,
             extra : BOOLEAN]
CompilerStates == [dir : Fingerprints \cup {Torn}, text : Kernels \cup {Torn},
                   phase : Busy \cup {"none", "linked", "failed"}]

\* What has a type of its own.
Typed ==
  /\ pc \in [Runs -> Judging \cup {"next"} \cup Resting]
  /\ loaded \in [Runs -> Kernels \cup {Torn}] /\ fresh \in [Runs -> BOOLEAN]
  /\ outcomes \in [Runs -> Seq(Outcomes)]
  /\ source \in [Fingerprints -> Kernels \cup {Torn}]
  /\ library \in [Fingerprints -> Kernels \cup {Torn}]
  /\ mapped \in [Runs -> [Fingerprints -> Kernels \cup {Torn}]]
  /\ compiler = [r \in Runs |-> [l \in 1 .. MaxLives[r] |-> compiler[r][l]]]
  /\ \A r \in Runs : \A l \in 1 .. MaxLives[r] : compiler[r][l] \in CompilerStates

\* A run judges no more candidates than were declared.
InSpace ==
  \A r \in Runs :
    /\ Len(outcomes[r]) <= Len(Space[r])
    /\ pc[r] \in Judging => Len(outcomes[r]) < Len(Space[r])

\* Everything in a directory, on its way there, and mapped from there, was made
\* for it.
DisksOwn == \A d \in Fingerprints : source[d] \in MadeFor(d) /\ library[d] \in MadeFor(d)
MapsOwn == \A r \in Runs : \A d \in Fingerprints : mapped[r][d] \in MadeFor(d)
CompilersOwn ==
  \A r \in Runs : \A l \in 1 .. MaxLives[r] :
    compiler[r][l].phase \in Busy =>
      /\ compiler[r][l].dir \in Fingerprints
      /\ compiler[r][l].text \in MadeFor(compiler[r][l].dir)
HeldOwn == \A r \in Runs : pc[r] \in Holding => loaded[r] \in MadeFor(OwnPrint(r))

Own ==
  /\ Typed /\ InSpace /\ DisksOwn /\ MapsOwn /\ CompilersOwn /\ HeldOwn
  /\ OutcomesAreOfTheirCandidates

-----------------------------------------------------------------------------
(***************************************************************************)
(* The steps that several actions share.                                   *)
(***************************************************************************)

LEMMA CandidateType ==
  ASSUME NEW r \in Runs, outcomes \in [Runs -> Seq(Outcomes)],
         Len(outcomes[r]) < Len(Space[r])
  PROVE  /\ Candidate(r) \in Variants /\ Candidate(r) = Space[r][Len(outcomes[r]) + 1]
         /\ OwnPrint(r) \in Fingerprints /\ Dir(r) = OwnPrint(r)
         /\ OwnPrint(r) = Fingerprint[Candidate(r).kernel]
<1>1. outcomes[r] \in Seq(Outcomes) /\ Space[r] \in Seq(Variants)
  BY SpaceAssumption
<1>2. Len(outcomes[r]) + 1 \in 1 .. Len(Space[r])
  BY <1>1
<1>3. Candidate(r) \in Variants
  BY <1>1, <1>2 DEF Candidate
<1> QED BY <1>3, KernelsAssumption DEF Variants, OwnPrint, Dir, Directory, Candidate

\* A candidate that is over is one more outcome; the rest of the run stays.
LEMMA ConcludeOwn ==
  ASSUME Own, NEW r \in Runs, pc[r] \in Judging \cup {"next"},
         Len(outcomes[r]) < Len(Space[r]),
         NEW reject \in Rejections, NEW kernel \in MadeFor(OwnPrint(r)),
         NEW comptime \in Nat, NEW runtime \in Nat, Conclude(r, reject, kernel, comptime, runtime)
  PROVE  Own'
<1> DEFINE o == [reject |-> reject, kernel |-> kernel, comptime |-> comptime, runtime |-> runtime,
                 extra |-> reject = "none" /\ comptime > Budget[r].base]
<1>1. /\ outcomes \in [Runs -> Seq(Outcomes)] /\ outcomes[r] \in Seq(Outcomes)
      /\ o \in Outcomes /\ Budget[r].base \in Nat /\ Torn \notin Kernels
  BY TimesAssumption, KernelsAssumption DEF Own, Typed, Outcomes, MadeFor
<1>2. /\ outcomes' = [outcomes EXCEPT ![r] = Append(outcomes[r], o)]
      /\ loaded' = [loaded EXCEPT ![r] = Torn] /\ pc' = [pc EXCEPT ![r] = "next"]
      /\ UNCHANGED <<source, library, key, compiler, life, mapped, fresh, report, alone>>
  BY DEF Conclude, Goto, disk
<1> HIDE DEF o
<1>3. /\ Append(outcomes[r], o) \in Seq(Outcomes)
      /\ Len(Append(outcomes[r], o)) = Len(outcomes[r]) + 1
      /\ \A n \in 1 .. Len(outcomes[r]) : Append(outcomes[r], o)[n] = outcomes[r][n]
      /\ Append(outcomes[r], o)[Len(outcomes[r]) + 1] = o
      /\ Len(outcomes[r]) \in Nat /\ Len(Space[r]) \in Nat
  BY <1>1, SpaceAssumption
<1>4. Typed'
  BY <1>1, <1>2, <1>3 DEF Own, Typed
<1>5. InSpace'
  BY <1>1, <1>2, <1>3 DEF Own, Typed, InSpace, Judging, Building, Holding
<1>6. DisksOwn' /\ MapsOwn' /\ CompilersOwn'
  BY <1>2 DEF Own, DisksOwn, MapsOwn, CompilersOwn
<1>7. HeldOwn'
  BY <1>2, KernelsAssumption DEF Own, Typed, HeldOwn, Holding, MadeFor, OwnPrint, Candidate
<1>8. OutcomesAreOfTheirCandidates'
  <2> SUFFICES ASSUME NEW s \in Runs, NEW n \in DOMAIN outcomes'[s], outcomes'[s][n].kernel # Torn
               PROVE  Fingerprint[outcomes'[s][n].kernel] = Fingerprint[Space[s][n].kernel]
    BY DEF OutcomesAreOfTheirCandidates
  <2>1. CASE s # r
    BY <2>1, <1>1, <1>2 DEF Own, OutcomesAreOfTheirCandidates
  <2>2. CASE s = r /\ n \in 1 .. Len(outcomes[r])
    BY <2>2, <1>1, <1>2, <1>3, SMTT(30) DEF Own, OutcomesAreOfTheirCandidates
  <2>3. CASE s = r /\ n = Len(outcomes[r]) + 1
    <3>1. outcomes'[s][n] = o
      BY <2>3, <1>1, <1>2, <1>3
    <3>2. o.kernel = kernel
      BY DEF o
    <3> QED BY <3>1, <3>2, <2>3, CandidateType, <1>1 DEF MadeFor, Candidate
  <2>4. s = r => n \in 1 .. Len(outcomes[r]) \/ n = Len(outcomes[r]) + 1
    BY <1>1, <1>2, <1>3
  <2> QED BY <2>1, <2>2, <2>3, <2>4
<1> QED BY <1>4, <1>5, <1>6, <1>7, <1>8 DEF Own

\* A refused candidate leaves nothing loaded.
LEMMA RejectOwn ==
  ASSUME Own, NEW r \in Runs, pc[r] \in Judging \cup {"next"},
         Len(outcomes[r]) < Len(Space[r]), NEW reason \in Rejections, Reject(r, reason)
  PROVE  Own'
<1>1. Torn \in MadeFor(OwnPrint(r))
  BY DEF MadeFor
<1> QED BY <1>1, ConcludeOwn DEF Reject

\* The steps that only move on: the outcomes, the disk and the compilers stay.
LEMMA GotoOwn ==
  ASSUME Own, NEW r \in Runs, Len(outcomes[r]) < Len(Space[r]),
         NEW next \in Judging, Goto(r, next),
         next \in Holding => loaded[r] \in MadeFor(OwnPrint(r)),
         UNCHANGED <<disk, compiler, loaded, mapped, fresh, outcomes>>
  PROVE  Own'
<1> USE DEF Own, disk
<1>1. Typed'
  BY DEF Typed, Goto
<1>2. InSpace'
  BY DEF Typed, InSpace, Goto
<1>3. DisksOwn' /\ MapsOwn' /\ CompilersOwn' /\ OutcomesAreOfTheirCandidates'
  BY DEF DisksOwn, MapsOwn, CompilersOwn, OutcomesAreOfTheirCandidates
<1>4. HeldOwn'
  <2> SUFFICES ASSUME NEW s \in Runs, pc'[s] \in Holding PROVE (loaded[s] \in MadeFor(OwnPrint(s)))'
    BY DEF HeldOwn
  <2>1. (loaded[s])' = loaded[s] /\ (MadeFor(OwnPrint(s)))' = MadeFor(OwnPrint(s))
    BY DEF MadeFor, OwnPrint, Candidate
  <2>2. s = r => pc'[s] = next
    BY DEF Goto, Typed
  <2>3. s # r => pc'[s] = pc[s]
    BY DEF Goto, Typed
  <2> QED BY <2>1, <2>2, <2>3 DEF HeldOwn
<1> QED BY <1>1, <1>2, <1>3, <1>4

\* A library or a walked kernel is taken up.
LEMMA TakeOwn ==
  ASSUME Own, NEW r \in Runs, Len(outcomes[r]) < Len(Space[r]),
         NEW next \in Holding, Goto(r, next), NEW kernel \in MadeFor(OwnPrint(r)), kernel # Torn,
         NEW built \in BOOLEAN,
         loaded' = [loaded EXCEPT ![r] = kernel], fresh' = [fresh EXCEPT ![r] = built],
         mapped' \in [Runs -> [Fingerprints -> Kernels \cup {Torn}]], MapsOwn',
         UNCHANGED <<disk, compiler, outcomes>>
  PROVE  Own'
<1> USE DEF Own, disk
<1>1. Typed'
  BY DEF Typed, Goto, Judging, MadeFor
<1>2. InSpace'
  BY DEF Typed, InSpace, Goto
<1>3. DisksOwn' /\ CompilersOwn' /\ OutcomesAreOfTheirCandidates'
  BY DEF DisksOwn, CompilersOwn, OutcomesAreOfTheirCandidates
<1>4. HeldOwn'
  BY DEF Typed, HeldOwn, Goto, MadeFor, OwnPrint, Candidate
<1> QED BY <1>1, <1>2, <1>3, <1>4

-----------------------------------------------------------------------------
(***************************************************************************)
(* Every step keeps things with their owners.                              *)
(***************************************************************************)

LEMMA InitOwn == Init => Own
<1> SUFFICES ASSUME Init PROVE Own
  OBVIOUS
<1> USE DEF Init
<1>1. Typed
  BY DEF Typed, NoCompiler, CompilerStates, Resting
<1>2. InSpace
  BY SpaceAssumption DEF InSpace, Judging, Building, Holding
<1>3. DisksOwn /\ MapsOwn /\ CompilersOwn /\ HeldOwn
  BY DEF DisksOwn, MapsOwn, MadeFor, CompilersOwn, NoCompiler, Busy, HeldOwn, Holding
<1>4. OutcomesAreOfTheirCandidates
  BY DEF OutcomesAreOfTheirCandidates
<1> QED BY <1>1, <1>2, <1>3, <1>4 DEF Own

\* A run that starts holds nothing.
LEMMA BeginOwn == ASSUME Own, NEW r \in Runs, Begin(r) PROVE Own'
<1> DEFINE none == [d \in Fingerprints |-> Torn]
<1>1. mapped' \in [Runs -> [Fingerprints -> Kernels \cup {Torn}]] /\ MapsOwn'
  <2>1. CASE UNCHANGED mapped
    BY <2>1 DEF Own, Typed, MapsOwn
  <2>2. CASE mapped' = [mapped EXCEPT ![r] = none]
    <3>1. none \in [Fingerprints -> Kernels \cup {Torn}] /\ \A d \in Fingerprints : none[d] \in MadeFor(d)
      BY DEF MadeFor
    <3> HIDE DEF none
    <3>2. mapped' \in [Runs -> [Fingerprints -> Kernels \cup {Torn}]]
      BY <2>2, <3>1 DEF Own, Typed
    <3>3. \A s \in Runs : mapped'[s] = IF s = r THEN none ELSE mapped[s]
      BY <2>2 DEF Own, Typed
    <3>4. MapsOwn'
      BY <3>1, <3>3 DEF Own, MapsOwn
    <3> QED BY <3>2, <3>4
  <2> QED BY <2>1, <2>2 DEF Begin
<1>2. Typed'
  <2>1. /\ <<>> \in Seq(Outcomes)
        /\ pc' = [pc EXCEPT ![r] = "next"] /\ loaded' = [loaded EXCEPT ![r] = Torn]
        /\ outcomes' = [outcomes EXCEPT ![r] = <<>>]
        /\ UNCHANGED <<source, library, compiler, fresh>>
    BY DEF Begin, disk, Goto
  <2> QED BY <1>1, <2>1 DEF Own, Typed
<1> USE DEF Own, Begin, disk, Goto
<1>3. InSpace'
  BY SpaceAssumption DEF Typed, InSpace, Judging, Building, Holding
<1>4. DisksOwn' /\ CompilersOwn'
  BY DEF DisksOwn, CompilersOwn
<1>5. HeldOwn'
  BY DEF Typed, HeldOwn, Holding, MadeFor, OwnPrint, Candidate
<1>6. OutcomesAreOfTheirCandidates'
  BY DEF Typed, OutcomesAreOfTheirCandidates
<1> QED BY <1>2, <1>3, <1>4, <1>5, <1>6, <1>1

\* A candidate that needs no toolchain is loaded as its own kernel.
LEMMA CompileOwn == ASSUME Own, NEW r \in Runs, Compile(r) PROVE Own'
<1>1. /\ pc[r] = "next" /\ Len(outcomes[r]) < Len(Space[r])
      /\ "limit" \in Rejections /\ "failed" \in Rejections
  BY DEF Compile, Rejections
<1>2. CASE Reject(r, "limit") \/ Reject(r, "failed")
  BY <1>1, <1>2, RejectOwn
<1>3. CASE /\ Goto(r, "probe")
           /\ UNCHANGED <<disk, compiler, life, mapped, loaded, fresh, outcomes, report, alone>>
  BY <1>1, <1>3, GotoOwn DEF Judging, Holding
<1>4. CASE /\ Goto(r, "certify") /\ loaded' = [loaded EXCEPT ![r] = Candidate(r).kernel]
           /\ fresh' = [fresh EXCEPT ![r] = FALSE]
           /\ UNCHANGED <<disk, compiler, life, mapped, outcomes, report, alone>>
  <2>1. Candidate(r).kernel \in MadeFor(OwnPrint(r)) /\ Candidate(r).kernel # Torn
    BY <1>1, CandidateType, KernelsAssumption DEF Own, Typed, MadeFor, Variants
  <2>2. mapped' \in [Runs -> [Fingerprints -> Kernels \cup {Torn}]] /\ MapsOwn'
    BY <1>4 DEF Own, Typed, MapsOwn, MadeFor
  <2> QED BY <1>1, <1>4, <2>1, <2>2, TakeOwn DEF Holding
<1> QED BY <1>2, <1>3, <1>4 DEF Compile

\* A look into the cache directory takes nothing from it.
LEMMA ProbeOwn == ASSUME Own, NEW r \in Runs, Probe(r) PROVE Own'
<1>1. Len(outcomes[r]) < Len(Space[r])
  BY DEF Own, InSpace, Probe, Judging
<1>2. PICK next \in {"reuse", "create"} : Goto(r, next)
  BY DEF Probe
<1> QED BY <1>1, <1>2, GotoOwn DEF Probe, Judging, Building, Holding

\* What dlopen finds at the path of a directory was made for its print, and stays
\* mapped.
LEMMA LibraryOwn ==
  ASSUME Own, NEW r \in Runs, Len(outcomes[r]) < Len(Space[r]), Opened(r) # Torn,
         NEW built \in BOOLEAN, NEW next \in Holding, TakeLibrary(r, built, next)
  PROVE  Own'
<1>1. Dir(r) \in Fingerprints /\ Dir(r) = OwnPrint(r)
  BY CandidateType DEF Own, Typed
<1>2. Opened(r) \in MadeFor(Dir(r)) /\ Opened(r) \in Kernels \cup {Torn}
  BY <1>1 DEF Own, Typed, DisksOwn, MapsOwn, Opened
<1>3. mapped' = [mapped EXCEPT ![r][Dir(r)] = Opened(r)]
  BY DEF TakeLibrary
<1>4. mapped' \in [Runs -> [Fingerprints -> Kernels \cup {Torn}]]
  BY <1>1, <1>2, <1>3 DEF Own, Typed
<1>5. MapsOwn'
  BY <1>1, <1>2, <1>3 DEF Own, Typed, MapsOwn, MadeFor
<1> QED BY <1>1, <1>2, <1>4, <1>5, TakeOwn DEF TakeLibrary

\* What is loaded from a directory was made for its print.
LEMMA ReuseOwn == ASSUME Own, NEW r \in Runs, Reuse(r) PROVE Own'
<1>1. Len(outcomes[r]) < Len(Space[r])
  BY DEF Own, InSpace, Reuse, Judging
<1>2. CASE Opened(r) = Torn
  BY <1>1, <1>2, GotoOwn DEF Reuse, Judging, Building, Holding
<1>3. CASE Opened(r) # Torn
  BY <1>1, <1>3, LibraryOwn DEF Reuse, Holding
<1> QED BY <1>2, <1>3

\* What a build puts into a directory is for that directory.
LEMMA SourceOwn ==
  ASSUME Own, NEW r \in Runs, Len(outcomes[r]) < Len(Space[r]), NEW next \in Building, Goto(r, next),
         NEW text \in MadeFor(OwnPrint(r)), source' = [source EXCEPT ![Dir(r)] = text],
         UNCHANGED <<library, compiler, loaded, mapped, fresh, outcomes>>
  PROVE  Own'
<1>1. Dir(r) \in Fingerprints /\ Dir(r) = OwnPrint(r)
  BY CandidateType DEF Own, Typed
<1> USE DEF Own
<1>2. Typed'
  BY <1>1 DEF Typed, Goto, Judging, MadeFor
<1>3. InSpace'
  BY DEF Typed, InSpace, Goto
<1>4. DisksOwn' /\ MapsOwn'
  BY <1>1 DEF DisksOwn, MapsOwn, Typed
<1>5. CompilersOwn' /\ OutcomesAreOfTheirCandidates'
  BY DEF CompilersOwn, OutcomesAreOfTheirCandidates
<1>6. HeldOwn'
  BY DEF Typed, HeldOwn, Goto, Holding, Building, MadeFor, OwnPrint, Candidate
<1> QED BY <1>2, <1>3, <1>4, <1>5, <1>6

\* A new directory is empty.
LEMMA CreateOwn == ASSUME Own, NEW r \in Runs, Create(r) PROVE Own'
<1>1. pc[r] \in Judging /\ Len(outcomes[r]) < Len(Space[r]) /\ "failed" \in Rejections
  BY DEF Own, InSpace, Create, Judging, Building, Rejections
<1>2. CASE Reject(r, "failed")
  BY <1>1, <1>2, RejectOwn
<1>3. CASE ~Reject(r, "failed")
  <2>1. Torn \in MadeFor(OwnPrint(r)) /\ "write" \in Building
    BY DEF MadeFor, Building
  <2> QED BY <1>1, <1>3, <2>1, SourceOwn DEF Create
<1> QED BY <1>2, <1>3

\* The source that is written is the text of the run's candidate.
LEMMA WriteOwn == ASSUME Own, NEW r \in Runs, Write(r) PROVE Own'
<1>1. pc[r] \in Judging /\ Len(outcomes[r]) < Len(Space[r]) /\ "failed" \in Rejections
  BY DEF Own, InSpace, Write, Judging, Building, Rejections
<1>2. CASE Reject(r, "failed")
  BY <1>1, <1>2, RejectOwn
<1>3. CASE ~Reject(r, "failed")
  <2>1. Candidate(r).kernel \in MadeFor(OwnPrint(r)) /\ "spawn" \in Building
    BY <1>1, CandidateType DEF Own, Typed, MadeFor, Variants, Building
  <2> QED BY <1>1, <1>3, <2>1, SourceOwn DEF Write
<1> QED BY <1>2, <1>3

\* A compiler is changed, and nothing that a run holds.
LEMMA CompilerOwn ==
  ASSUME Own, NEW r \in Runs, NEW l \in 1 .. MaxLives[r], NEW state \in CompilerStates,
         state.phase \in Busy => state.dir \in Fingerprints /\ state.text \in MadeFor(state.dir),
         compiler' = [compiler EXCEPT ![r][l] = state]
  PROVE  /\ compiler' = [s \in Runs |-> [m \in 1 .. MaxLives[s] |-> compiler'[s][m]]]
         /\ \A s \in Runs : \A m \in 1 .. MaxLives[s] : compiler'[s][m] \in CompilerStates
         /\ CompilersOwn'
<1>1. /\ compiler = [s \in Runs |-> [m \in 1 .. MaxLives[s] |-> compiler[s][m]]]
      /\ \A s \in Runs : \A m \in 1 .. MaxLives[s] : compiler[s][m] \in CompilerStates
  BY DEF Own, Typed
<1>2. \A s \in Runs : \A m \in 1 .. MaxLives[s] :
        compiler'[s][m] = IF s = r /\ m = l THEN state ELSE compiler[s][m]
  BY <1>1
<1>3. compiler' = [s \in Runs |-> [m \in 1 .. MaxLives[s] |-> compiler'[s][m]]]
  BY <1>1
<1>4. CompilersOwn'
  BY <1>2, CompilersOwn DEF CompilersOwn, Own, MadeFor
<1> QED BY <1>1, <1>2, <1>3, <1>4, ZenonT(40)

\* A compiler works in the directory of the run that started it.
LEMMA SpawnOwn == ASSUME Own, NEW r \in Runs, life[r] \in 1 .. MaxLives[r], Spawn(r) PROVE Own'
<1>1. pc[r] \in Judging /\ Len(outcomes[r]) < Len(Space[r]) /\ "failed" \in Rejections
  BY DEF Own, InSpace, Spawn, Judging, Building, Rejections
<1>2. CASE Reject(r, "failed")
  BY <1>1, <1>2, RejectOwn
<1>3. CASE ~Reject(r, "failed")
  <2> DEFINE new == [dir |-> Dir(r), text |-> Torn, phase |-> "reading"]
  <2>1. /\ compiler' = [compiler EXCEPT ![r][life[r]] = new] /\ Goto(r, "wait")
        /\ UNCHANGED <<source, library, key, loaded, mapped, fresh, outcomes>>
    BY <1>3 DEF Spawn, disk
  <2>2. Dir(r) \in Fingerprints
    BY <1>1, CandidateType DEF Own, Typed
  <2>3. new \in CompilerStates /\ (new.phase \in Busy => new.dir \in Fingerprints /\ new.text \in MadeFor(new.dir))
    BY <2>2 DEF CompilerStates, Busy, MadeFor
  <2> HIDE DEF new
  <2>4. /\ compiler' = [s \in Runs |-> [m \in 1 .. MaxLives[s] |-> compiler'[s][m]]]
        /\ \A s \in Runs : \A m \in 1 .. MaxLives[s] : compiler'[s][m] \in CompilerStates
        /\ CompilersOwn'
    BY <2>1, <2>3, CompilerOwn
  <2>5. Typed'
    BY <2>1, <2>4 DEF Own, Typed, Goto, Judging, Building
  <2>6. InSpace' /\ DisksOwn' /\ MapsOwn' /\ OutcomesAreOfTheirCandidates'
    BY <1>1, <2>1 DEF Own, Typed, InSpace, DisksOwn, MapsOwn, OutcomesAreOfTheirCandidates, Goto
  <2>7. HeldOwn'
    BY <2>1 DEF Own, Typed, HeldOwn, Goto, Holding, MadeFor, OwnPrint, Candidate
  <2> QED BY <2>4, <2>5, <2>6, <2>7 DEF Own
<1> QED BY <1>2, <1>3

\* A compiler goes on; the library it may write is for its directory.
LEMMA PhaseOwn ==
  ASSUME Own, NEW r \in Runs, NEW l \in 1 .. MaxLives[r], compiler[r][l].phase \in Busy,
         NEW phase \in Busy \cup {"linked", "failed"}, NEW text \in MadeFor(compiler[r][l].dir),
         Phase(r, l, phase, text),
         \/ UNCHANGED library
         \/ \E t \in MadeFor(compiler[r][l].dir) :
              library' = [library EXCEPT ![compiler[r][l].dir] = t]
  PROVE  Own'
<1> DEFINE new == [compiler[r][l] EXCEPT !.phase = phase, !.text = text]
<1>1. compiler[r][l] \in CompilerStates /\ compiler[r][l].dir \in Fingerprints
  BY DEF Own, Typed, CompilersOwn
<1>2. compiler' = [compiler EXCEPT ![r][l] = new]
  <2>1. compiler = [s \in Runs |-> [m \in 1 .. MaxLives[s] |-> compiler[s][m]]]
    BY DEF Own, Typed
  <2> QED BY <2>1, ZenonT(40) DEF Phase
<1>3. new \in CompilerStates /\ new.dir = compiler[r][l].dir /\ new.text = text
  BY <1>1 DEF CompilerStates, MadeFor
<1> HIDE DEF new
<1>4. /\ compiler' = [s \in Runs |-> [m \in 1 .. MaxLives[s] |-> compiler'[s][m]]]
      /\ \A s \in Runs : \A m \in 1 .. MaxLives[s] : compiler'[s][m] \in CompilerStates
      /\ CompilersOwn'
  BY <1>1, <1>2, <1>3, CompilerOwn
<1>5. UNCHANGED <<source, pc, loaded, mapped, fresh, outcomes>>
  BY DEF Phase
<1>6. library' \in [Fingerprints -> Kernels \cup {Torn}] /\ DisksOwn'
  BY <1>1, <1>5, ZenonT(40) DEF Own, Typed, DisksOwn, MadeFor
<1>7. Typed' /\ InSpace'
  BY <1>4, <1>5, <1>6 DEF Own, Typed, InSpace
<1>8. MapsOwn' /\ HeldOwn' /\ OutcomesAreOfTheirCandidates'
  BY <1>5 DEF Own, MapsOwn, HeldOwn, MadeFor, OwnPrint, Candidate, OutcomesAreOfTheirCandidates
<1> QED BY <1>4, <1>6, <1>7, <1>8 DEF Own

\* A compiler reads what was written into its directory.
LEMMA ReadOwn == ASSUME Own, NEW r \in Runs, NEW l \in 1 .. MaxLives[r], Read(r, l) PROVE Own'
<1>1. /\ compiler[r][l].phase \in Busy /\ UNCHANGED library
      /\ \E phase \in {"unlinking", "failed"} : Phase(r, l, phase, source[compiler[r][l].dir])
  BY DEF Read, Busy
<1>2. source[compiler[r][l].dir] \in MadeFor(compiler[r][l].dir)
  BY <1>1 DEF Own, CompilersOwn, DisksOwn
<1> QED BY <1>1, <1>2, PhaseOwn DEF Busy

\* A compiler takes the old library away.
LEMMA UnlinkOwn == ASSUME Own, NEW r \in Runs, NEW l \in 1 .. MaxLives[r], Unlink(r, l) PROVE Own'
<1>1. /\ compiler[r][l].phase \in Busy /\ Phase(r, l, "linking", compiler[r][l].text)
      /\ library' = [library EXCEPT ![compiler[r][l].dir] = Torn]
  BY DEF Unlink, Busy
<1>2. compiler[r][l].text \in MadeFor(compiler[r][l].dir) /\ Torn \in MadeFor(compiler[r][l].dir)
  BY <1>1 DEF Own, CompilersOwn, MadeFor
<1> QED BY <1>1, <1>2, PhaseOwn DEF Busy

\* A compiler links what it read.
LEMMA LinkOwn == ASSUME Own, NEW r \in Runs, NEW l \in 1 .. MaxLives[r], Link(r, l) PROVE Own'
<1>1. /\ compiler[r][l].phase \in Busy /\ Phase(r, l, "linked", compiler[r][l].text)
      /\ library' = [library EXCEPT ![compiler[r][l].dir] = compiler[r][l].text]
  BY DEF Link, Busy
<1>2. compiler[r][l].text \in MadeFor(compiler[r][l].dir)
  BY <1>1 DEF Own, CompilersOwn
<1> QED BY <1>1, <1>2, PhaseOwn

\* waitpid returned.
LEMMA AwaitOwn == ASSUME Own, NEW r \in Runs, Await(r) PROVE Own'
<1>1. pc[r] \in Judging /\ Len(outcomes[r]) < Len(Space[r]) /\ "torn" \in Rejections
  BY DEF Own, InSpace, Await, Judging, Building, Rejections
<1>2. CASE Reject(r, "torn")
  BY <1>1, <1>2, RejectOwn
<1>3. CASE ~Reject(r, "torn")
  BY <1>1, <1>3, GotoOwn DEF Await, Judging, Building, Holding
<1> QED BY <1>2, <1>3

\* The run loads the library of its own print.
LEMMA LoadOwn == ASSUME Own, NEW r \in Runs, Load(r) PROVE Own'
<1>1. pc[r] \in Judging /\ Len(outcomes[r]) < Len(Space[r]) /\ "torn" \in Rejections
  BY DEF Own, InSpace, Load, Judging, Building, Rejections
<1>2. CASE Opened(r) = Torn
  BY <1>1, <1>2, RejectOwn DEF Load
<1>3. CASE Opened(r) # Torn
  BY <1>1, <1>3, LibraryOwn DEF Load, Holding
<1> QED BY <1>2, <1>3

\* The key is read and stays as it is.
LEMMA RecordOwn == ASSUME Own, NEW r \in Runs, Record(r) PROVE Own'
<1>1. Len(outcomes[r]) < Len(Space[r]) /\ loaded[r] \in MadeFor(OwnPrint(r))
  BY DEF Own, InSpace, HeldOwn, Record, Judging, Holding
<1>2. PICK next \in {"certify", "truncate"} : Goto(r, next)
  BY DEF Record
<1> QED BY <1>1, <1>2, GotoOwn DEF Record, Judging, Holding

\* Whatever is done to the key.
LEMMA KeyOwn ==
  ASSUME Own, NEW r \in Runs, pc[r] \in Holding, NEW next \in Holding, Goto(r, next),
         UNCHANGED <<source, library, compiler, loaded, mapped, fresh, outcomes>>
  PROVE  Own'
<1>1. Typed' /\ InSpace'
  BY DEF Own, Typed, InSpace, Goto, Judging
<1>2. DisksOwn' /\ MapsOwn' /\ CompilersOwn' /\ OutcomesAreOfTheirCandidates'
  BY DEF Own, DisksOwn, MapsOwn, CompilersOwn, OutcomesAreOfTheirCandidates
<1>3. HeldOwn'
  BY DEF Own, Typed, HeldOwn, Goto, MadeFor, OwnPrint, Candidate
<1> QED BY <1>1, <1>2, <1>3 DEF Own

\* The key is truncated, unless the file fails.
LEMMA TruncateOwn == ASSUME Own, NEW r \in Runs, Truncate(r) PROVE Own'
<1>1. /\ pc[r] \in Judging /\ pc[r] \in Holding /\ Len(outcomes[r]) < Len(Space[r])
      /\ "failed" \in Rejections
  BY DEF Own, InSpace, Truncate, Judging, Holding, Rejections
<1>2. CASE Reject(r, "failed")
  BY <1>1, <1>2, RejectOwn
<1>3. CASE ~Reject(r, "failed")
  BY <1>1, <1>3, KeyOwn DEF Truncate, Holding
<1> QED BY <1>2, <1>3

\* The key written is the print of the candidate that was compiled there.
LEMMA SignOwn == ASSUME Own, NEW r \in Runs, Sign(r) PROVE Own'
<1>1. /\ pc[r] \in Judging /\ pc[r] \in Holding /\ Len(outcomes[r]) < Len(Space[r])
      /\ "failed" \in Rejections
  BY DEF Own, InSpace, Sign, Judging, Holding, Rejections
<1>2. CASE Reject(r, "failed")
  BY <1>1, <1>2, RejectOwn
<1>3. CASE ~Reject(r, "failed")
  BY <1>1, <1>3, KeyOwn DEF Sign, Holding
<1> QED BY <1>2, <1>3

\* What a candidate that ran is judged to be.
Verdict(r, comptime) ==
  IF Computes[loaded[r]] # Expected[r] THEN "identity"
  ELSE IF comptime > Allowed(r) THEN "budget" ELSE "none"

\* A candidate that is not refused for having failed is concluded with some times.
LEMMA CertifyShape ==
  ASSUME NEW r \in Runs, Certify(r), ~Reject(r, "failed")
  PROVE  \E comptime \in Nat, runtime \in Nat :
           Conclude(r, Verdict(r, comptime), loaded[r], comptime, runtime)
<1>1. PICK build \in IF fresh[r] THEN BuildTimes[r] ELSE {0}, runtime \in Runtimes[r] :
        Conclude(r, Verdict(r, CompileTime + build), loaded[r], CompileTime + build, runtime)
  BY DEF Certify, Verdict
<1>2. build \in Nat /\ runtime \in Nat /\ CompileTime + build \in Nat
  BY TimesAssumption
<1> QED BY <1>1, <1>2

\* A candidate that is judged is judged by what was loaded for it.
LEMMA CertifyOwn == ASSUME Own, NEW r \in Runs, Certify(r) PROVE Own'
<1>1. /\ pc[r] \in Judging /\ Len(outcomes[r]) < Len(Space[r]) /\ "failed" \in Rejections
      /\ loaded[r] \in MadeFor(OwnPrint(r))
  BY DEF Own, InSpace, HeldOwn, Certify, Judging, Holding, Rejections
<1>2. CASE Reject(r, "failed")
  BY <1>1, <1>2, RejectOwn
<1>3. CASE ~Reject(r, "failed")
  <2>1. PICK comptime \in Nat, runtime \in Nat :
          Conclude(r, Verdict(r, comptime), loaded[r], comptime, runtime)
    BY <1>3, CertifyShape
  <2>2. Verdict(r, comptime) \in Rejections
    BY DEF Verdict, Rejections
  <2> QED BY <1>1, <2>1, <2>2, ConcludeOwn
<1> QED BY <1>2, <1>3

\* The gate changes nothing but refusals.
LEMMA GatedShape ==
  ASSUME NEW r \in Runs, NEW all \in Seq(Outcomes)
  PROVE  /\ Gated(r, all) \in Seq(Outcomes) /\ Len(Gated(r, all)) = Len(all)
         /\ \A n \in 1 .. Len(all) :
              /\ Gated(r, all)[n].reject \in {all[n].reject, "justification"}
              /\ Gated(r, all)[n].kernel = all[n].kernel
              /\ Gated(r, all)[n].comptime = all[n].comptime
              /\ Gated(r, all)[n].runtime = all[n].runtime
              /\ Gated(r, all)[n].extra = all[n].extra
<1> DEFINE same(a, b) == /\ a \in Outcomes
                         /\ a.reject \in {b.reject, "justification"} /\ a.kernel = b.kernel
                         /\ a.comptime = b.comptime /\ a.runtime = b.runtime /\ a.extra = b.extra
<1>1. all = [n \in 1 .. Len(all) |-> all[n]] /\ Len(all) \in Nat
      /\ \A n \in 1 .. Len(all) : all[n] \in Outcomes
  OBVIOUS
<1>2. CASE Budget[r].mode # "bounded"
  BY <1>1, <1>2 DEF Gated
<1>3. CASE Budget[r].mode = "bounded"
  <2> DEFINE refused(n) == all[n].reject = "none" /\ all[n].extra
                             /\ ~Justified(r, all[n], BaseRuntime(r, all))
             gated(n) == IF refused(n) THEN [all[n] EXCEPT !.reject = "justification"] ELSE all[n]
  <2>1. Gated(r, all) = [n \in 1 .. Len(all) |-> gated(n)]
    BY <1>1, <1>3 DEF Gated
  <2>2. ASSUME NEW n \in 1 .. Len(all) PROVE same(gated(n), all[n])
    <3>1. all[n] \in Outcomes
      BY <1>1
    <3>2. PICK o \in Outcomes : o = all[n]
      BY <3>1
    <3>3. same([o EXCEPT !.reject = "justification"], o)
      BY <3>2 DEF Outcomes, Rejections
    <3> HIDE DEF refused, same
    <3>4. same(o, o)
      BY <3>2 DEF same
    <3> QED BY <3>2, <3>3, <3>4
  <2>3. \A n \in 1 .. Len(all) : same(gated(n), all[n])
    BY <2>2
  <2> HIDE DEF gated
  <2> QED BY <1>1, <2>1, <2>3
<1> QED BY <1>2, <1>3

\* A report changes nothing on the disk.
LEMMA ReportOwn == ASSUME Own, NEW r \in Runs, Report(r) PROVE Own'
<1> DEFINE all == Gated(r, outcomes[r])
<1>1. /\ outcomes \in [Runs -> Seq(Outcomes)] /\ outcomes[r] \in Seq(Outcomes)
      /\ Len(outcomes[r]) = Len(Space[r])
      /\ outcomes' = [outcomes EXCEPT ![r] = all] /\ pc' = [pc EXCEPT ![r] = "reported"]
      /\ UNCHANGED <<source, library, compiler, loaded, mapped, fresh>>
  BY DEF Own, Typed, Report, Goto, disk
<1>2. all \in Seq(Outcomes) /\ Len(all) = Len(outcomes[r])
      /\ \A n \in 1 .. Len(outcomes[r]) : all[n].kernel = outcomes[r][n].kernel
  BY <1>1, GatedShape
<1> HIDE DEF all
<1>3. Typed'
  BY <1>1, <1>2 DEF Own, Typed, Resting
<1>4. InSpace'
  BY <1>1, <1>2, SpaceAssumption DEF Own, Typed, InSpace, Judging, Building, Holding
<1>5. DisksOwn' /\ MapsOwn' /\ CompilersOwn'
  BY <1>1 DEF Own, DisksOwn, MapsOwn, CompilersOwn
<1>6. HeldOwn'
  BY <1>1 DEF Own, Typed, HeldOwn, Holding, MadeFor, OwnPrint, Candidate
<1>7. OutcomesAreOfTheirCandidates'
  <2> SUFFICES ASSUME NEW s \in Runs, NEW n \in DOMAIN outcomes'[s], outcomes'[s][n].kernel # Torn
               PROVE  Fingerprint[outcomes'[s][n].kernel] = Fingerprint[Space[s][n].kernel]
    BY DEF OutcomesAreOfTheirCandidates
  <2>1. CASE s = r
    <3>1. outcomes'[s] = all /\ n \in 1 .. Len(outcomes[r])
      BY <2>1, <1>1, <1>2
    <3>2. n \in DOMAIN outcomes[s] /\ outcomes'[s][n].kernel = outcomes[s][n].kernel
      BY <2>1, <3>1, <1>1, <1>2
    <3> QED BY <3>2 DEF Own, OutcomesAreOfTheirCandidates
  <2>2. CASE s # r
    BY <2>2, <1>1 DEF Own, OutcomesAreOfTheirCandidates
  <2> QED BY <2>1, <2>2 DEF Own, OutcomesAreOfTheirCandidates
<1> QED BY <1>3, <1>4, <1>5, <1>6, <1>7 DEF Own

\* A crash leaves the disk and the orphaned compilers as they are.
LEMMA CrashOwn == ASSUME Own, NEW r \in Runs, Crash(r) PROVE Own'
<1>1. Typed' /\ InSpace'
  BY DEF Own, Typed, InSpace, Crash, Goto, disk, Resting, Judging, Building, Holding
<1>2. DisksOwn' /\ MapsOwn' /\ CompilersOwn' /\ OutcomesAreOfTheirCandidates'
  BY DEF Own, DisksOwn, MapsOwn, CompilersOwn, OutcomesAreOfTheirCandidates, Crash, disk
<1>3. HeldOwn'
  BY DEF Own, Typed, HeldOwn, Crash, Goto, Holding, MadeFor, OwnPrint, Candidate
<1> QED BY <1>1, <1>2, <1>3 DEF Own

\* Nothing changes.
LEMMA StutterOwn == ASSUME Own, UNCHANGED vars PROVE Own'
<1>1. Typed' /\ InSpace'
  BY DEF Own, Typed, InSpace, vars, disk
<1>2. DisksOwn' /\ MapsOwn' /\ CompilersOwn' /\ OutcomesAreOfTheirCandidates'
  BY DEF Own, DisksOwn, MapsOwn, CompilersOwn, OutcomesAreOfTheirCandidates, vars, disk
<1>3. HeldOwn'
  BY DEF Own, HeldOwn, vars, disk, MadeFor, OwnPrint, Candidate
<1> QED BY <1>1, <1>2, <1>3 DEF Own

-----------------------------------------------------------------------------
(***************************************************************************)
(* A run that is on its way has a life, and so a place for its compiler.   *)
(***************************************************************************)

Lives ==
  /\ life \in [Runs -> Nat] /\ pc \in [Runs -> Judging \cup {"next"} \cup Resting]
  /\ \A r \in Runs : life[r] <= MaxLives[r] /\ (pc[r] \notin Resting => life[r] > 0)

\* What a step of a run that is on its way does to where runs are.
LEMMA RunStep ==
  ASSUME NEW r \in Runs,
         \/ Compile(r) \/ Probe(r) \/ Reuse(r) \/ Create(r) \/ Write(r) \/ Spawn(r)
         \/ Await(r) \/ Load(r) \/ Record(r) \/ Truncate(r) \/ Sign(r) \/ Certify(r) \/ Report(r) \/ Crash(r)
  PROVE  /\ life' = life /\ pc[r] \notin Resting
         /\ \E next \in Judging \cup {"next"} \cup Resting : Goto(r, next)
<1> USE DEF Judging, Building, Holding, Resting
<1>1. CASE Compile(r)
  BY <1>1 DEF Compile, Reject, Conclude
<1>2. CASE Probe(r)
  BY <1>2 DEF Probe
<1>3. CASE Reuse(r)
  BY <1>3 DEF Reuse, TakeLibrary
<1>4. CASE Create(r)
  BY <1>4 DEF Create, Reject, Conclude
<1>5. CASE Write(r)
  BY <1>5 DEF Write, Reject, Conclude
<1>6. CASE Spawn(r)
  BY <1>6 DEF Spawn, Reject, Conclude
<1>7. CASE Await(r)
  BY <1>7 DEF Await, Reject, Conclude
<1>8. CASE Load(r)
  BY <1>8 DEF Load, TakeLibrary, Reject, Conclude
<1>9. CASE Record(r)
  BY <1>9 DEF Record
<1>10. CASE Truncate(r)
  BY <1>10 DEF Truncate, Reject, Conclude
<1>11. CASE Sign(r)
  BY <1>11 DEF Sign, Reject, Conclude
<1>12. CASE Certify(r)
  BY <1>12 DEF Certify, Reject, Conclude
<1>13. CASE Report(r)
  BY <1>13 DEF Report
<1>14. CASE Crash(r)
  BY <1>14 DEF Crash
<1> QED BY <1>1, <1>2, <1>3, <1>4, <1>5, <1>6, <1>7, <1>8, <1>9, <1>10, <1>11, <1>12, <1>13, <1>14

\* A run takes a life when it starts and has one as long as it is on its way.
LEMMA LivesStep == Lives /\ [Next]_vars => Lives'
<1> SUFFICES ASSUME Lives, [Next]_vars PROVE Lives'
  OBVIOUS
<1>1. ASSUME NEW r \in Runs, Begin(r) PROVE Lives'
  <2>1. /\ life[r] < MaxLives[r] /\ MaxLives[r] \in Nat
        /\ life' = [life EXCEPT ![r] = life[r] + 1] /\ pc' = [pc EXCEPT ![r] = "next"]
    BY <1>1, SpaceAssumption DEF Begin, Goto
  <2> QED BY <2>1 DEF Lives
<1>2. ASSUME NEW r \in Runs, life' = life, pc[r] \notin Resting,
             NEW next \in Judging \cup {"next"} \cup Resting, Goto(r, next)
      PROVE  Lives'
  BY <1>2 DEF Lives, Goto
<1>3. CASE UNCHANGED <<life, pc>>
  BY <1>3 DEF Lives
<1>4. ASSUME NEW r \in Runs, NEW l \in 1 .. MaxLives[r], Read(r, l) \/ Unlink(r, l) \/ Link(r, l)
      PROVE  UNCHANGED <<life, pc>>
  BY <1>4 DEF Read, Unlink, Link, Phase
<1>5. UNCHANGED vars => UNCHANGED <<life, pc>>
  BY DEF vars
<1> QED BY <1>1, <1>2, <1>3, <1>4, <1>5, RunStep DEF Next

\* Every step keeps what is on the disk to its own print.
LEMMA OwnStep == Own /\ Lives /\ [Next]_vars => Own'
<1> SUFFICES ASSUME Own, Lives, [Next]_vars PROVE Own'
  OBVIOUS
<1>1. ASSUME NEW r \in Runs, Spawn(r) PROVE Own'
  <2>1. life[r] \in 1 .. MaxLives[r]
    <3>1. pc[r] = "spawn" /\ MaxLives[r] \in Nat
      BY <1>1, SpaceAssumption DEF Spawn
    <3> QED BY <3>1 DEF Lives, Resting
  <2> QED BY <1>1, <2>1, SpawnOwn
<1> QED
  BY <1>1, BeginOwn, CompileOwn, ProbeOwn, ReuseOwn, CreateOwn, WriteOwn, AwaitOwn, LoadOwn, RecordOwn,
     TruncateOwn, SignOwn, CertifyOwn, ReportOwn, CrashOwn, ReadOwn, UnlinkOwn, LinkOwn, StutterOwn
     DEF Next

\* So the cache is kept to its prints at every point.
LEMMA OwnInvariant == Spec => [](Own /\ Lives)
<1>1. Init => Lives
  BY SpaceAssumption DEF Init, Lives, Resting
<1> QED BY <1>1, InitOwn, OwnStep, LivesStep, PTL DEF Spec

\* Whatever runs build, die and overtake each other in the shared directories, a
\* candidate is judged by a library with its own fingerprint (fast_kernel.cpp:871).
THEOREM OutcomesOwn == Spec => []OutcomesAreOfTheirCandidates
<1>1. Own => OutcomesAreOfTheirCandidates
  BY DEF Own
<1> QED BY <1>1, OwnInvariant, PTL

-----------------------------------------------------------------------------
(***************************************************************************)
(* The winner. The minima that it is chosen by exist.                      *)
(***************************************************************************)

LEMMA NatMinimum ==
  ASSUME NEW S \in SUBSET Nat, S # {}
  PROVE  \E m \in S : \A n \in S : m <= n
<1> DEFINE R == OpToRel(<, Nat)
<1>1. IsWellFoundedOn(R, Nat)
  BY NatLessThanWellFounded
<1>2. PICK m \in S : \A n \in S : ~(<<n, m>> \in R)
  <2> HIDE DEF R
  <2> QED BY <1>1, WFMin
<1>3. ASSUME NEW n \in S PROVE m <= n
  <2>1. ~(n < m)
    BY <1>2 DEF OpToRel
  <2> QED BY <2>1
<1> QED BY <1>3

\* The times of a budget are naturals.
LEMMA BudgetType ==
  ASSUME NEW r \in Runs
  PROVE  /\ Budget[r].base \in Nat /\ Budget[r].extraMax \in Nat /\ Budget[r].threshold \in Nat
         /\ Budget[r].alpha \in Nat /\ Budget[r].executions \in Nat /\ BaselineRuntime[r] \in Nat
BY TimesAssumption

\* What the search minimises is a natural.
LEMMA ObjectiveType ==
  ASSUME NEW r \in Runs, NEW outcome \in Outcomes
  PROVE  Objective(r, outcome) \in Nat
<1>1. outcome.runtime \in Nat /\ outcome.comptime \in Nat
  BY DEF Outcomes
<1>2. Budget[r].executions * outcome.runtime \in Nat
  BY <1>1, BudgetType
<1> QED BY <1>1, <1>2 DEF Objective

\* The first of the best.
LEMMA WinnerExists ==
  ASSUME NEW r \in Runs, NEW all \in Seq(Outcomes), Admissible(all) # {}
  PROVE  /\ Winner(r, all) \in Admissible(all) /\ Winner(r, all) # 0
         /\ \A n \in Admissible(all) :
              /\ Objective(r, all[Winner(r, all)]) <= Objective(r, all[n])
              /\ n < Winner(r, all) => Objective(r, all[Winner(r, all)]) < Objective(r, all[n])
<1> DEFINE A == Admissible(all)
           cost(n) == Objective(r, all[n])
           best(w) == \A n \in A : cost(w) < cost(n) \/ (cost(w) = cost(n) /\ w <= n)
<1>1. \A n \in A : n \in Nat /\ n # 0 /\ all[n] \in Outcomes
  BY DEF Admissible
<1>2. \A n \in A : cost(n) \in Nat
  BY <1>1, ObjectiveType
<1> HIDE DEF cost
<1>3. PICK c \in {cost(n) : n \in A} : \A d \in {cost(n) : n \in A} : c <= d
  <2>1. {cost(n) : n \in A} \in SUBSET Nat /\ {cost(n) : n \in A} # {}
    BY <1>2
  <2> QED BY <2>1, NatMinimum
<1>4. PICK w \in {n \in A : cost(n) = c} : \A n \in {m \in A : cost(m) = c} : w <= n
  <2>1. {n \in A : cost(n) = c} \in SUBSET Nat /\ {n \in A : cost(n) = c} # {}
    BY <1>1, <1>3
  <2> QED BY <2>1, NatMinimum
<1>5. w \in A /\ best(w)
  <2> SUFFICES ASSUME NEW n \in A PROVE cost(w) < cost(n) \/ (cost(w) = cost(n) /\ w <= n)
    BY <1>4
  <2>1. c <= cost(n) /\ cost(w) = c /\ cost(n) \in Nat /\ c \in Nat
    BY <1>2, <1>3, <1>4
  <2> QED BY <2>1, <1>4
<1>6. Winner(r, all) = CHOOSE v \in A : best(v)
  BY DEF Winner, cost
<1> HIDE DEF best, A
<1>7. Winner(r, all) \in A /\ best(Winner(r, all))
  BY <1>5, <1>6
<1>8. ASSUME NEW n \in A
      PROVE  /\ cost(Winner(r, all)) <= cost(n)
             /\ n < Winner(r, all) => cost(Winner(r, all)) < cost(n)
  BY <1>1, <1>2, <1>7 DEF best
<1> QED BY <1>1, <1>7, <1>8 DEF A, cost

\* The runtime to improve on is one of a candidate at the base compile time.
LEMMA BaseRuntimeLeast ==
  ASSUME NEW r \in Runs, NEW all \in Seq(Outcomes),
         NEW n \in Admissible(all), ~all[n].extra
  PROVE  BaseRuntime(r, all) \in Nat /\ BaseRuntime(r, all) <= all[n].runtime
<1> DEFINE same == {k \in Admissible(all) : ~all[k].extra}
           times == {all[k].runtime : k \in same}
<1>1. times \in SUBSET Nat /\ all[n].runtime \in times /\ same # {}
  <2>1. \A k \in same : all[k] \in Outcomes
    BY DEF Admissible
  <2> QED BY <2>1 DEF Outcomes
<1>2. \E u \in times : \A t \in times : u <= t
  BY <1>1, NatMinimum
<1>3. BaseRuntime(r, all) = CHOOSE u \in times : \A k \in same : u <= all[k].runtime
  BY <1>1 DEF BaseRuntime
<1> HIDE DEF same
<1>4. \E u \in times : \A k \in same : u <= all[k].runtime
  BY <1>2
<1>5. BaseRuntime(r, all) \in times /\ \A k \in same : BaseRuntime(r, all) <= all[k].runtime
  BY <1>3, <1>4
<1> QED BY <1>1, <1>5 DEF same

\* Whatever form the payoff takes, it is a gain.
LEMMA JustifiedGains ==
  ASSUME NEW r \in Runs, NEW outcome \in Outcomes, NEW base \in Nat, Justified(r, outcome, base)
  PROVE  outcome.runtime < base
<1>1. outcome.runtime \in Nat
  BY DEF Outcomes
<1>2. base - outcome.runtime > 0
  BY DEF Justified
<1> QED BY <1>1, <1>2

\* After the gate, what cost extra and stayed is faster than what did not.
LEMMA GateJustifies ==
  ASSUME NEW r \in Runs, NEW all \in Seq(Outcomes), Budget[r].mode = "bounded",
         NEW w \in Admissible(Gated(r, all)), NEW n \in Admissible(Gated(r, all)),
         Gated(r, all)[w].extra, ~Gated(r, all)[n].extra
  PROVE  Gated(r, all)[w].runtime < Gated(r, all)[n].runtime
<1>1. w \in 1 .. Len(all) /\ n \in 1 .. Len(all)
  BY GatedShape DEF Admissible
<1>2. /\ all[w] \in Outcomes /\ all[w].reject = "none" /\ all[w].extra
      /\ all[n].reject = "none" /\ ~all[n].extra
      /\ Gated(r, all)[w].runtime = all[w].runtime /\ Gated(r, all)[n].runtime = all[n].runtime
  <2>1. Gated(r, all)[w].reject = "none" /\ Gated(r, all)[n].reject = "none"
    BY DEF Admissible
  <2> QED BY <1>1, <2>1, GatedShape
<1>3. Justified(r, all[w], BaseRuntime(r, all))
  <2> SUFFICES ASSUME ~Justified(r, all[w], BaseRuntime(r, all)) PROVE FALSE
    OBVIOUS
  <2>1. Gated(r, all)[w] = [all[w] EXCEPT !.reject = "justification"]
    BY <1>1, <1>2 DEF Gated
  <2>2. Gated(r, all)[w].reject = "justification"
    BY <1>2, <2>1 DEF Outcomes
  <2> QED BY <2>2 DEF Admissible
<1>4. n \in Admissible(all)
  BY <1>1, <1>2 DEF Admissible
<1>5. /\ BaseRuntime(r, all) \in Nat /\ BaseRuntime(r, all) <= all[n].runtime
      /\ all[w].runtime < BaseRuntime(r, all) /\ all[w].runtime \in Nat /\ all[n].runtime \in Nat
  <2>1. all[n] \in Outcomes
    BY <1>1
  <2> QED BY <1>2, <1>3, <1>4, <2>1, BaseRuntimeLeast, JustifiedGains DEF Outcomes
<1> QED BY <1>2, <1>5

-----------------------------------------------------------------------------
(***************************************************************************)
(* What was not refused passed, and stays passed.                          *)
(***************************************************************************)

Passed(r, outcome) ==
  outcome.reject = "none" => Computes[outcome.kernel] = Expected[r] /\ outcome.comptime <= Allowed(r)
Judged == \A r \in Runs : \A n \in DOMAIN outcomes[r] : Passed(r, outcomes[r][n])

\* A step does one of four things to the outcomes and the report of a run.
Stays(r) == outcomes'[r] = outcomes[r] /\ report'[r] = report[r] /\ (pc'[r] = "reported" => pc[r] = "reported")
Restarts(r) == outcomes'[r] = <<>> /\ pc'[r] = "next"
Adds(r) ==
  \E o \in Outcomes : Passed(r, o) /\ outcomes'[r] = Append(outcomes[r], o) /\ pc'[r] = "next"

\* A refusal adds one outcome and leaves the other runs.
LEMMA RejectAdds ==
  ASSUME Own, NEW r \in Runs, NEW reason \in Rejections \ {"none"}, Reject(r, reason)
  PROVE  Adds(r) /\ \A s \in Runs \ {r} : Stays(s)
<1> DEFINE o == [reject |-> reason, kernel |-> Torn, comptime |-> 0, runtime |-> 0,
                 extra |-> reason = "none" /\ 0 > Budget[r].base]
<1>1. /\ outcomes' = [outcomes EXCEPT ![r] = Append(outcomes[r], o)] /\ pc' = [pc EXCEPT ![r] = "next"]
      /\ report' = report
  BY DEF Reject, Conclude, Goto
<1>2. o \in Outcomes /\ Passed(r, o)
  BY DEF Outcomes, Passed
<1> HIDE DEF o
<1> QED BY <1>1, <1>2 DEF Adds, Stays, Own, Typed

\* A judgement adds one outcome and leaves the other runs.
LEMMA CertifyAdds ==
  ASSUME Own, NEW r \in Runs, Certify(r)
  PROVE  Adds(r) /\ \A s \in Runs \ {r} : Stays(s)
<1>1. CASE Reject(r, "failed")
  BY <1>1, RejectAdds DEF Rejections
<1>2. CASE ~Reject(r, "failed")
  <2>1. PICK comptime \in Nat, runtime \in Nat :
          Conclude(r, Verdict(r, comptime), loaded[r], comptime, runtime)
    BY <1>2, CertifyShape
  <2> DEFINE v == Verdict(r, comptime)
             o == [reject |-> v, kernel |-> loaded[r], comptime |-> comptime, runtime |-> runtime,
                   extra |-> v = "none" /\ comptime > Budget[r].base]
  <2>2. /\ outcomes' = [outcomes EXCEPT ![r] = Append(outcomes[r], o)] /\ pc' = [pc EXCEPT ![r] = "next"]
        /\ report' = report
    BY <2>1 DEF Conclude, Goto
  <2>3. v \in Rejections /\ loaded[r] \in Kernels \cup {Torn}
        /\ (v = "none" => Computes[loaded[r]] = Expected[r] /\ ~(comptime > Allowed(r)))
    BY DEF Own, Typed, Verdict, Rejections
  <2>4. Allowed(r) \in Nat
    BY BudgetType DEF Allowed
  <2> HIDE DEF v
  <2>5. o \in Outcomes /\ Passed(r, o)
    BY <2>3, <2>4 DEF Outcomes, Passed
  <2> HIDE DEF o
  <2> QED BY <2>2, <2>5 DEF Adds, Stays, Own, Typed
<1> QED BY <1>1, <1>2

\* No step but a report does more to a run than add an outcome.
LEMMA StaysOrAdds ==
  ASSUME Own, NEW r \in Runs,
         \/ Compile(r) \/ Probe(r) \/ Reuse(r) \/ Create(r) \/ Write(r) \/ Spawn(r)
         \/ Await(r) \/ Load(r) \/ Record(r) \/ Truncate(r) \/ Sign(r) \/ Certify(r) \/ Crash(r)
  PROVE  (Stays(r) \/ Adds(r)) /\ \A s \in Runs \ {r} : Stays(s)
<1>1. ASSUME NEW reason \in {"limit", "failed", "torn"}, Reject(r, reason)
      PROVE  Adds(r) /\ \A s \in Runs \ {r} : Stays(s)
  BY <1>1, RejectAdds DEF Rejections
<1>2. ASSUME NEW next \in Judging \cup {"next", "idle"}, Goto(r, next), UNCHANGED <<outcomes, report>>
      PROVE  Stays(r) /\ \A s \in Runs \ {r} : Stays(s)
  BY <1>2 DEF Stays, Goto, Own, Typed, Judging, Building, Holding
<1>3. CASE Certify(r)
  BY <1>3, CertifyAdds
<1>4. Compile(r) => Reject(r, "limit") \/ Reject(r, "failed")
                    \/ (Goto(r, "probe") /\ UNCHANGED <<outcomes, report>>)
                    \/ (Goto(r, "certify") /\ UNCHANGED <<outcomes, report>>)
  BY DEF Compile
<1>5. Probe(r) \/ Reuse(r) \/ Record(r) =>
        \E next \in {"reuse", "create", "certify", "truncate"} : Goto(r, next) /\ UNCHANGED <<outcomes, report>>
  BY DEF Probe, Reuse, Record, TakeLibrary
<1>6. Create(r) \/ Write(r) \/ Spawn(r) \/ Truncate(r) \/ Sign(r) =>
        \/ Reject(r, "failed")
        \/ \E next \in {"write", "spawn", "wait", "sign", "certify"} :
             Goto(r, next) /\ UNCHANGED <<outcomes, report>>
  BY DEF Create, Write, Spawn, Truncate, Sign
<1>7. Await(r) \/ Load(r) =>
        \/ Reject(r, "torn")
        \/ \E next \in {"load", "record"} : Goto(r, next) /\ UNCHANGED <<outcomes, report>>
  BY DEF Await, Load, TakeLibrary
<1>8. Crash(r) => Goto(r, "idle") /\ UNCHANGED <<outcomes, report>>
  BY DEF Crash
<1> QED BY <1>1, <1>2, <1>3, <1>4, <1>5, <1>6, <1>7, <1>8 DEF Judging, Building, Holding

\* What WinnerJustified says of one run.
Won(r, all, w) ==
  /\ Len(all) = Len(Space[r])
  /\ w = 0 => Admissible(all) = {}
  /\ w # 0 =>
       /\ w \in Admissible(all) /\ Computes[all[w].kernel] = Expected[r]
       /\ all[w].comptime <= Allowed(r)
       /\ \A n \in Admissible(all) :
            /\ Objective(r, all[w]) <= Objective(r, all[n])
            /\ n < w => Objective(r, all[w]) < Objective(r, all[n])
            /\ Budget[r].mode = "bounded" /\ all[w].extra /\ ~all[n].extra =>
                 all[w].runtime < all[n].runtime

\* What is reported is the best of what passed.
LEMMA ReportWins ==
  ASSUME Own, Judged, report = [s \in Runs |-> report[s]], NEW r \in Runs, Report(r)
  PROVE  /\ \A n \in DOMAIN outcomes'[r] : Passed(r, outcomes'[r][n])
         /\ Won(r, outcomes'[r], report'[r].winner)
         /\ \A s \in Runs \ {r} : Stays(s)
         /\ report' = [s \in Runs |-> report'[s]]
<1> DEFINE old == outcomes[r]
           all == Gated(r, old)
           w == Winner(r, all)
<1>1. /\ old \in Seq(Outcomes) /\ Len(old) = Len(Space[r]) /\ outcomes \in [Runs -> Seq(Outcomes)]
      /\ outcomes' = [outcomes EXCEPT ![r] = all] /\ pc' = [pc EXCEPT ![r] = "reported"]
      /\ pc \in [Runs -> Judging \cup {"next"} \cup Resting]
  BY DEF Own, Typed, Report, Goto
<1>2. all \in Seq(Outcomes) /\ Len(all) = Len(Space[r])
  BY <1>1, GatedShape
<1>3. ASSUME NEW n \in 1 .. Len(all) PROVE Passed(r, all[n])
  <2>1. n \in 1 .. Len(old) /\ Passed(r, old[n])
    BY <1>1, <1>2 DEF Judged
  <2> HIDE DEF old
  <2>2. /\ all[n].reject \in {old[n].reject, "justification"} /\ all[n].kernel = old[n].kernel
        /\ all[n].comptime = old[n].comptime
    BY <1>1, <2>1, GatedShape
  <2> HIDE DEF all
  <2> QED BY <2>1, <2>2 DEF Passed
<1>4. w # 0 => /\ w \in Admissible(all)
               /\ \A n \in Admissible(all) :
                    /\ Objective(r, all[w]) <= Objective(r, all[n])
                    /\ n < w => Objective(r, all[w]) < Objective(r, all[n])
  <2>1. CASE Admissible(all) = {}
    BY <2>1 DEF Winner
  <2>2. CASE Admissible(all) # {}
    <3> HIDE DEF all
    <3> QED BY <2>2, <1>2, WinnerExists
  <2> QED BY <2>1, <2>2
<1>5. w = 0 => Admissible(all) = {}
  <2> HIDE DEF all
  <2> QED BY <1>2, WinnerExists
<1>6. ASSUME Budget[r].mode = "bounded", NEW a \in Admissible(all), NEW b \in Admissible(all),
             all[a].extra, ~all[b].extra
      PROVE  all[a].runtime < all[b].runtime
  BY <1>1, <1>6, GateJustifies
<1>7. w \in Admissible(all) =>
        w \in 1 .. Len(all) /\ all[w].reject = "none"
  BY <1>2 DEF Admissible
<1>8. Won(r, all, w)
  <2> HIDE DEF all, w
  <2> QED BY <1>2, <1>3, <1>4, <1>5, <1>6, <1>7 DEF Won, Passed
<1>9. outcomes'[r] = all /\ report'[r].winner = w
  <2>1. /\ report' = [report EXCEPT ![r] =
             [winner |-> w,
              exhaustive |-> \A n \in DOMAIN all : all[n].reject \notin {"failed", "torn"}]]
    BY DEF Report
  <2> HIDE DEF all, w
  <2> QED BY <1>1, <2>1
<1>10. \A s \in Runs \ {r} : Stays(s)
  <2> HIDE DEF all
  <2> QED BY <1>1 DEF Stays, Report
<1>11. report' = [s \in Runs |-> report'[s]]
  BY DEF Report
<1>12. \A n \in DOMAIN outcomes'[r] : Passed(r, outcomes'[r][n])
  <2> HIDE DEF all
  <2> QED BY <1>2, <1>3, <1>9
<1> HIDE DEF all, w
<1> QED BY <1>8, <1>9, <1>10, <1>11, <1>12

\* What was not refused passed, and what was reported won.
Fair ==
  /\ Judged /\ report = [s \in Runs |-> report[s]]
  /\ \A r \in Runs : pc[r] = "reported" => Won(r, outcomes[r], report[r].winner)

\* Outcomes that are only added to stay judged.
LEMMA FairKept ==
  ASSUME Own, Fair, report' = [s \in Runs |-> report'[s]],
         \A s \in Runs : Stays(s) \/ Restarts(s) \/ Adds(s)
  PROVE  Fair'
<1>1. ASSUME NEW s \in Runs, NEW n \in DOMAIN outcomes'[s] PROVE Passed(s, outcomes'[s][n])
  <2>1. CASE Stays(s)
    BY <1>1, <2>1 DEF Stays, Fair, Judged
  <2>2. CASE Restarts(s)
    BY <1>1, <2>2 DEF Restarts
  <2>3. CASE Adds(s)
    <3>1. PICK o \in Outcomes : Passed(s, o) /\ outcomes'[s] = Append(outcomes[s], o)
      BY <2>3 DEF Adds
    <3>2. outcomes[s] \in Seq(Outcomes)
      BY DEF Own, Typed
    <3>3. CASE n \in 1 .. Len(outcomes[s])
      <4>1. outcomes'[s][n] = outcomes[s][n]
        BY <3>1, <3>2, <3>3
      <4> QED BY <4>1, <3>2, <3>3 DEF Fair, Judged
    <3>4. CASE n \notin 1 .. Len(outcomes[s])
      <4>1. n = Len(outcomes[s]) + 1
        BY <1>1, <3>1, <3>2, <3>4
      <4>2. outcomes'[s][n] = o
        BY <3>1, <3>2, <4>1
      <4> QED BY <3>1, <4>2
    <3> QED BY <3>3, <3>4
  <2> QED BY <2>1, <2>2, <2>3
<1>2. ASSUME NEW s \in Runs, pc'[s] = "reported" PROVE Won(s, outcomes'[s], report'[s].winner)
  BY <1>2 DEF Stays, Restarts, Adds, Fair
<1> QED BY <1>1, <1>2 DEF Fair, Judged, Passed, Won

\* Every step keeps the judgements.
LEMMA FairStep == Own /\ Fair /\ [Next]_vars => Fair'
<1> SUFFICES ASSUME Own, Fair, [Next]_vars PROVE Fair'
  OBVIOUS
<1>1. CASE UNCHANGED vars
  <2>1. \A s \in Runs : Stays(s)
    BY <1>1 DEF vars, Stays
  <2> QED BY <1>1, <2>1, FairKept DEF vars, Fair
<1>2. ASSUME NEW r \in Runs, Begin(r) PROVE Fair'
  <2>1. /\ outcomes' = [outcomes EXCEPT ![r] = <<>>] /\ report' = [report EXCEPT ![r] = NoReport]
        /\ pc' = [pc EXCEPT ![r] = "next"]
    BY <1>2 DEF Begin, Goto
  <2>2. \A s \in Runs : Stays(s) \/ Restarts(s)
    BY <2>1 DEF Stays, Restarts, Own, Typed, Fair
  <2> QED BY <2>1, <2>2, FairKept DEF Fair
<1>3. ASSUME NEW r \in Runs,
         \/ Compile(r) \/ Probe(r) \/ Reuse(r) \/ Create(r) \/ Write(r) \/ Spawn(r)
         \/ Await(r) \/ Load(r) \/ Record(r) \/ Truncate(r) \/ Sign(r) \/ Certify(r) \/ Crash(r)
      PROVE  Fair'
  <2>1. \A s \in Runs : Stays(s) \/ Adds(s)
    BY <1>3, StaysOrAdds
  <2>2. UNCHANGED report
    BY <1>3 DEF Compile, Probe, Reuse, Create, Write, Spawn, Await, Load, Record, Truncate, Sign, Certify,
                Crash, Reject, Conclude, TakeLibrary
  <2> QED BY <2>1, <2>2, FairKept DEF Fair
<1>4. ASSUME NEW r \in Runs, Report(r) PROVE Fair'
  <2>1. /\ \A n \in DOMAIN outcomes'[r] : Passed(r, outcomes'[r][n])
        /\ Won(r, outcomes'[r], report'[r].winner)
        /\ \A s \in Runs \ {r} : Stays(s)
        /\ report' = [s \in Runs |-> report'[s]]
    BY <1>4, ReportWins DEF Fair
  <2>2. ASSUME NEW s \in Runs, NEW n \in DOMAIN outcomes'[s] PROVE Passed(s, outcomes'[s][n])
    BY <2>1, <2>2 DEF Stays, Fair, Judged
  <2>3. ASSUME NEW s \in Runs, pc'[s] = "reported" PROVE Won(s, outcomes'[s], report'[s].winner)
    BY <2>1, <2>3 DEF Stays, Fair
  <2> QED BY <2>1, <2>2, <2>3 DEF Fair, Judged, Passed, Won
<1>5. ASSUME NEW r \in Runs, NEW l \in 1 .. MaxLives[r], Read(r, l) \/ Unlink(r, l) \/ Link(r, l)
      PROVE  Fair'
  <2>1. UNCHANGED <<outcomes, report, pc>>
    BY <1>5 DEF Read, Unlink, Link, Phase
  <2>2. \A s \in Runs : Stays(s)
    BY <2>1 DEF Stays
  <2> QED BY <2>1, <2>2, FairKept DEF Fair
<1> QED BY <1>1, <1>2, <1>3, <1>4, <1>5 DEF Next

\* Every winner that is reported is admissible, of the reference's answer, within
\* the budget, the first of the best, and, if it cost extra compile time, faster
\* than all that did not (fast_kernel.cpp:1345-1398).
THEOREM WinnersJustified == Spec => []WinnerJustified
<1>1. Init => Fair
  <2> SUFFICES ASSUME Init PROVE Fair
    OBVIOUS
  <2> QED BY DEF Init, Fair, Judged
<1>2. Fair => WinnerJustified
  <2> SUFFICES ASSUME Fair PROVE WinnerJustified
    OBVIOUS
  <2> QED BY DEF Fair, Won, WinnerJustified
<1> QED BY <1>1, <1>2, FairStep, OwnInvariant, PTL DEF Spec

-----------------------------------------------------------------------------
(***************************************************************************)
(* A run alone. While it is on its way every other run rests, no compiler  *)
(* works but the one it waits for, and that one has a whole text.          *)
(***************************************************************************)

NoneTorn(r) == \A n \in DOMAIN outcomes[r] : outcomes[r][n].reject # "torn"

Undisturbed(r) ==
  /\ \A other \in Runs \ {r} : pc[other] \in Resting
  /\ \A other \in Runs : \A l \in 1 .. MaxLives[other] :
       compiler[other][l].phase \in Busy => other = r /\ l = life[r] /\ pc[r] = "wait"

WholeText(r) ==
  /\ pc[r] = "spawn" => source[Dir(r)] # Torn
  /\ pc[r] = "load" => library[Dir(r)] # Torn
  /\ pc[r] = "wait" =>
       LET own == compiler[r][life[r]]
       IN /\ own.dir = Dir(r) /\ own.phase \in Busy \cup {"linked"}
          /\ own.phase = "reading" => source[Dir(r)] # Torn
          /\ own.phase \in {"unlinking", "linking"} => own.text # Torn
          /\ own.phase = "linked" => library[Dir(r)] # Torn

LoneRun(r) == NoneTorn(r) /\ (pc[r] \notin Resting => Undisturbed(r) /\ WholeText(r))
Lone == \A r \in Runs : alone[r] => LoneRun(r)

\* A candidate is over for another reason than a torn file.
LEMMA ConcludeLone ==
  ASSUME Own, NEW r \in Runs, LoneRun(r), pc[r] \notin Resting \cup {"wait"},
         NEW reject \in Rejections \ {"torn"}, NEW kernel \in Kernels \cup {Torn},
         NEW comptime \in Nat, NEW runtime \in Nat, Conclude(r, reject, kernel, comptime, runtime)
  PROVE  LoneRun(r)'
<1> DEFINE o == [reject |-> reject, kernel |-> kernel, comptime |-> comptime, runtime |-> runtime,
                 extra |-> reject = "none" /\ comptime > Budget[r].base]
<1>1. /\ outcomes' = [outcomes EXCEPT ![r] = Append(outcomes[r], o)] /\ pc' = [pc EXCEPT ![r] = "next"]
      /\ UNCHANGED <<source, library, compiler, life>>
  BY DEF Conclude, Goto, disk
<1>2. o \in Outcomes /\ o.reject # "torn" /\ outcomes[r] \in Seq(Outcomes)
  BY DEF Outcomes, Own, Typed
<1> HIDE DEF o
<1>3. NoneTorn(r)'
  <2> SUFFICES ASSUME NEW n \in DOMAIN outcomes'[r] PROVE outcomes'[r][n].reject # "torn"
    BY DEF NoneTorn
  <2>1. outcomes'[r] = Append(outcomes[r], o)
    BY <1>1 DEF Own, Typed
  <2>2. CASE n \in 1 .. Len(outcomes[r])
    <3>1. outcomes'[r][n] = outcomes[r][n]
      BY <1>2, <2>1, <2>2
    <3> QED BY <3>1, <1>2, <2>2 DEF LoneRun, NoneTorn
  <2>3. CASE n \notin 1 .. Len(outcomes[r])
    <3>1. n = Len(outcomes[r]) + 1
      BY <1>2, <2>1, <2>3
    <3>2. outcomes'[r][n] = o
      BY <1>2, <2>1, <3>1
    <3> QED BY <3>2, <1>2
  <2> QED BY <2>2, <2>3
<1>4. pc'[r] = "next" /\ \A s \in Runs \ {r} : pc'[s] = pc[s]
  BY <1>1 DEF Own, Typed
<1>5. Undisturbed(r)'
  BY <1>1, <1>4 DEF LoneRun, Undisturbed
<1>6. WholeText(r)'
  BY <1>4 DEF WholeText
<1> QED BY <1>3, <1>5, <1>6 DEF LoneRun

\* A refusal for another reason than a torn file.
LEMMA RejectLone ==
  ASSUME Own, NEW r \in Runs, LoneRun(r), pc[r] \notin Resting \cup {"wait"},
         NEW reason \in Rejections \ {"torn"}, Reject(r, reason)
  PROVE  LoneRun(r)'
BY ConcludeLone DEF Reject

\* The steps after which nothing is expected of the files.
LEMMA GotoLone ==
  ASSUME Own, NEW r \in Runs, LoneRun(r), pc[r] \notin Resting \cup {"wait"},
         NEW next \in Judging \ {"spawn", "wait", "load"}, Goto(r, next), UNCHANGED <<compiler, outcomes>>
  PROVE  LoneRun(r)'
<1>1. pc'[r] = next /\ \A s \in Runs \ {r} : pc'[s] = pc[s]
  BY DEF Own, Typed, Goto
<1>2. NoneTorn(r)'
  BY DEF LoneRun, NoneTorn
<1>3. Undisturbed(r)'
  BY <1>1 DEF LoneRun, Undisturbed
<1>4. WholeText(r)'
  BY <1>1 DEF WholeText
<1> QED BY <1>2, <1>3, <1>4 DEF LoneRun

\* Where a run works stays while its candidate does.
LEMMA SameDir ==
  ASSUME NEW r \in Runs, UNCHANGED outcomes
  PROVE  Dir(r)' = Dir(r) /\ OwnPrint(r)' = OwnPrint(r)
BY DEF Dir, OwnPrint, Candidate, Directory

\* A source is written in whole.
LEMMA WriteLone ==
  ASSUME Own, NEW r \in Runs, LoneRun(r), Write(r)
  PROVE  LoneRun(r)'
<1>1. pc[r] = "write" /\ Len(outcomes[r]) < Len(Space[r])
  BY DEF Own, InSpace, Write, Judging, Building
<1>2. CASE Reject(r, "failed")
  BY <1>1, <1>2, RejectLone DEF Rejections, Resting
<1>3. CASE ~Reject(r, "failed")
  <2>1. /\ source' = [source EXCEPT ![Dir(r)] = Candidate(r).kernel] /\ Goto(r, "spawn")
        /\ UNCHANGED <<compiler, outcomes>>
    BY <1>3 DEF Write
  <2>2. Dir(r) \in Fingerprints /\ Candidate(r).kernel # Torn
    BY <1>1, CandidateType, KernelsAssumption DEF Own, Typed, Variants
  <2>3. pc'[r] = "spawn" /\ \A s \in Runs \ {r} : pc'[s] = pc[s]
    BY <2>1 DEF Own, Typed, Goto
  <2>4. source'[Dir(r)] # Torn
    BY <2>1, <2>2 DEF Own, Typed
  <2>5. WholeText(r)'
    BY <2>1, <2>3, <2>4, SameDir DEF WholeText
  <2>6. NoneTorn(r)' /\ Undisturbed(r)'
    BY <1>1, <2>1, <2>3 DEF LoneRun, NoneTorn, Undisturbed, Resting
  <2> QED BY <2>5, <2>6 DEF LoneRun
<1> QED BY <1>2, <1>3

\* The only compiler in the directory is the run's own.
LEMMA SpawnLone ==
  ASSUME Own, Lives, NEW r \in Runs, LoneRun(r), Spawn(r)
  PROVE  LoneRun(r)'
<1>1. pc[r] = "spawn"
  BY DEF Spawn
<1>2. CASE Reject(r, "failed")
  BY <1>1, <1>2, RejectLone DEF Rejections, Resting
<1>3. CASE ~Reject(r, "failed")
  <2> DEFINE new == [dir |-> Dir(r), text |-> Torn, phase |-> "reading"]
  <2>1. /\ compiler' = [compiler EXCEPT ![r][life[r]] = new] /\ Goto(r, "wait")
        /\ UNCHANGED <<source, life, outcomes>>
    BY <1>3 DEF Spawn, disk
  <2>2. life[r] \in 1 .. MaxLives[r]
    <3>1. MaxLives[r] \in Nat
      BY SpaceAssumption
    <3> QED BY <1>1, <3>1 DEF Lives, Resting
  <2>3. pc'[r] = "wait" /\ \A s \in Runs \ {r} : pc'[s] = pc[s]
    BY <2>1 DEF Own, Typed, Goto
  <2>4. \A s \in Runs : \A m \in 1 .. MaxLives[s] :
          compiler'[s][m] = IF s = r /\ m = life[r] THEN new ELSE compiler[s][m]
    BY <2>1, <2>2 DEF Own, Typed
  <2>5. source[Dir(r)] # Torn
    BY <1>1 DEF LoneRun, WholeText, Resting
  <2>6. WholeText(r)'
    BY <2>1, <2>2, <2>3, <2>4, <2>5, SameDir DEF WholeText, Busy
  <2>7. NoneTorn(r)' /\ Undisturbed(r)'
    BY <1>1, <2>1, <2>3, <2>4 DEF LoneRun, NoneTorn, Undisturbed, Resting
  <2> QED BY <2>6, <2>7 DEF LoneRun
<1> QED BY <1>2, <1>3

\* A run that waited finds what its compiler linked.
LEMMA AwaitLone ==
  ASSUME Own, Lives, NEW r \in Runs, LoneRun(r), Await(r)
  PROVE  LoneRun(r)'
<1>1. pc[r] = "wait" /\ compiler[r][life[r]].phase = "linked"
  BY DEF Await, LoneRun, WholeText, Resting, Busy
<1>2. Goto(r, "load") /\ UNCHANGED <<library, compiler, life, outcomes>>
  BY <1>1 DEF Await, disk
<1>3. pc'[r] = "load" /\ \A s \in Runs \ {r} : pc'[s] = pc[s]
  BY <1>2 DEF Own, Typed, Goto
<1>4. WholeText(r)'
  BY <1>1, <1>2, <1>3, SameDir DEF LoneRun, WholeText, Resting
<1>5. NoneTorn(r)' /\ Undisturbed(r)'
  BY <1>1, <1>2, <1>3 DEF LoneRun, NoneTorn, Undisturbed, Resting, Busy
<1> QED BY <1>4, <1>5 DEF LoneRun

\* What is loaded is whole.
LEMMA LoadLone ==
  ASSUME Own, NEW r \in Runs, LoneRun(r), Load(r)
  PROVE  LoneRun(r)'
<1>1. pc[r] = "load" /\ Opened(r) # Torn
  BY DEF Load, LoneRun, WholeText, Resting, Opened
<1> QED BY <1>1, GotoLone DEF Load, TakeLibrary, Judging, Holding, Resting

\* The only compiler at work is the run's own, and it takes its whole text along.
LEMMA PhaseLone ==
  ASSUME Own, Lives, NEW r \in Runs, LoneRun(r), NEW o \in Runs, NEW l \in 1 .. MaxLives[o],
         Read(o, l) \/ Unlink(o, l) \/ Link(o, l)
  PROVE  LoneRun(r)'
<1>1. UNCHANGED <<source, life, pc, outcomes>> /\ compiler[o][l].phase \in Busy
  BY DEF Read, Unlink, Link, Phase, Busy
<1>2. CASE pc[r] \in Resting
  BY <1>1, <1>2 DEF LoneRun, NoneTorn
<1>3. CASE pc[r] \notin Resting
  <2>1. o = r /\ l = life[r] /\ pc[r] = "wait"
    BY <1>1, <1>3 DEF LoneRun, Undisturbed
  <2> DEFINE own == compiler[r][life[r]]
             new == compiler'[r][life[r]]
  <2>2. own.dir = Dir(r) /\ own \in CompilerStates /\ Dir(r) \in Fingerprints
    BY <1>1, <1>3, <2>1 DEF LoneRun, WholeText, Own, Typed, CompilersOwn
  <2>3. ASSUME NEW phase \in {"unlinking", "linking", "linked", "failed"}, NEW text, Phase(r, life[r], phase, text)
        PROVE  /\ new.dir = own.dir /\ new.phase = phase /\ new.text = text
               /\ \A s \in Runs : \A m \in 1 .. MaxLives[s] :
                    s # r \/ m # life[r] => compiler'[s][m] = compiler[s][m]
    <3>1. compiler = [s \in Runs |-> [m \in 1 .. MaxLives[s] |-> compiler[s][m]]]
      BY DEF Own, Typed
    <3>2. compiler' = [compiler EXCEPT ![r][life[r]] = [own EXCEPT !.phase = phase, !.text = text]]
      BY <2>3, <3>1, ZenonT(40) DEF Phase
    <3>3. new = [own EXCEPT !.phase = phase, !.text = text]
      BY <2>1, <3>1, <3>2
    <3> HIDE DEF own, new
    <3>4. new.dir = own.dir /\ new.phase = phase /\ new.text = text
      BY <2>2, <3>3 DEF CompilerStates
    <3>5. \A s \in Runs : \A m \in 1 .. MaxLives[s] :
            s # r \/ m # life[r] => compiler'[s][m] = compiler[s][m]
      BY <3>1, <3>2, SMTT(30)
    <3> QED BY <3>4, <3>5
  <2>4. \E phase \in {"unlinking", "linking", "linked", "failed"}, text \in Kernels \cup {Torn} :
          Phase(r, life[r], phase, text)
    <3>1. own.text \in Kernels \cup {Torn} /\ source[own.dir] \in Kernels \cup {Torn}
      BY <2>2 DEF Own, Typed, CompilerStates
    <3>2. CASE Read(r, life[r])
      <4>1. \/ Phase(r, life[r], "unlinking", source[own.dir])
            \/ Phase(r, life[r], "failed", source[own.dir])
        BY <3>2 DEF Read
      <4> QED BY <3>1, <4>1
    <3>3. CASE Unlink(r, life[r])
      <4>1. Phase(r, life[r], "linking", own.text)
        BY <3>3 DEF Unlink
      <4> QED BY <3>1, <4>1
    <3>4. CASE Link(r, life[r])
      <4>1. Phase(r, life[r], "linked", own.text)
        BY <3>4 DEF Link
      <4> QED BY <3>1, <4>1
    <3> QED BY <2>1, <3>2, <3>3, <3>4
  <2>5. NoneTorn(r)' /\ Undisturbed(r)'
    BY <1>1, <1>3, <2>1, <2>3, <2>4 DEF LoneRun, NoneTorn, Undisturbed
  <2>6. /\ own.phase = "reading" => source[Dir(r)] # Torn
        /\ own.phase \in {"unlinking", "linking"} => own.text # Torn
    BY <1>3, <2>1 DEF LoneRun, WholeText
  <2>7. CASE Read(r, life[r])
    <3>1. Phase(r, life[r], "unlinking", source[Dir(r)]) /\ source[Dir(r)] # Torn
      BY <2>2, <2>6, <2>7 DEF Read
    <3>2. new.dir = Dir(r) /\ new.phase = "unlinking" /\ new.text # Torn
      BY <2>2, <2>3, <3>1
    <3> QED BY <1>1, <2>1, <2>5, <3>2, SameDir DEF LoneRun, WholeText, Busy
  <2>8. CASE Unlink(r, life[r])
    <3>1. Phase(r, life[r], "linking", own.text) /\ own.text # Torn
      BY <2>6, <2>8 DEF Unlink
    <3>2. new.dir = Dir(r) /\ new.phase = "linking" /\ new.text # Torn
      BY <2>2, <2>3, <3>1
    <3> QED BY <1>1, <2>1, <2>5, <3>2, SameDir DEF LoneRun, WholeText, Busy
  <2>9. CASE Link(r, life[r])
    <3>1. /\ Phase(r, life[r], "linked", own.text) /\ own.text # Torn
          /\ library' = [library EXCEPT ![own.dir] = own.text]
      BY <2>6, <2>9 DEF Link
    <3>2. new.dir = Dir(r) /\ new.phase = "linked"
      BY <2>2, <2>3, <3>1 DEF CompilerStates
    <3>3. library'[Dir(r)] # Torn
      BY <2>2, <3>1 DEF Own, Typed
    <3> QED BY <1>1, <2>1, <2>5, <3>2, <3>3, SameDir DEF LoneRun, WholeText, Busy
  <2> QED BY <2>1, <2>7, <2>8, <2>9
<1> QED BY <1>2, <1>3

\* The other steps of the run itself.
LEMMA OwnStepsLone ==
  ASSUME Own, NEW r \in Runs, LoneRun(r),
         \/ Compile(r) \/ Probe(r) \/ Reuse(r) \/ Create(r) \/ Record(r) \/ Truncate(r) \/ Sign(r)
  PROVE  LoneRun(r)'
<1>1. pc[r] \notin Resting \cup {"wait"}
  BY DEF Resting, Compile, Probe, Reuse, Create, Record, Truncate, Sign
<1>2. \/ \E reason \in {"limit", "failed"} : Reject(r, reason)
      \/ \E next \in {"probe", "certify", "reuse", "create", "write", "truncate", "sign"} :
           Goto(r, next) /\ UNCHANGED <<compiler, outcomes>>
  <2>1. CASE Compile(r)
    BY <2>1 DEF Compile
  <2>2. CASE Probe(r) \/ Reuse(r) \/ Record(r)
    BY <2>2 DEF Probe, Reuse, Record, TakeLibrary
  <2>3. CASE Create(r)
    BY <2>3 DEF Create
  <2>4. CASE Truncate(r) \/ Sign(r)
    BY <2>4 DEF Truncate, Sign
  <2> QED BY <2>1, <2>2, <2>3, <2>4
<1> QED BY <1>1, <1>2, RejectLone, GotoLone DEF Rejections, Judging, Building, Holding

\* What is judged is whole.
LEMMA CertifyLone ==
  ASSUME Own, NEW r \in Runs, LoneRun(r), Certify(r)
  PROVE  LoneRun(r)'
<1>1. pc[r] \notin Resting \cup {"wait"} /\ loaded[r] \in Kernels \cup {Torn}
  BY DEF Resting, Certify, Own, Typed
<1>2. CASE Reject(r, "failed")
  BY <1>1, <1>2, RejectLone DEF Rejections
<1>3. CASE ~Reject(r, "failed")
  <2>1. PICK comptime \in Nat, runtime \in Nat :
          Conclude(r, Verdict(r, comptime), loaded[r], comptime, runtime)
    BY <1>3, CertifyShape
  <2>2. Verdict(r, comptime) \in Rejections \ {"torn"}
    BY DEF Verdict, Rejections
  <2> QED BY <1>1, <2>1, <2>2, ConcludeLone
<1> QED BY <1>2, <1>3

\* A run that comes to rest expects nothing of the files.
LEMMA ReportLone ==
  ASSUME Own, NEW r \in Runs, LoneRun(r), Report(r) \/ Crash(r)
  PROVE  LoneRun(r)'
<1>1. pc'[r] \in Resting
  BY DEF Report, Crash, Goto, Resting, Own, Typed
<1>2. CASE Crash(r)
  BY <1>1, <1>2 DEF Crash, LoneRun, NoneTorn
<1>3. CASE Report(r)
  <2> DEFINE all == Gated(r, outcomes[r])
  <2>1. outcomes' = [outcomes EXCEPT ![r] = all] /\ outcomes[r] \in Seq(Outcomes)
    BY <1>3 DEF Report, Own, Typed
  <2>2. /\ all \in Seq(Outcomes) /\ Len(all) = Len(outcomes[r])
        /\ \A n \in 1 .. Len(outcomes[r]) : all[n].reject \in {outcomes[r][n].reject, "justification"}
    BY <2>1, GatedShape
  <2> HIDE DEF all
  <2>3. outcomes'[r] = all
    BY <2>1 DEF Own, Typed
  <2>4. \A n \in 1 .. Len(outcomes[r]) : outcomes[r][n].reject # "torn"
    BY <2>1 DEF LoneRun, NoneTorn
  <2>5. NoneTorn(r)'
    BY <2>2, <2>3, <2>4 DEF NoneTorn
  <2> QED BY <1>1, <2>5 DEF LoneRun
<1> QED BY <1>2, <1>3

\* A run that starts with no compiler left behind.
LEMMA BeginLone ==
  ASSUME Own, NEW o \in Runs, Begin(o)
  PROVE  Lone'
<1> SUFFICES ASSUME NEW r \in Runs, alone'[r] PROVE LoneRun(r)'
  BY DEF Lone
<1>1. /\ r = o
      /\ \A s \in Runs \ {o} : pc[s] \in Resting
      /\ \A s \in Runs : \A l \in 1 .. MaxLives[s] : compiler[s][l].phase \notin Busy
  BY DEF Begin
<1>2. outcomes'[o] = <<>> /\ UNCHANGED compiler /\ pc' = [pc EXCEPT ![o] = "next"]
  BY DEF Begin, Goto, Own, Typed
<1>3. pc'[o] = "next" /\ \A s \in Runs \ {o} : pc'[s] = pc[s]
  BY <1>2 DEF Own, Typed
<1>4. NoneTorn(r)' /\ WholeText(r)'
  BY <1>1, <1>2, <1>3 DEF NoneTorn, WholeText
<1>5. Undisturbed(r)'
  BY <1>1, <1>2, <1>3 DEF Undisturbed
<1> QED BY <1>4, <1>5 DEF LoneRun

\* A step of another run finds the lone run at rest, and leaves it there.
LEMMA OthersLone ==
  ASSUME Own, NEW r \in Runs, LoneRun(r), NEW o \in Runs \ {r},
         \/ Compile(o) \/ Probe(o) \/ Reuse(o) \/ Create(o) \/ Write(o) \/ Spawn(o)
         \/ Await(o) \/ Load(o) \/ Record(o) \/ Truncate(o) \/ Sign(o) \/ Certify(o)
         \/ Report(o) \/ Crash(o)
  PROVE  LoneRun(r)'
<1>1. pc[r] \in Resting /\ pc'[r] = pc[r]
  BY RunStep DEF LoneRun, Undisturbed, Goto, Own, Typed
<1>2. outcomes'[r] = outcomes[r]
  <2>1. CASE Report(o)
    BY <2>1 DEF Report, Own, Typed
  <2>2. CASE ~Report(o)
    BY <2>2, StaysOrAdds DEF Stays
  <2> QED BY <2>1, <2>2
<1> QED BY <1>1, <1>2 DEF LoneRun, NoneTorn

\* Every step keeps a lone run undisturbed.
LEMMA LoneStep == Own /\ Lives /\ Lone /\ [Next]_vars => Lone'
<1> SUFFICES ASSUME Own, Lives, Lone, [Next]_vars PROVE Lone'
  OBVIOUS
<1>1. CASE UNCHANGED vars
  BY <1>1, SameDir DEF vars, disk, Lone, LoneRun, NoneTorn, Undisturbed, WholeText
<1>2. ASSUME NEW o \in Runs,
         \/ Compile(o) \/ Probe(o) \/ Reuse(o) \/ Create(o) \/ Write(o) \/ Spawn(o)
         \/ Await(o) \/ Load(o) \/ Record(o) \/ Truncate(o) \/ Sign(o) \/ Certify(o)
         \/ Report(o) \/ Crash(o)
      PROVE  Lone'
  <2>1. UNCHANGED alone
    BY <1>2 DEF Compile, Probe, Reuse, Create, Write, Spawn, Await, Load, Record, Truncate, Sign, Certify,
                Report, Crash, Reject, Conclude, TakeLibrary
  <2>2. ASSUME NEW r \in Runs, alone[r] PROVE LoneRun(r)'
    <3>1. LoneRun(r)
      BY <2>2 DEF Lone
    <3>2. CASE o # r
      BY <1>2, <3>1, <3>2, OthersLone
    <3>3. CASE o = r
      BY <1>2, <3>1, <3>3, OwnStepsLone, WriteLone, SpawnLone, AwaitLone, LoadLone, CertifyLone, ReportLone
    <3> QED BY <3>2, <3>3
  <2> QED BY <2>1, <2>2 DEF Lone
<1>3. ASSUME NEW o \in Runs, NEW l \in 1 .. MaxLives[o], Read(o, l) \/ Unlink(o, l) \/ Link(o, l)
      PROVE  Lone'
  <2>1. UNCHANGED alone
    BY <1>3 DEF Read, Unlink, Link, Phase
  <2> QED BY <1>3, <2>1, PhaseLone DEF Lone
<1>4. ASSUME NEW o \in Runs, Begin(o) PROVE Lone'
  BY <1>4, BeginLone
<1> QED BY <1>1, <1>2, <1>3, <1>4 DEF Next

\* Nothing that a run which nobody disturbs finds in the cache can make the
\* toolchain or the loader refuse a candidate (fast_kernel.cpp:844).
THEOREM LoneRunsRebuild == Spec => []LoneSearchRebuilds
<1>1. Init => Lone
  BY DEF Init, Lone
<1>2. Lone => LoneSearchRebuilds
  BY DEF Lone, LoneRun, NoneTorn, LoneSearchRebuilds
<1> QED BY <1>1, <1>2, LoneStep, OwnInvariant, PTL DEF Spec

=============================================================================
