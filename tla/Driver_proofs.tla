---------------------------- MODULE Driver_proofs ----------------------------
(***************************************************************************)
(* What the compiler leaves on the disk, for every set of sources and      *)
(* programs, every name of the compiler's binary, every set of writable    *)
(* directories and every number of runs.                                   *)
(***************************************************************************)
EXTENDS Driver, TLAPS

Reading == {"parse", "semantic", "compile", "print"}
Writing == {"clang", "mv"}

(* Until the listing is written the files are those of earlier runs, and   *)
(* an interactive run ends there.                                          *)
KeptUntilPrinted ==
  /\ phase \in Reading => outputs = kept
  /\ phase \in Writing => ~imm_stdout
  /\ RefusedTouchesNothing

(* A run that will write has a source, whose name program_name keeps. *)
NamedAfterSource ==
  /\ phase \in Reading \cup Writing /\ ~imm_stdout =>
       path \in Paths /\ program_name = path.stem
  /\ phase \in Writing => ~imm_stdout
  /\ OutputsNamedAfterSource

(* What clang and mv find, where the listing could be written. *)
ListingOfRun ==
  /\ phase \in Reading \cup {"clang"} => ~linked
  /\ phase \in Writing /\ CanWrite =>
       File("ll") \in DOMAIN outputs /\ outputs[File("ll")] = Contents
  /\ phase = "mv" /\ CanWrite /\ linked =>
       File("out") \in DOMAIN outputs /\ outputs[File("out")] = Contents
  /\ OutputsAgree

(* The sources stay functions on the paths, and a run that is not          *)
(* interactive has one of the paths.                                       *)
TypeInv ==
  /\ sources \in [Paths -> Programs \cup {NoProgram}]
  /\ phase \in Reading /\ ~imm_stdout => path \in Paths
  /\ TypeOK

-----------------------------------------------------------------------------
(* A file's extension tells it from the others. *)
LEMMA FilesDiffer ==
  /\ File("ll") # File("out")
  /\ File("ll") # File("imm")
  /\ File("out") # File("imm")
BY DEF File

(* An option is a path main() does not take for a source unless it asks    *)
(* for an interactive run: a source that could be opened is one of Paths.  *)
LEMMA OpenedSource ==
  ASSUME NEW first, NEW found, Opened(first, found), "-i" \notin found
  PROVE  first \in Paths /\ sources[first] # NoProgram
BY DEF Opened

-----------------------------------------------------------------------------
LEMMA KeptStep == KeptUntilPrinted /\ [Next]_vars => KeptUntilPrinted'
<1> SUFFICES ASSUME KeptUntilPrinted, [Next]_vars PROVE KeptUntilPrinted'
  OBVIOUS
<1> USE DEF KeptUntilPrinted, RefusedTouchesNothing, Reading, Writing
<1>1. ASSUME NEW first, NEW rest, Invoke(first, rest) PROVE KeptUntilPrinted'
  BY <1>1 DEF Invoke
<1>2. CASE InvokeBare
  BY <1>2 DEF InvokeBare
<1>3. CASE Parse
  BY <1>3 DEF Parse, PassedBy, fields
<1>4. CASE Semantic
  BY <1>4 DEF Semantic, PassedBy, fields
<1>5. CASE Compile
  BY <1>5 DEF Compile, PassedBy, fields
<1>6. CASE PrintModule
  BY <1>6 DEF PrintModule, fields
<1>7. CASE Clang
  BY <1>7 DEF Clang, fields
<1>8. CASE Mv
  BY <1>8 DEF Mv, fields
<1>9. CASE Kill
  BY <1>9 DEF Kill, Ended, fields
<1>10. ASSUME NEW p, NEW text, Edit(p, text) PROVE KeptUntilPrinted'
  BY <1>10 DEF Edit, fields
<1>11. CASE UNCHANGED vars
  BY <1>11 DEF vars, fields
<1>12. QED
  BY <1>1, <1>2, <1>3, <1>4, <1>5, <1>6, <1>7, <1>8, <1>9, <1>10, <1>11 DEF Next

(* A run that is refused, by fopen, the parser, semantic analysis or the   *)
(* verifier, and one that prints to the terminal, changes no file.         *)
THEOREM RefusalsAreHarmless == Spec => []RefusedTouchesNothing
<1>1. Init => KeptUntilPrinted
  BY DEF Init, KeptUntilPrinted, RefusedTouchesNothing, Reading, Writing
<1>2. KeptUntilPrinted => RefusedTouchesNothing
  BY DEF KeptUntilPrinted
<1>3. QED
  BY <1>1, <1>2, KeptStep, PTL DEF Spec

-----------------------------------------------------------------------------
LEMMA NamedStep == NamedAfterSource /\ [Next]_vars => NamedAfterSource'
<1> SUFFICES ASSUME NamedAfterSource, [Next]_vars PROVE NamedAfterSource'
  OBVIOUS
<1> USE DEF NamedAfterSource, OutputsNamedAfterSource, Reading, Writing
<1>1. ASSUME NEW first, NEW rest, Invoke(first, rest) PROVE NamedAfterSource'
  BY <1>1, OpenedSource DEF Invoke
<1>2. CASE InvokeBare
  BY <1>2 DEF InvokeBare
<1>3. CASE Parse
  <2>1. path \in Paths /\ ~imm_stdout => program_name # ""
    BY <1>3, SourcesAssumption DEF Parse
  <2>2. QED
    BY <1>3, <2>1, SourcesAssumption DEF Parse, PassedBy, SetNameIfBlank, fields
<1>4. CASE Semantic
  BY <1>4 DEF Semantic, PassedBy, fields
<1>5. CASE Compile
  BY <1>5 DEF Compile, PassedBy, fields
<1>6. CASE PrintModule
  <2>1. ASSUME ~imm_stdout, outputs' = With(File("ll"), Contents) PROVE OutputsNamedAfterSource'
    <3>1. path \in Paths /\ program_name = path.stem
      BY <1>6, <2>1 DEF PrintModule
    <3>2. File("ll")[1] = path.dir /\ File("ll")[2] = program_name
      BY DEF File
    <3>3. DOMAIN outputs' = DOMAIN outputs \cup {File("ll")}
      BY <2>1 DEF With
    <3>4. QED
      BY <3>1, <3>2, <3>3
  <2>2. QED
    BY <1>6, <2>1 DEF PrintModule, fields
<1>7. CASE Clang
  <2>1. path \in Paths /\ program_name = path.stem
    BY <1>7 DEF Clang
  <2>2. DOMAIN outputs' \subseteq DOMAIN outputs \cup {File("out")}
    BY <1>7 DEF Clang, With, Without
  <2>3. File("out")[1] = path.dir /\ File("out")[2] = program_name
    BY DEF File
  <2>4. OutputsNamedAfterSource'
    BY <2>1, <2>2, <2>3
  <2>5. QED
    BY <1>7, <2>4 DEF Clang, fields
<1>8. CASE Mv
  <2>1. path \in Paths /\ program_name = path.stem
    BY <1>8 DEF Mv
  <2>2. DOMAIN outputs' \subseteq DOMAIN outputs \cup {File("imm")}
    BY <1>8 DEF Mv
  <2>3. File("imm")[1] = path.dir /\ File("imm")[2] = program_name
    BY DEF File
  <2>4. OutputsNamedAfterSource'
    BY <2>1, <2>2, <2>3
  <2>5. QED
    BY <1>8, <2>4 DEF Mv, fields
<1>9. CASE Kill
  BY <1>9 DEF Kill, Ended, fields
<1>10. ASSUME NEW p, NEW text, Edit(p, text) PROVE NamedAfterSource'
  BY <1>10 DEF Edit, fields
<1>11. CASE UNCHANGED vars
  BY <1>11 DEF vars, fields
<1>12. QED
  BY <1>1, <1>2, <1>3, <1>4, <1>5, <1>6, <1>7, <1>8, <1>9, <1>10, <1>11 DEF Next

(* Every output has the name of a source of its directory: the name in a   *)
(* program's heading only names the outputs of a run without a file, which *)
(* writes none.                                                            *)
THEOREM OutputNames == Spec => []OutputsNamedAfterSource
<1>1. Init => NamedAfterSource
  BY DEF Init, NamedAfterSource, OutputsNamedAfterSource, Reading, Writing
<1>2. NamedAfterSource => OutputsNamedAfterSource
  BY DEF NamedAfterSource
<1>3. QED
  BY <1>1, <1>2, NamedStep, PTL DEF Spec

-----------------------------------------------------------------------------
(* The name, the options and the program of a run do not change once it    *)
(* writes, and so neither do the files it writes and what it writes there. *)
LEMMA SameFiles ==
  ASSUME UNCHANGED <<fields, program_name, program>>
  PROVE  /\ \A e : File(e)' = File(e)
         /\ Contents' = Contents
         /\ CanWrite' = CanWrite
BY DEF File, Contents, CanWrite, fields

LEMMA UnwrittenStep ==
  ASSUME ListingOfRun, UNCHANGED <<outputs, phase, fields, program_name, program, linked, runs>>
  PROVE  ListingOfRun'
<1>1. /\ File("ll")' = File("ll") /\ File("out")' = File("out") /\ File("imm")' = File("imm")
      /\ Contents' = Contents /\ CanWrite' = CanWrite
  BY SameFiles
<1>2. /\ outputs' = outputs /\ phase' = phase /\ runs' = runs
      /\ imm_stdout' = imm_stdout /\ linked' = linked
  BY DEF fields
<1>3. (phase \in Reading \cup {"clang"} => ~linked)'
  BY <1>2 DEF ListingOfRun, Reading
<1>4. (phase \in Writing /\ CanWrite =>
         File("ll") \in DOMAIN outputs /\ outputs[File("ll")] = Contents)'
  BY <1>1, <1>2 DEF ListingOfRun, Writing
<1>5. (phase = "mv" /\ CanWrite /\ linked =>
         File("out") \in DOMAIN outputs /\ outputs[File("out")] = Contents)'
  BY <1>1, <1>2 DEF ListingOfRun
<1>6. OutputsAgree'
  <2>1. (runs > 0)' <=> runs > 0
    BY <1>2, Zenon
  <2>2. ASSUME (phase = "exit 0" /\ runs > 0 /\ ~imm_stdout /\ CanWrite)'
        PROVE  (/\ File("ll") \notin DOMAIN outputs
                /\ File("imm") \in DOMAIN outputs /\ outputs[File("imm")] = Contents
                /\ linked => File("out") \in DOMAIN outputs /\ outputs[File("out")] = Contents)'
    <3>1. phase = "exit 0" /\ runs > 0 /\ ~imm_stdout /\ CanWrite
      BY <1>1, <1>2, <2>1, <2>2, Zenon
    <3>2. /\ File("ll") \notin DOMAIN outputs
          /\ File("imm") \in DOMAIN outputs /\ outputs[File("imm")] = Contents
          /\ linked => File("out") \in DOMAIN outputs /\ outputs[File("out")] = Contents
      BY <3>1, Zenon DEF ListingOfRun, OutputsAgree
    <3>3. QED
      BY <1>1, <1>2, <3>2
  <2>3. QED
    BY <2>2, Zenon DEF OutputsAgree
<1>7. QED
  BY <1>3, <1>4, <1>5, <1>6 DEF ListingOfRun

LEMMA ListingStep == ListingOfRun /\ [Next]_vars => ListingOfRun'
<1> SUFFICES ASSUME ListingOfRun, [Next]_vars PROVE ListingOfRun'
  OBVIOUS
<1> USE DEF ListingOfRun, OutputsAgree, Reading, Writing
<1>1. ASSUME NEW first, NEW rest, Invoke(first, rest) PROVE ListingOfRun'
  BY <1>1 DEF Invoke
<1>2. CASE InvokeBare
  BY <1>2 DEF InvokeBare
<1>3. CASE Parse
  BY <1>3 DEF Parse, PassedBy
<1>4. CASE Semantic
  BY <1>4 DEF Semantic, PassedBy
<1>5. CASE Compile
  BY <1>5 DEF Compile, PassedBy
<1>6. CASE PrintModule
  <2>1. File("ll")' = File("ll") /\ Contents' = Contents /\ CanWrite' = CanWrite
    BY <1>6, SameFiles DEF PrintModule
  <2>2. CanWrite /\ ~imm_stdout =>
          File("ll") \in DOMAIN outputs' /\ outputs'[File("ll")] = Contents
    BY <1>6 DEF PrintModule, With
  <2>3. QED
    BY <1>6, <2>1, <2>2 DEF PrintModule, fields
<1>7. CASE Clang
  <2>1. /\ File("ll")' = File("ll") /\ File("out")' = File("out")
        /\ Contents' = Contents /\ CanWrite' = CanWrite
    BY <1>7, SameFiles DEF Clang
  <2>2. ~linked
    BY <1>7 DEF Clang
  <2>3. ASSUME CanWrite
        PROVE  /\ File("ll") \in DOMAIN outputs' /\ outputs'[File("ll")] = Contents
               /\ linked' => File("out") \in DOMAIN outputs' /\ outputs'[File("out")] = Contents
    <3>1. File("ll") \in DOMAIN outputs /\ outputs[File("ll")] = Contents
      BY <1>7, <2>3 DEF Clang
    <3>2. CASE outputs' = With(File("out"), outputs[File("ll")])
      BY <3>1, <3>2, FilesDiffer DEF With
    <3>3. CASE outputs' \in {outputs, Without(File("out"))} /\ UNCHANGED linked
      BY <2>2, <3>1, <3>3, FilesDiffer DEF Without
    <3>4. QED
      BY <1>7, <3>2, <3>3 DEF Clang
  <2>4. QED
    BY <1>7, <2>1, <2>3 DEF Clang
<1>8. CASE Mv
  <2>1. /\ \A e : File(e)' = File(e)
        /\ Contents' = Contents /\ CanWrite' = CanWrite
    BY <1>8, SameFiles DEF Mv
  <2>2. ASSUME CanWrite
        PROVE  /\ File("ll") \notin DOMAIN outputs'
               /\ File("imm") \in DOMAIN outputs' /\ outputs'[File("imm")] = Contents
               /\ linked => File("out") \in DOMAIN outputs' /\ outputs'[File("out")] = Contents
    <3>1. File("ll") \in DOMAIN outputs /\ outputs[File("ll")] = Contents
      BY <1>8, <2>2 DEF Mv
    <3>2. linked => File("out") \in DOMAIN outputs /\ outputs[File("out")] = Contents
      BY <1>8, <2>2 DEF Mv
    <3>3. outputs' = [x \in (DOMAIN outputs \ {File("ll")}) \cup {File("imm")} |->
                        IF x = File("imm") THEN outputs[File("ll")] ELSE outputs[x]]
      BY <1>8, <3>1 DEF Mv
    <3>4. QED
      BY <3>1, <3>2, <3>3, FilesDiffer
  <2>3. linked' = linked /\ phase' = "exit 0"
    BY <1>8 DEF Mv
  <2>4. QED
    BY <2>1, <2>2, <2>3
<1>9. CASE Kill
  BY <1>9 DEF Kill, Ended
<1>10. ASSUME NEW p, NEW text, Edit(p, text) PROVE ListingOfRun'
  BY <1>10, UnwrittenStep DEF Edit
<1>11. CASE UNCHANGED vars
  BY <1>11, UnwrittenStep DEF vars
<1>12. QED
  BY <1>1, <1>2, <1>3, <1>4, <1>5, <1>6, <1>7, <1>8, <1>9, <1>10, <1>11 DEF Next

(* A run that ends, in a directory it may write to, leaves the listing of  *)
(* the program it read, and no executable of its own that is of another    *)
(* program, whatever runs before it left and whatever clang does.          *)
THEOREM OutputsOfOneProgram == Spec => []OutputsAgree
<1>1. ASSUME Init PROVE ListingOfRun
  <2>1. phase = "exit 0" /\ linked = FALSE
    BY <1>1 DEF Init
  <2>2. runs = 0
    BY <1>1 DEF Init
  <2>3. ~ (runs > 0)
    BY <2>2
  <2>4. QED
    BY <2>1, <2>3 DEF ListingOfRun, OutputsAgree, Reading, Writing
<1>2. ListingOfRun => OutputsAgree
  BY DEF ListingOfRun
<1>3. QED
  BY <1>1, <1>2, ListingStep, PTL DEF Spec

-----------------------------------------------------------------------------
LEMMA TypeStep == TypeInv /\ [Next]_vars => TypeInv'
<1> SUFFICES ASSUME TypeInv, [Next]_vars PROVE TypeInv'
  OBVIOUS
<1> USE DEF TypeInv, TypeOK, Reading, Ended
<1>1. ASSUME NEW first, NEW rest, Invoke(first, rest) PROVE TypeInv'
  BY <1>1, OpenedSource DEF Invoke
<1>2. CASE InvokeBare
  BY <1>2 DEF InvokeBare
<1>3. CASE Parse
  <2>1. program' \in Programs
    BY <1>3 DEF Parse
  <2>2. QED
    BY <1>3, <2>1 DEF Parse, PassedBy, fields
<1>4. CASE Semantic
  BY <1>4 DEF Semantic, PassedBy, fields
<1>5. CASE Compile
  BY <1>5 DEF Compile, PassedBy, fields
<1>6. CASE PrintModule
  <2>1. File("ll")[3] = "ll" /\ Contents.program \in Programs
    BY <1>6 DEF PrintModule, File, Contents
  <2>2. ASSUME outputs' = With(File("ll"), Contents), NEW f \in DOMAIN outputs'
        PROVE  f[3] \in {"ll", "out", "imm"} /\ outputs'[f].program \in Programs
    BY <2>1, <2>2 DEF With
  <2>3. QED
    BY <1>6, <2>2 DEF PrintModule, fields
<1>7. CASE Clang
  <2>1. File("out")[3] = "out"
    BY DEF File
  <2>2. ASSUME NEW f \in DOMAIN outputs'
        PROVE  f[3] \in {"ll", "out", "imm"} /\ outputs'[f].program \in Programs
    <3>1. CASE File("ll") \in DOMAIN outputs /\ outputs' = With(File("out"), outputs[File("ll")])
      BY <2>1, <2>2, <3>1 DEF With
    <3>2. CASE outputs' \in {outputs, Without(File("out"))}
      BY <2>2, <3>2 DEF Without
    <3>3. QED
      BY <1>7, <3>1, <3>2 DEF Clang
  <2>3. QED
    BY <1>7, <2>2 DEF Clang, fields
<1>8. CASE Mv
  <2>1. File("imm")[3] = "imm"
    BY DEF File
  <2>2. ASSUME NEW f \in DOMAIN outputs'
        PROVE  f[3] \in {"ll", "out", "imm"} /\ outputs'[f].program \in Programs
    BY <1>8, <2>1, <2>2 DEF Mv
  <2>3. QED
    BY <1>8, <2>2 DEF Mv, fields
<1>9. CASE Kill
  BY <1>9 DEF Kill, fields
<1>10. ASSUME NEW p \in Paths, NEW text \in Programs, Edit(p, text) PROVE TypeInv'
  <2>1. sources' \in [Paths -> Programs \cup {NoProgram}]
    BY <1>10 DEF Edit
  <2>2. path \in Paths /\ sources[path] # NoProgram => sources'[path] # NoProgram
    BY <1>10, SourcesAssumption DEF Edit
  <2>3. QED
    BY <1>10, <2>1, <2>2 DEF Edit, fields
<1>11. CASE UNCHANGED vars
  BY <1>11 DEF vars, fields
<1>12. QED
  BY <1>1, <1>2, <1>3, <1>4, <1>5, <1>6, <1>7, <1>8, <1>9, <1>10, <1>11 DEF Next

(* The parser of a run that has a file finds it there, however often it is *)
(* edited in between, and what is written comes from a program.            *)
THEOREM TypeCorrect == Spec => []TypeOK
<1>1. Init => TypeInv
  BY DEF Init, TypeInv, TypeOK, Reading, Ended
<1>2. TypeInv => TypeOK
  BY DEF TypeInv
<1>3. QED
  BY <1>1, <1>2, TypeStep, PTL DEF Spec

=============================================================================
