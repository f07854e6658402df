------------------------------- MODULE Driver -------------------------------
(***************************************************************************)
(* main() and the end of the compilation, over several runs of the         *)
(* compiler: the command line, the three phases in order, and the files    *)
(* left on the disk.  A run may be killed between any two steps, and the   *)
(* source may be edited at any time.                                       *)
(*                                                                         *)
(* A program is what main() sees of it: the name in its heading and the    *)
(* first test that refuses it.  The text of a path matters only for the    *)
(* options it contains, as main() looks for options inside every argument. *)
(***************************************************************************)
EXTENDS FiniteSets, Naturals

CONSTANTS
  Paths,     \* source paths: [dir, stem, says], says the options in the text
  Programs,  \* [id, name, refusedBy]
  Binary,    \* the options in the text of the path the compiler is run by
  Writable,  \* the directories that may be written to
  MaxRuns    \* bound on the number of runs

Options == {"-O", "-i", "--ast"}
OptionPath(o) == [dir |-> "", stem |-> o, says |-> {o}]
NoProgram == [id |-> 0, name |-> "", refusedBy |-> "none"]
NoPath == [dir |-> "", stem |-> "", says |-> {}]

(* A file has a name, and two texts are two programs. *)
ASSUME SourcesAssumption ==
  /\ \A p \in Paths : p.stem # ""
  /\ NoProgram \notin Programs

VARIABLES
  sources,  \* the program at every path, or NoProgram
  outputs,  \* the files written: <<directory, stem, extension>> to contents
  phase,    \* what the compiler does next, or how the last run ended
  path,     \* argv[1]
  optimize, imm_stdout, program_name,   \* the fields of TheProgram
  program,  \* what was read
  stdout,   \* the kinds of text printed
  linked,   \* whether clang has made the executable in this run
  kept,     \* history: outputs when the run began
  runs      \* runs so far

fields == <<path, optimize, imm_stdout>>
vars == <<sources, outputs, phase, fields, program_name, program, stdout, linked, kept, runs>>

Ended == {"exit 0", "exit 1", "aborted", "killed"}

Init ==
  /\ sources \in [Paths -> Programs \cup {NoProgram}]
  /\ outputs = [f \in {} |-> f]
  /\ phase = "exit 0" /\ path = NoPath
  /\ optimize = FALSE /\ imm_stdout = FALSE /\ program_name = ""
  /\ program = NoProgram /\ stdout = {} /\ linked = FALSE
  /\ kept = outputs /\ runs = 0

-----------------------------------------------------------------------------
(* The command line                                                        *)

(* The options found as substrings of argv[0], argv[1] and the rest.       *)
Found(first, rest) == Binary \cup first.says \cup rest

(* A mutation of Opened: what fopen returned is not tested. *)
OpenedUntested(first, found) == "-i" \in found \/ first \in Paths

(* fopen, which an interactive run does without. *)
Opened(first, found) ==
  "-i" \in found \/ (first \in Paths /\ sources[first] # NoProgram)

(* argv[1] is always taken for the file. *)
Invoke(first, rest) ==
  /\ phase \in Ended /\ runs < MaxRuns
  /\ runs' = runs + 1
  /\ kept' = outputs
  /\ path' = first
  /\ optimize' = ("-O" \in Found(first, rest))
  /\ imm_stdout' = ("-i" \in Found(first, rest))
  /\ program_name' = IF imm_stdout' THEN "" ELSE first.stem
  /\ stdout' = (IF imm_stdout' THEN {"banner"} ELSE {})
               \cup (IF "--ast" \in Found(first, rest) THEN {"tree requested"} ELSE {})
  /\ phase' = IF Opened(first, Found(first, rest)) THEN "parse" ELSE "exit 1"
  /\ program' = NoProgram /\ linked' = FALSE
  /\ UNCHANGED <<sources, outputs>>

(* No argument: refused, unless the name of the binary reads as -i, when   *)
(* argv[1] is taken though it is null.                                     *)
InvokeBare ==
  /\ phase \in Ended /\ runs < MaxRuns
  /\ runs' = runs + 1
  /\ kept' = outputs
  /\ phase' = IF "-i" \in Binary THEN "aborted" ELSE "exit 1"
  /\ path' = NoPath /\ optimize' = ("-O" \in Binary) /\ imm_stdout' = ("-i" \in Binary)
  /\ program_name' = "" /\ program' = NoProgram /\ stdout' = {} /\ linked' = FALSE
  /\ UNCHANGED <<sources, outputs>>

-----------------------------------------------------------------------------
(* The phases                                                              *)

(* A mutation of SetNameIfBlank: the heading's name replaces the file's. *)
SetName(name) == program_name' = name

SetNameIfBlank(name) == program_name' = IF program_name = "" THEN name ELSE program_name

PassedBy(test, next) == phase' = IF program'.refusedBy = test THEN "exit 1" ELSE next

(* The source is read now, whatever it was when the file was opened; an    *)
(* interactive run reads any program from the standard input.              *)
Parse ==
  /\ phase = "parse"
  /\ program' \in IF imm_stdout THEN Programs ELSE {sources[path]}
  /\ PassedBy("parser", "semantic")
  /\ IF program'.refusedBy = "parser" THEN UNCHANGED program_name
     ELSE SetNameIfBlank(program'.name)
  /\ UNCHANGED <<sources, outputs, fields, stdout, linked, kept, runs>>

Semantic ==
  /\ phase = "semantic"
  /\ UNCHANGED program
  /\ PassedBy("semantic", "compile")
  /\ stdout' = IF "tree requested" \in stdout THEN stdout \cup {"tree"} ELSE stdout
  /\ UNCHANGED <<sources, outputs, fields, program_name, linked, kept, runs>>

(* The module is built, and verified before anything is written. *)
Compile ==
  /\ phase = "compile"
  /\ UNCHANGED program
  /\ PassedBy("verifier", "print")
  /\ UNCHANGED <<sources, outputs, fields, program_name, stdout, linked, kept, runs>>

-----------------------------------------------------------------------------
(* The outputs                                                             *)

(* An empty parent_path gives a file of the root directory: "" + "/". *)
File(extension) == <<path.dir, program_name, extension>>
CanWrite == path.dir \in Writable

Contents == [program |-> program, optimized |-> optimize]

(* outputs after text has been written to f, or f removed. *)
With(f, text) == [x \in DOMAIN outputs \cup {f} |-> IF x = f THEN text ELSE outputs[x]]
Without(f) == [x \in DOMAIN outputs \ {f} |-> outputs[x]]

(* A mutation of PrintModule: the listing is printed to the file in any case. *)
PrintToFile ==
  /\ phase = "print"
  /\ UNCHANGED stdout
  /\ phase' = IF imm_stdout THEN "exit 0" ELSE "clang"
  /\ outputs' = IF CanWrite THEN With(File("ll"), Contents) ELSE outputs
  /\ UNCHANGED <<sources, fields, program_name, program, linked, kept, runs>>

(* A file that cannot be opened is not noticed: EC is never read. *)
PrintModule ==
  /\ phase = "print"
  /\ IF imm_stdout
     THEN stdout' = stdout \cup {"IR"} /\ phase' = "exit 0" /\ UNCHANGED outputs
     ELSE /\ phase' = "clang"
          /\ outputs' = IF CanWrite THEN With(File("ll"), Contents) ELSE outputs
          /\ UNCHANGED stdout
  /\ UNCHANGED <<sources, fields, program_name, program, linked, kept, runs>>

(* A mutation of Clang: it is given the name the listing has at the end. *)
ClangOfFinal ==
  /\ phase = "clang"
  /\ phase' = "mv"
  /\ \/ /\ File("imm") \in DOMAIN outputs
        /\ outputs' = With(File("out"), outputs[File("imm")])
        /\ linked' = TRUE
     \/ outputs' \in {outputs, Without(File("out"))} /\ UNCHANGED linked
  /\ UNCHANGED <<sources, fields, program_name, program, stdout, kept, runs>>

(* clang fails when there is no listing, when libs.c is not in the working *)
(* directory, or when linking fails; the old executable stays, or is gone  *)
(* if the linker had begun.  Nobody looks at the exit status.              *)
Clang ==
  /\ phase = "clang"
  /\ phase' = "mv"
  /\ \/ /\ File("ll") \in DOMAIN outputs
        /\ outputs' = With(File("out"), outputs[File("ll")])
        /\ linked' = TRUE
     \/ outputs' \in {outputs, Without(File("out"))} /\ UNCHANGED linked
  /\ UNCHANGED <<sources, fields, program_name, program, stdout, kept, runs>>

Mv ==
  /\ phase = "mv"
  /\ phase' = "exit 0"
  /\ outputs' =
       IF File("ll") \in DOMAIN outputs
       THEN [x \in (DOMAIN outputs \ {File("ll")}) \cup {File("imm")} |->
               IF x = File("imm") THEN outputs[File("ll")] ELSE outputs[x]]
       ELSE outputs
  /\ UNCHANGED <<sources, fields, program_name, program, stdout, linked, kept, runs>>

-----------------------------------------------------------------------------
(* The user                                                                *)

Kill ==
  /\ phase \notin Ended
  /\ phase' = "killed"
  /\ UNCHANGED <<sources, outputs, fields, program_name, program, stdout, linked, kept, runs>>

(* A source is written; one that is there is never removed. *)
Edit(p, text) ==
  /\ runs < MaxRuns \/ phase \notin Ended
  /\ sources' = [sources EXCEPT ![p] = text]
  /\ UNCHANGED <<outputs, phase, fields, program_name, program, stdout, linked, kept, runs>>

Next ==
  \/ \E first \in Paths \cup { OptionPath(o) : o \in Options }, rest \in SUBSET Options :
       Invoke(first, rest)
  \/ InvokeBare
  \/ Parse
  \/ Semantic
  \/ Compile
  \/ PrintModule
  \/ Clang
  \/ Mv
  \/ Kill
  \/ \E p \in Paths, text \in Programs : Edit(p, text)

Spec == Init /\ [][Next]_vars

-----------------------------------------------------------------------------
(* Properties                                                              *)

(* The files have the three extensions, and every phase but the first has  *)
(* something to work on.                                                   *)
TypeOK ==
  /\ phase \in Ended \cup {"parse", "semantic", "compile", "print", "clang", "mv"}
  /\ \A f \in DOMAIN outputs : f[3] \in {"ll", "out", "imm"} /\ outputs[f].program \in Programs
  /\ phase = "parse" => imm_stdout \/ sources[path] # NoProgram
  /\ phase \in {"semantic", "compile", "print", "clang", "mv"} => program \in Programs

(* A program that is refused, by the parser, by semantic analysis or by    *)
(* the verifier, and one whose code goes to the terminal, leaves the       *)
(* outputs of earlier runs as they were.                                   *)
RefusedTouchesNothing ==
  phase \in {"exit 1", "aborted"} \/ (phase = "exit 0" /\ imm_stdout) => outputs = kept \/ runs = 0

(* "compile the program and output codefile.imm ... and codefile.out"      *)
(* (readme.md:23): after a run to the end, in a directory it may write to, *)
(* the listing is of the program it read, nothing is left of the listing's *)
(* first name, and an executable clang made is of that program too,        *)
(* whatever earlier runs were killed or failed at, and whatever the source *)
(* has become meanwhile.                                                   *)
OutputsAgree ==
  (phase = "exit 0" /\ runs > 0 /\ ~imm_stdout /\ CanWrite) =>
    /\ File("ll") \notin DOMAIN outputs
    /\ File("imm") \in DOMAIN outputs /\ outputs[File("imm")] = Contents
    /\ linked => File("out") \in DOMAIN outputs /\ outputs[File("out")] = Contents

(* Every output bears the name of a source of its directory, never the one *)
(* in a program's heading.                                                 *)
OutputsNamedAfterSource ==
  \A f \in DOMAIN outputs : \E p \in Paths : f[1] = p.dir /\ f[2] = p.stem
=============================================================================
