------------------------------ MODULE Storage ------------------------------
(***************************************************************************)
(* Dynamic objects: new and dispose, in both forms, pointers copied and    *)
(* pointers into arrays, and the bytes behind them.                        *)
(*                                                                         *)
(* blocks and ptr are what the compiled program has: the bytes GC_malloc   *)
(* gave out, and addresses in them.  objects and meant are what the        *)
(* language definition says the same statements make (pcl2019.pdf, 1.5):   *)
(* arrays of scalars, and pointers that denote a scalar of an object.      *)
(* Nothing initialises a pointer variable.  By the definition dispose      *)
(* leaves nil in it; the code leaves it as it is.                          *)
(***************************************************************************)
EXTENDS Types, FiniteSets

CONSTANTS
  Pointers,    \* the pointer variables
  TypeOf,      \* their types, by variable
  Counts,      \* the sizes given to new [n]; the language wants them positive
  Indices,     \* the indices of elements
  IntWidth,    \* bits of an integer, 32 in the compiler
  SizeWidth,   \* bits of a size, 64 in the compiler
  Memory,      \* the largest block GC_malloc can return
  MaxBlocks    \* bound on the number of blocks allocated

(* The types semantic analysis lets a variable have.                       *)
ASSUME PointersAssumption ==
  \A p \in Pointers :
    IsType(TypeOf[p]) /\ Kind(TypeOf[p]) = "pointer" /\ VariableTypeOK(TypeOf[p])

(* Counts are integers of the program, which fit in a size; what is said   *)
(* of the powers holds of all widths.                                      *)
ASSUME WidthsAssumption ==
  /\ IntWidth \in Nat \ {0} /\ SizeWidth \in Nat /\ IntWidth <= SizeWidth
  /\ 2 ^ (IntWidth - 1) \in Nat \ {0} /\ 2 ^ IntWidth = 2 * 2 ^ (IntWidth - 1)
  /\ 2 ^ SizeWidth \in Nat /\ 2 ^ IntWidth <= 2 ^ SizeWidth
  /\ \A n \in Counts : n \in -(2 ^ (IntWidth - 1)) .. 2 ^ (IntWidth - 1) - 1

ASSUME BoundsAssumption == Memory \in Nat /\ Indices \subseteq Nat

VARIABLES
  blocks,   \* the blocks so far: [bytes, live]
  ptr,      \* what each variable holds: "wild", "nil" or an address
  objects,  \* the dynamic objects so far: [scalars, live]
  meant,    \* what each variable denotes
  lawful,   \* no dispose so far has broken the rules of the definition
  reused,   \* a dispose so far was of nil by the definition, of an address
            \* an earlier dispose had left by the code
  state     \* "run", or "corrupt" after a free of something else

vars == <<blocks, ptr, objects, meant, lawful, reused, state>>

Wild == <<"wild">>
Nil == <<"nil">>
Address(b, byte) == <<"at", b, byte>>
IsAddress(a) == a[1] = "at"

(* A type of concrete arrays, measured in what its scalars measure.        *)
Measure(t, scalar) ==
  LET measure[i \in 1 .. Len(t)] ==
        IF t[i].kind = "array" THEN t[i].size * measure[i + 1] ELSE scalar[t[i].kind]
  IN  measure[1]

(* The sizes LLVM gives its types; an array has no padding.                *)
ScalarSizes == [boolean |-> 1, char |-> 1, integer |-> 4, real |-> 8, pointer |-> 8]
SizeOf(t) == Measure(t, ScalarSizes)

(* How many scalars a PCL type is made of.                                 *)
Scalars(t) == Measure(t, [k \in DOMAIN ScalarSizes |-> 1])

(* The element p^[i], or p^ when p does not point to an array.             *)
Element(p) ==
  LET t == RefType(TypeOf[p]) IN IF IsArray(t) THEN RefType(t) ELSE t

Init ==
  /\ blocks = << >> /\ objects = << >>
  /\ ptr = [p \in Pointers |-> Wild]
  /\ meant = [p \in Pointers |-> Wild]
  /\ lawful = TRUE /\ reused = FALSE
  /\ state = "run"

-----------------------------------------------------------------------------
(* new                                                                     *)

(* GC_malloc: a new block, or a null pointer when it is too large or there *)
(* is no room.                                                             *)
GC_malloc(p, bytes, scalars) ==
  \/ /\ bytes <= Memory
     /\ Len(blocks) < MaxBlocks
     /\ blocks' = Append(blocks, [bytes |-> bytes, live |-> TRUE])
     /\ objects' = Append(objects, [scalars |-> scalars, live |-> TRUE])
     /\ ptr' = [ptr EXCEPT ![p] = Address(Len(blocks) + 1, 0)]
     /\ meant' = [meant EXCEPT ![p] = Address(Len(blocks) + 1, 0)]
  \/ /\ ptr' = [ptr EXCEPT ![p] = Nil]
     /\ meant' = [meant EXCEPT ![p] = Nil]
     /\ UNCHANGED <<blocks, objects>>

InitAccepted(t) == Kind(t) = "pointer" /\ IsConcrete(RefType(t))
InitArrayAccepted(t) == Kind(t) = "pointer" /\ IsArray(RefType(t))

(* new p: the size is taken of the type of p, not of what it points to.    *)
InitBytes(t) == SizeOf(TypeConvert(t))

New(p) ==
  /\ state = "run"
  /\ InitAccepted(TypeOf[p])
  /\ GC_malloc(p, InitBytes(TypeOf[p]), Scalars(RefType(TypeOf[p])))
  /\ UNCHANGED <<lawful, reused, state>>

(* A signed integer of w bits, made one of the width of a size.            *)
SExt(n, w) == (IF n >= 2 ^ (w - 1) THEN n - 2 ^ w ELSE n) % 2 ^ SizeWidth

(* A mutation of InitArrayBytes: sizes in elements, not in bytes. *)
InitArrayElements(t, n) == SExt(n % 2 ^ IntWidth, IntWidth)

(* A mutation of InitArrayBytes: the size is a signed number. *)
InitArraySigned(t, n) == SizeOf(TypeConvert(RefType(t))) * n

(* new [n] p: n times the size of the array, which for array of T is that  *)
(* of a T, in the width of a size.                                         *)
InitArrayBytes(t, n) ==
  (SizeOf(TypeConvert(RefType(t))) * SExt(n % 2 ^ IntWidth, IntWidth)) % 2 ^ SizeWidth

NewArray(p, n) ==
  /\ state = "run"
  /\ InitArrayAccepted(TypeOf[p])
  /\ GC_malloc(p, InitArrayBytes(TypeOf[p], n),
               IF n > 0 THEN n * Scalars(TypeConvert(RefType(TypeOf[p]))) ELSE 0)
  /\ UNCHANGED <<lawful, reused, state>>

-----------------------------------------------------------------------------
(* Pointers                                                                *)

(* p := q, with the cast of a pointer to an array of known size.           *)
Assign(p, q) ==
  /\ state = "run"
  /\ IsCompatibleWith(TypeOf[p], TypeOf[q])
  /\ ptr' = [ptr EXCEPT ![p] = ptr[q]]
  /\ meant' = [meant EXCEPT ![p] = meant[q]]
  /\ UNCHANGED <<blocks, objects, lawful, reused, state>>

AssignNil(p) ==
  /\ state = "run"
  /\ ptr' = [ptr EXCEPT ![p] = Nil]
  /\ meant' = [meant EXCEPT ![p] = Nil]
  /\ UNCHANGED <<blocks, objects, lawful, reused, state>>

(* A mutation of ElementAddress: the stride is that of an integer. *)
ElementAddressOfScalar(q, i) ==
  Address(ptr[q][2], ptr[q][3] + i * SizeOf(typeInteger))

(* ArrayAccess and Dereference: the address of q^[i], or of q^.            *)
ElementAddress(q, i) ==
  Address(ptr[q][2], ptr[q][3] + i * SizeOf(TypeConvert(Element(q))))

(* Where the definition has it; legal if the object is alive and has that  *)
(* element.                                                                *)
ElementMeant(q, i) == Address(meant[q][2], meant[q][3] + i * Scalars(Element(q)))

Legal(q, i) ==
  /\ IsAddress(meant[q])
  /\ objects[meant[q][2]].live
  /\ ElementMeant(q, i)[3] + Scalars(Element(q)) <= objects[meant[q][2]].scalars
  /\ IsArray(RefType(TypeOf[q])) \/ i = 0

(* p := @q^[i].  What an illegal access yields is not followed.            *)
PointToElement(p, q, i) ==
  /\ state = "run"
  /\ Legal(q, i) /\ IsAddress(ptr[q])
  /\ IsCompatibleWith(TypeOf[p], typePointer(Element(q)))
  /\ ptr' = [ptr EXCEPT ![p] = ElementAddress(q, i)]
  /\ meant' = [meant EXCEPT ![p] = ElementMeant(q, i)]
  /\ UNCHANGED <<blocks, objects, lawful, reused, state>>

-----------------------------------------------------------------------------
(* dispose                                                                 *)

(* GC_free: nothing for a null pointer; otherwise it wants the beginning   *)
(* of a block it has not freed.                                            *)
GC_free(a) ==
  IF a = Nil THEN UNCHANGED <<blocks, state>>
  ELSE IF IsAddress(a) /\ a[3] = 0 /\ blocks[a[2]].live
  THEN blocks' = [blocks EXCEPT ![a[2]].live = FALSE] /\ UNCHANGED state
  ELSE state' = "corrupt" /\ UNCHANGED blocks

(* The definition asks for a pointer to an object made by new.             *)
DisposeLegal(p) ==
  IsAddress(meant[p]) /\ meant[p][3] = 0 /\ objects[meant[p][2]].live

(* What a dispose of p makes of the history.  One of nil breaks no rule:   *)
(* it stands for the statement if p <> nil then dispose p.                 *)
Disposed(p) ==
  /\ lawful' = (lawful /\ (DisposeLegal(p) \/ meant[p] = Nil))
  /\ reused' = (reused \/ (meant[p] = Nil /\ ptr[p] # Nil))

(* A mutation of Dispose: the address of the variable is freed, not what   *)
(* the variable holds.                                                     *)
DisposeVariable(p) ==
  /\ state = "run"
  /\ InitAccepted(TypeOf[p]) \/ InitArrayAccepted(TypeOf[p])
  /\ GC_free(Wild)
  /\ Disposed(p)
  /\ meant' = [meant EXCEPT ![p] = Nil]
  /\ UNCHANGED <<ptr, objects>>

(* dispose p and dispose [] p: they differ in the types they accept only.  *)
Dispose(p) ==
  /\ state = "run"
  /\ InitAccepted(TypeOf[p]) \/ InitArrayAccepted(TypeOf[p])
  /\ GC_free(ptr[p])
  /\ Disposed(p)
  /\ objects' = IF DisposeLegal(p) THEN [objects EXCEPT ![meant[p][2]].live = FALSE] ELSE objects
  /\ meant' = [meant EXCEPT ![p] = Nil]
  /\ UNCHANGED ptr

(* The collector may take a block into which no variable points.           *)
Collect(b) ==
  /\ state = "run"
  /\ blocks[b].live
  /\ \A p \in Pointers : ~(IsAddress(ptr[p]) /\ ptr[p][2] = b)
  /\ blocks' = [blocks EXCEPT ![b].live = FALSE]
  /\ UNCHANGED <<ptr, objects, meant, lawful, reused, state>>

Next ==
  \/ \E p \in Pointers : New(p)
  \/ \E p \in Pointers, n \in Counts : NewArray(p, n)
  \/ \E p, q \in Pointers : Assign(p, q)
  \/ \E p \in Pointers : AssignNil(p)
  \/ \E p, q \in Pointers, i \in Indices : PointToElement(p, q, i)
  \/ \E p \in Pointers : Dispose(p)
  \/ \E b \in DOMAIN blocks : Collect(b)

Spec == Init /\ [][Next]_vars

-----------------------------------------------------------------------------
(* Properties                                                              *)

ValueOK(v, n) ==
  \/ v \in {Wild, Nil}
  \/ v[1] = "at" /\ v[2] \in 1 .. n /\ v[3] \in Nat

(* Variables have their types, and one that does not denote nil holds an   *)
(* address exactly when it denotes a scalar.                               *)
TypeOK ==
  /\ state \in {"run", "corrupt"} /\ lawful \in BOOLEAN /\ reused \in BOOLEAN
  /\ Len(blocks) = Len(objects)
  /\ \A b \in DOMAIN blocks : blocks[b].bytes \in 0 .. Memory
  /\ \A p \in Pointers :
       /\ ValueOK(ptr[p], Len(blocks)) /\ ValueOK(meant[p], Len(objects))
       /\ meant[p] = Nil \/ ptr[p][1] = meant[p][1]

(* q^[i] lies inside a block that is still there.                          *)
Fits(q, i) ==
  LET a == ElementAddress(q, i)
  IN  /\ blocks[a[2]].live
      /\ a[3] + SizeOf(TypeConvert(Element(q))) <= blocks[a[2]].bytes

Roomy == \A p \in Pointers : InitAccepted(TypeOf[p]) => SizeOf(TypeConvert(RefType(TypeOf[p]))) <= 8

(* Every element the language lets a program use, through any variable,    *)
(* whatever copies, casts and disposals came before, lies inside a block   *)
(* that is still allocated, as long as lawful disposals are all there were *)
(* and new is not used for objects larger than a pointer.                  *)
AccessesFit ==
  (lawful /\ Roomy) => \A q \in Pointers, i \in Indices : Legal(q, i) => Fits(q, i)

(* Two ways to an element are the same address exactly when they are the   *)
(* same element: pointers to an array, to one of its elements and to an    *)
(* array of unknown size agree on where the elements are.                  *)
OneAddressPerElement ==
  \A p, q \in Pointers, i, j \in Indices :
    (Legal(p, i) /\ Legal(q, j)) =>
      (ElementMeant(p, i) = ElementMeant(q, j) <=> ElementAddress(p, i) = ElementAddress(q, j))

(* A program that disposes only of objects new has made, each once, never  *)
(* makes GC_free release anything else, through whichever copy it does so, *)
(* unless it relies on the nil dispose leaves behind.                      *)
FreesOnlyBlocks == (lawful /\ ~reused) => state = "run"

(* "after the statement is executed, l contains the null pointer"          *)
(* (pcl2019.pdf, page 12): a program may test p against nil and dispose of *)
(* it again, and GC_free still releases blocks only.                       *)
LawfulDisposals == lawful => state = "run"

(* "a new dynamic object of type t" (pcl2019.pdf, page 11): what new p     *)
(* allocates has room for what p points to.                                *)
NewObjectsFit ==
  lawful => \A q \in Pointers, i \in Indices : Legal(q, i) => Fits(q, i)
=============================================================================
