------------------------------ MODULE RelLayout ------------------------------
(***************************************************************************)
(* Loading a directory of relocatable modules: every module is placed      *)
(* behind the one before it (src/src/app/pipeline.c, emit_rel_directory),  *)
(* its sections get addresses (src/src/frontend/container/rel.c,           *)
(* rel_load_image), and when all are placed the relocation lists of every  *)
(* module are run against the addresses of all (rel_apply_relocations).    *)
(*                                                                         *)
(* One unit of address space is a word of the file; a word holds one field *)
(* a relocation patches.  Addresses have two halves of base HalfSize.      *)
(***************************************************************************)
EXTENDS Integers, Sequences

CONSTANTS
    Directories,  \* sequences of files, in the order of their sorted paths
    HalfSize,     \* values of half an address
    Reach,        \* how far a relative branch reaches
    BaseAddress,  \* REL_AUTO_BASE or the base the user gives
    AutoAlign     \* REL_AUTO_ALIGN

ASSUME RelAssumption ==
    /\ HalfSize \in Nat \ {0} /\ HalfSize % 2 = 0 /\ Reach \in Nat \ {0}
    /\ BaseAddress \in Nat /\ AutoAlign \in Nat \ {0}
    /\ Directories \subseteq
         Seq([ id : Nat, size : Nat, fix : Nat, bss : Nat, bssAlign : Nat \ {0},
               sections : Seq([offset : Nat, size : Nat, executable : BOOLEAN]),
               entries : SUBSET [section : Nat, offset : Nat],
               imports : Seq([ module : Nat,
                               entries : Seq([ type : STRING, delta : Nat, section : Nat,
                                               symbol : 0 .. HalfSize * HalfSize - 1 ]) ]) ])

VARIABLES
    directory,
    loading,      \* "load", "relocate", "done" or "failed"
    nextBase,     \* base of the next module
    bases,        \* bases of the modules loaded so far
    reading,      \* the relocation read next: module, import, entry
    relSection,   \* current_section_index
    offset,       \* current_offset
    fields        \* patched fields: place -> the entry that wrote it and what

relVars == << directory, loading, nextBase, bases, reading, relSection, offset, fields >>

AddressSpace == HalfSize * HalfSize
Placed == 1 .. Len(bases)
File(m) == directory[m]
AlignUp(value, alignment) == ((value + alignment - 1) \div alignment) * alignment
Fits(start, size, total) == start <= total /\ size <= total - start

IsBss(s) == s.size # 0 /\ s.offset = 0 /\ ~s.executable
HasFileData(s) == s.size # 0 /\ ~IsBss(s)

\* Where the zero-filled sections up to i end: they follow the part of the file
\* that stays (fix_size), each aligned
BssEnd(f, base) ==
    LET end[i \in 0 .. Len(f.sections)] ==
            IF i = 0 THEN AlignUp(base + f.fix, f.bssAlign)
            ELSE IF IsBss(f.sections[i])
            THEN AlignUp(end[i - 1] + f.sections[i].size, f.bssAlign)
            ELSE end[i - 1]
    IN end
AddressIn(f, base, i) ==
    IF IsBss(f.sections[i]) THEN BssEnd(f, base)[i - 1] ELSE base + f.sections[i].offset
AddressOf(m, i) == AddressIn(File(m), bases[m], i)

\* rel_load_image's checks, with validate_entry of prolog, epilog and unresolved;
\* a section index of 0 means that there is none
ValidEntry(f, entry) ==
    \/ entry.section = 0
    \/ /\ entry.section \in 1 .. Len(f.sections)
       /\ f.sections[entry.section].executable
       /\ entry.offset < f.sections[entry.section].size
ValidImage(f) ==
    /\ f.fix \in 1 .. f.size
    /\ f.sections # << >>
    /\ BssEnd(f, nextBase)[Len(f.sections)] < AddressSpace
    /\ \A i \in 1 .. Len(f.sections) :
         HasFileData(f.sections[i]) => Fits(f.sections[i].offset, f.sections[i].size, f.size)
    /\ \E i \in 1 .. Len(f.sections) : HasFileData(f.sections[i]) /\ f.sections[i].executable
    /\ \A e \in f.entries : ValidEntry(f, e)

\* next_rel_base: behind the whole file and the zero-filled memory its header asks
\* for (Mutant: behind the file alone)
NextBaseWithoutBss(f) == AlignUp(nextBase + f.size, AutoAlign)
NextBase(f) == AlignUp(nextBase + f.size + f.bss, AutoAlign)

Fail ==
    /\ loading' = "failed"
    /\ UNCHANGED << directory, nextBase, bases, reading, relSection, offset, fields >>

LoadImage ==
    LET f == File(Len(bases) + 1)
        duplicate == \E m \in Placed : File(m).id = f.id
    IN /\ loading = "load" /\ Len(bases) < Len(directory)
       /\ IF ~ValidImage(f) \/ duplicate \/ NextBase(f) >= AddressSpace THEN Fail
          ELSE /\ bases' = Append(bases, nextBase)
               /\ nextBase' = NextBase(f)
               /\ UNCHANGED << directory, loading, reading, relSection, offset, fields >>

StartRelocating ==
    /\ loading = "load" /\ Len(bases) = Len(directory)
    /\ loading' = "relocate"
    /\ UNCHANGED << directory, nextBase, bases, reading, relSection, offset, fields >>

Imports == File(reading.module).imports
ImportEntries == Imports[reading.import].entries
Entry == ImportEntries[reading.entry]

\* section_address_at: one past the end is still inside
InSection(m, i, o) ==
    /\ i \in 1 .. Len(File(m).sections)
    /\ File(m).sections[i].size # 0
    /\ o <= File(m).sections[i].size

\* relocation_target: module 0 is the main program, whose symbols are absolute
Imported(id) == { m \in Placed : File(m).id = id }
HasTarget(id, e) == id = 0 \/ \E m \in Imported(id) : InSection(m, e.section, e.symbol)
TargetAddress(id, e) ==
    IF id = 0 THEN e.symbol
    ELSE LET m == CHOOSE m \in Imported(id) : TRUE
         IN AddressOf(m, e.section) + e.symbol

\* apply_relocation: what is written into the field; a relative branch out of reach
\* or an unknown type is refused.  (Mutant: ha without the carry of the low half)
Writable(type, delta) ==
    type \in {"addr32", "lo", "hi", "ha"} \/ (type = "rel" /\ delta \in 0 - Reach .. Reach - 1)
WrittenHaAsHi(type, target, from) ==
    CASE type = "addr32" -> target
      [] type = "lo" -> target % HalfSize
      [] type \in {"hi", "ha"} -> target \div HalfSize
      [] type = "rel" -> (target - from) % (2 * Reach)
Written(type, target, from) ==
    CASE type = "addr32" -> target
      [] type = "lo" -> target % HalfSize
      [] type = "hi" -> target \div HalfSize
      [] type = "ha" -> ((target + HalfSize \div 2) \div HalfSize) % HalfSize
      [] type = "rel" -> (target - from) % (2 * Reach)

NextEntry == reading' = [reading EXCEPT !.entry = @ + 1]
Moved == offset + Entry.delta

\* R_DOLPHIN_SECTION
SelectSection ==
    /\ Entry.type = "section"
    /\ IF Entry.section \in 1 .. Len(File(reading.module).sections)
       THEN /\ relSection' = Entry.section /\ offset' = 0 /\ NextEntry
            /\ UNCHANGED << directory, loading, nextBase, bases, fields >>
       ELSE Fail

\* R_DOLPHIN_NOP only moves the offset.
Skip == offset' = Moved
SkipEntry ==
    /\ Entry.type = "nop" /\ Skip /\ NextEntry
    /\ UNCHANGED << directory, loading, nextBase, bases, relSection, fields >>

\* Every other entry; R_PPC_NONE checks its places and writes nothing
Patch ==
    LET id == Imports[reading.import].module
        here == AddressOf(reading.module, relSection) + Moved
        to == TargetAddress(id, Entry)
        patched == File(reading.module).sections[relSection]
    IN /\ Entry.type \notin {"section", "nop", "end"}
       /\ IF /\ HasTarget(id, Entry)
             /\ InSection(reading.module, relSection, Moved)
             /\ \/ Entry.type = "none"
                \/ /\ HasFileData(patched) /\ Fits(Moved, 1, patched.size)
                   /\ Writable(Entry.type, to - here)
          THEN /\ offset' = Moved /\ NextEntry
               /\ fields' =
                    IF Entry.type = "none" THEN fields
                    ELSE [ p \in DOMAIN fields \cup { << reading.module, relSection, Moved >> } |->
                             IF p = << reading.module, relSection, Moved >>
                             THEN [ by |-> reading, value |-> Written(Entry.type, to, here) ]
                             ELSE fields[p] ]
               /\ UNCHANGED << directory, loading, nextBase, bases, relSection >>
          ELSE Fail

\* R_DOLPHIN_END: on to the next import, which starts with no section selected; a
\* list that ends without it is refused
EndImport ==
    /\ Entry.type = "end"
    /\ reading' = [reading EXCEPT !.import = @ + 1, !.entry = 1]
    /\ relSection' = 0 /\ offset' = 0
    /\ UNCHANGED << directory, loading, nextBase, bases, fields >>

Relocate ==
    /\ loading = "relocate" /\ reading.module <= Len(directory) /\ reading.import <= Len(Imports)
    /\ IF reading.entry > Len(ImportEntries) THEN Fail
       ELSE SelectSection \/ SkipEntry \/ Patch \/ EndImport

NextModule ==
    /\ loading = "relocate" /\ reading.module <= Len(directory) /\ reading.import > Len(Imports)
    /\ reading' = [ module |-> reading.module + 1, import |-> 1, entry |-> 1 ]
    /\ loading' = IF reading.module = Len(directory) THEN "done" ELSE loading
    /\ UNCHANGED << directory, nextBase, bases, relSection, offset, fields >>

RelInit ==
    /\ directory \in Directories
    /\ loading = "load" /\ nextBase = BaseAddress /\ bases = << >>
    /\ reading = [ module |-> 1, import |-> 1, entry |-> 1 ]
    /\ relSection = 0 /\ offset = 0
    /\ fields = [ p \in {} |-> 0 ]
RelNext == LoadImage \/ StartRelocating \/ Relocate \/ NextModule
RelSpec == RelInit /\ [][RelNext]_relVars

\* emit_rel_split: what of a module goes to the translator
CodeSections(m) ==
    { i \in 1 .. Len(File(m).sections) :
        File(m).sections[i].executable /\ HasFileData(File(m).sections[i]) }

-----------------------------------------------------------------------------
Extent(m, i) == AddressOf(m, i) .. AddressOf(m, i) + File(m).sections[i].size - 1
\* What the alignment of its zero-filled sections adds to a module
Padded(m) ==
    BssEnd(File(m), bases[m])[Len(File(m).sections)] > bases[m] + File(m).size + File(m).bss

(* Every module has its place: no section of a module lies where a section  *)
(* of another does, so that the generated code of one never answers for an  *)
(* address of the other.  The next base allows for the file and the header's *)
(* zero-filled size but not for the alignment inside it; a module whose     *)
(* zero-filled sections are padded beyond both may run into the next one.   *)
ModulesApart ==
    \A m, n \in Placed : (m < n /\ ~Padded(m)) =>
        \A i \in 1 .. Len(File(m).sections), j \in 1 .. Len(File(n).sections) :
            Extent(m, i) \cap Extent(n, j) = {}

\* Where the entry of an import patches: the distances since the section was chosen
PlaceOf(w) ==
    LET entries == File(w.module).imports[w.import].entries
        chosen == CHOOSE k \in 1 .. w.entry :
                     /\ entries[k].type = "section"
                     /\ \A j \in k + 1 .. w.entry : entries[j].type # "section"
        distance[k \in chosen .. w.entry] ==
            IF k = chosen THEN 0 ELSE distance[k - 1] + entries[k].delta
    IN << w.module, entries[chosen].section, distance[w.entry] >>
SignedBelow(n, bound) == IF n >= bound \div 2 THEN n - bound ELSE n
\* What the processor makes of a field; hi and ha go with the low half of the target
Means(type, value, target, from) ==
    CASE type = "addr32" -> value
      [] type = "lo" -> (target \div HalfSize) * HalfSize + value
      [] type = "hi" -> (value * HalfSize) + (target % HalfSize)
      [] type = "ha" ->
           ((value * HalfSize) + SignedBelow(target % HalfSize, HalfSize)) % AddressSpace
      [] type = "rel" -> from + SignedBelow(value, 2 * Reach)

(* Relocated code means what its module asked for: each field patched is    *)
(* the one its entry describes, and the processor computes from it the      *)
(* address the imported section has in the end - modules import from later  *)
(* ones, lists skip and change sections, and a high half carries.           *)
RelocationsMeanTargets ==
    \A p \in DOMAIN fields :
        LET w == fields[p].by
            import == File(w.module).imports[w.import]
            e == import.entries[w.entry]
            target == TargetAddress(import.module, e)
        IN /\ PlaceOf(w) = p
           /\ Means(e.type, fields[p].value, target, AddressOf(p[1], p[2]) + p[3]) = target
=============================================================================
