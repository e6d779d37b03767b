----------------------------- MODULE SymbolHeader -----------------------------
(***************************************************************************)
(* From a symbol map to the generated header of #defines: lines are read,  *)
(* sorted and deduplicated (src/src/analysis/symbol_map.c), then every     *)
(* symbol inside a code section gets a size and an identifier that no      *)
(* earlier one has (src/src/backend/symbols.c), kept in an open hash table. *)
(*                                                                         *)
(* An identifier is a sequence of numbers: its root, by its number, and what *)
(* looks like a suffix, so that a symbol really named f_80003100 meets the  *)
(* one made for a second f.                                                 *)
(***************************************************************************)
EXTENDS Integers, Sequences, FiniteSets, FiniteSetsExt

CONSTANTS
    Lines,      \* lines a symbol map may hold: [address, size, name]
    Names,      \* names of those lines, in the order strcmp gives them: a sequence
    IdentifierOf(_),  \* symbol_name_to_identifier: several names may give one
    MostLines,  \* bound on the lines read
    TextSections,  \* code sections: [address, size]
    Hash(_)     \* identifier_hash

VARIABLES
    lines,      \* lines of the map file read so far
    symbols,    \* the symbol map: a sequence of [address, size, name]
    index,      \* the symbol the header comes to next
    emitted,    \* a sequence of [identifier, address, size]
    slots       \* the hash table: a slot holds an index into emitted, or 0

\* The identifier with the address, then with the address and a count
Suffixed(base, address, suffix) ==
    IF suffix = 0 THEN Append(base, address) ELSE base \o << address, suffix >>

ASSUME HeaderAssumption ==
    /\ MostLines \in Nat
    /\ \A line \in Lines :
         /\ line.address \in Nat /\ line.size \in Nat
         /\ IdentifierOf(line.name) \in Seq(Nat)
         /\ Hash(IdentifierOf(line.name)) \in Nat
         /\ \A other \in Lines, n \in 0 .. MostLines :
              Hash(Suffixed(IdentifierOf(line.name), other.address, n)) \in Nat
    /\ TextSections \subseteq [address : Nat, size : Nat]

syVars == << lines, symbols, index, emitted, slots >>

Rank(name) == CHOOSE r \in 1 .. Len(Names) : Names[r] = name
\* symbol_compare
Before(a, b) ==
    \/ a.address < b.address
    \/ a.address = b.address /\ Rank(a.name) < Rank(b.name)

\* symbol_map_add of a parsed line, kept in the place the final sort gives it; a
\* line of an address and name already there is folded into it by
\* symbol_map_deduplicate, which keeps the first size that is not zero.  qsort leaves
\* the order of equal symbols open.
Same(a, b) == a.address = b.address /\ a.name = b.name
Merged(old, line) ==
    IF old.size = 0 THEN { line } ELSE IF line.size = 0 THEN { old } ELSE { old, line }
InsertedAt(n, line) ==
    SubSeq(symbols, 1, n) \o << line >> \o SubSeq(symbols, n + 1, Len(symbols))
Loaded(line) ==
    LET at == { i \in 1 .. Len(symbols) : Same(symbols[i], line) }
        behind == Cardinality({ i \in 1 .. Len(symbols) : Before(symbols[i], line) })
    IN IF at = {} THEN { InsertedAt(behind, line) }
       ELSE UNION { { [symbols EXCEPT ![i] = kept] : kept \in Merged(symbols[i], line) } : i \in at }

\* Addresses that are not a multiple of four are passed over
Aligned(address) == address % 4 = 0
ReadLine ==
    /\ index = 0 /\ lines < MostLines /\ lines' = lines + 1
    /\ \E line \in Lines :
         /\ IF Aligned(line.address) THEN symbols' \in Loaded(line) ELSE UNCHANGED symbols
    /\ UNCHANGED << index, emitted, slots >>

Inside(address) == { s \in TextSections : address \in s.address .. s.address + s.size - 1 }
HasSection(i) == Inside(symbols[i].address) # {}
SectionEnd(i) == LET s == CHOOSE s \in Inside(symbols[i].address) : TRUE IN s.address + s.size
\* resolved_size: a size of its own must fit; else up to the next symbol or the end
Followers(i) ==
    { symbols[j].address : j \in { k \in i + 1 .. Len(symbols) :
        symbols[k].address > symbols[i].address /\ symbols[k].address < SectionEnd(i) } }
ResolvedSize(i) ==
    LET s == symbols[i]
    IN IF s.size # 0 THEN IF s.size > SectionEnd(i) - s.address THEN 0 ELSE s.size
       ELSE (IF Followers(i) = {} THEN SectionEnd(i) ELSE Min(Followers(i))) - s.address

\* count_code_symbols, and the capacity identifier_set_init makes of it: doubled until
\* it is enough (scaled: the smallest table has two slots)
CodeSymbols == { i \in 1 .. Len(symbols) : HasSection(i) /\ ResolvedSize(i) # 0 }
LeastCapacity == 2
Capacity ==
    LET doubled[k \in 0 .. Len(symbols)] == IF k = 0 THEN LeastCapacity ELSE doubled[k - 1] * 2
    IN Min({ doubled[k] : k \in 0 .. Len(symbols) } \ 0 .. 2 * Cardinality(CodeSymbols) - 1)

\* Probing from the identifier's slot to the first empty one
Slot(identifier, step) == (Hash(identifier) + step) % Cardinality(DOMAIN slots)
FirstEmpty(identifier) ==
    Min({ step \in 0 .. Cardinality(DOMAIN slots) - 1 : slots[Slot(identifier, step)] = 0 })
IsTaken(identifier) ==
    \E step \in 0 .. FirstEmpty(identifier) - 1 :
        emitted[slots[Slot(identifier, step)]].identifier = identifier

StartHeader ==
    /\ index = 0 /\ symbols # << >> /\ CodeSymbols # {}
    /\ index' = 1
    /\ slots' = [ k \in 0 .. Capacity - 1 |-> 0 ]
    /\ UNCHANGED << lines, symbols, emitted >>

\* The identifier itself if no symbol has it, else the first suffixed one that none has
\* (Mutant: the address is thought to be enough)
AddressSuffix(base, address) ==
    IF ~IsTaken(base) THEN base ELSE Append(base, address)
Identifier(base, address) ==
    IF ~IsTaken(base) THEN base
    ELSE Suffixed(base, address,
                  Min({ n \in 0 .. Len(emitted) : ~IsTaken(Suffixed(base, address, n)) }))

EmitSymbol ==
    /\ index \in 1 .. Len(symbols)
    /\ index' = index + 1
    /\ IF index \in CodeSymbols
       THEN LET s == symbols[index]
                made == Identifier(IdentifierOf(s.name), s.address)
            IN /\ emitted' = Append(emitted, [ identifier |-> made, address |-> s.address,
                                               size |-> ResolvedSize(index) ])
               /\ slots' = [slots EXCEPT ![Slot(made, FirstEmpty(made))] = Len(emitted) + 1]
       ELSE UNCHANGED << emitted, slots >>
    /\ UNCHANGED << lines, symbols >>

SymInit ==
    /\ lines = 0 /\ symbols = << >> /\ index = 0 /\ emitted = << >>
    /\ slots = [ k \in {} |-> 0 ]
SymNext == ReadLine \/ StartHeader \/ EmitSymbol
SymSpec == SymInit /\ [][SymNext]_syVars

-----------------------------------------------------------------------------
(* The header is one a C compiler takes, and tells the truth: no two        *)
(* symbols share an identifier, though names repeat, lose characters and    *)
(* may look like names the emitter makes; every symbol lies inside its      *)
(* section.                                                                 *)
HeaderIsSound ==
    /\ \A i, j \in 1 .. Len(emitted) : emitted[i].identifier = emitted[j].identifier => i = j
    /\ \A i \in 1 .. Len(emitted) :
         \E s \in Inside(emitted[i].address) :
            emitted[i].address + emitted[i].size <= s.address + s.size
=============================================================================
