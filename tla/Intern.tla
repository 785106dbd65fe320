-------------------------------- MODULE Intern --------------------------------
(***************************************************************************)
(* pf-tws.c, "interning of symbols": one growing array holds the names of  *)
(* all positions, each ended by a NUL; a symbol is the offset of its name. *)
(* A name is looked up as a piece of memory, its NUL included, anywhere in *)
(* the array: one that is the end of another shares its bytes (234_STK_X   *)
(* is found in 1234_STK_X).                                                *)
(*                                                                         *)
(* A name is a sequence of characters.  tws_cont_nick never returns NULL   *)
(* or an empty string, the branches for these are left out.                *)
(***************************************************************************)
EXTENDS Naturals, Sequences

CONSTANTS
    Char,        \* characters
    Strings,     \* the names that may come
    NUL

ASSUME InternAssumption == /\ Strings \subseteq Seq(Char)
                           /\ NUL \notin Char

VARIABLES
    pos_names,       \* the array as far as it is used, pos_names_z its length
    pos_names_alz,   \* how much is allocated
    given            \* history: the symbols handed out, with their names

symVars == <<pos_names, pos_names_alz, given>>

\* memmem: does the needle lie at offset k of the array.
Occurs(hay, k, needle) ==
    /\ k + Len(needle) <= Len(hay)
    /\ \A j \in 1 .. Len(needle) : hay[k + j] = needle[j]

Found(src) == {k \in 0 .. Len(pos_names) : Occurs(pos_names, k, Append(src, NUL))}

\* Slip: one past the end of what is used.
sym_OffByOne(src) ==
    IF Found(src) = {} THEN Len(pos_names) + 1
    ELSE CHOOSE k \in Found(src) : \A j \in Found(src) : k <= j

\* What intern_pos_name returns: the first place, or the end of the array.
sym(src) ==
    IF Found(src) = {} THEN Len(pos_names)
    ELSE CHOOSE k \in Found(src) : \A j \in Found(src) : k <= j

\* z rounded up to a power of two.
Pow2[k \in Nat] == IF k = 0 THEN 1 ELSE 2 * Pow2[k - 1]

next_alz(z) == IF z = 0 THEN 0
               ELSE CHOOSE p \in {Pow2[k] : k \in 0 .. z} :
                        p >= z /\ \A k \in 0 .. z : Pow2[k] >= z => p <= Pow2[k]

internInit == /\ pos_names = <<>>
              /\ pos_names_alz = 0
              /\ given = {}

\* Slip: the new allocation is made of the old one alone.
Room_Same(srz) ==
    IF Len(pos_names) + srz >= pos_names_alz
    THEN next_alz(pos_names_alz + 1)
    ELSE pos_names_alz

Room(srz) ==
    IF Len(pos_names) + srz >= pos_names_alz
    THEN next_alz(pos_names_alz + srz)
    ELSE pos_names_alz

intern_pos_name(src) ==
    /\ given' = given \cup {<<src, sym(src)>>}
    /\ IF Found(src) # {}
       THEN UNCHANGED <<pos_names, pos_names_alz>>
       ELSE /\ pos_names' = pos_names \o Append(src, NUL)
            /\ pos_names_alz' = Room(Len(src) + 1)

\* The characters from the symbol's offset up to the next NUL.
find_intern(s) ==
    LET ends == {e \in (s + 1) .. Len(pos_names) : pos_names[e] = NUL}
    IN  SubSeq(pos_names, s + 1, (CHOOSE e \in ends : \A f \in ends : e <= f) - 1)

internNext == \E src \in Strings : intern_pos_name(src)

InternSpec == internInit /\ [][internNext]_symVars

-----------------------------------------------------------------------------
(* Properties.                                                              *)

\* A symbol reads as the name it was handed out for, however much the array
\* has grown since, and a name has one symbol (intern_pos_name).
NamesKept ==
    /\ \A g \in given : find_intern(g[2]) = g[1]
    /\ \A g, h \in given : g[1] = h[1] => g[2] = h[2]

\* The names fit what was allocated for them.
NamesFit == Len(pos_names) <= pos_names_alz
=============================================================================
