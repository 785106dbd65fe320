-------------------------------- MODULE Sdef --------------------------------
(***************************************************************************)
(* sdef.c, sdef-twsxml.cpp, sdef-fixml.cpp: what to subscribe to, read      *)
(* from an XML document in two languages, TWSXML and FIXML.  expat calls    *)
(* el_sta and el_end; they find the element's language by its prefix in a   *)
(* table of namespaces, filled from the document's declarations, and build  *)
(* a list of requests, each with a nick and a contract.                     *)
(*                                                                         *)
(* Writing the document is the environment's part: it opens elements where  *)
(* the languages allow them, with prefixes that are declared, and closes    *)
(* them.  An element has attributes, which are then one value, its number   *)
(* in the document, or has none; "" is no prefix, of an element or of its   *)
(* attributes.  Prefixes are names of which none begins another, since a    *)
(* prefix is compared by as much as it has.  A pointer that is NULL and     *)
(* followed ends the program.                                              *)
(***************************************************************************)
EXTENDS Naturals, Sequences

CONSTANTS
    Decls,      \* sequences of [pref, ns] a document may declare
    NsMax,      \* countof(ctx->ns), 16
    Absent,
    MaxElems    \* bound: elements of a document

ASSUME SdefAssumption ==
    /\ NsMax \in Nat \ {0} /\ MaxElems \in Nat
    /\ Decls \subseteq Seq([pref : STRING, ns : {"TWSXML", "FIXML", "UNK"}])
    /\ \A ds \in Decls : \A j, k \in DOMAIN ds : ds[j].pref = ds[k].pref => j = k

\* What stands for nothing is no language, no value and no contract.
ASSUME AbsentAssumption ==
    /\ Absent \notin {"TWSXML", "FIXML", "UNK"}
    /\ Absent \notin Nat
    /\ Absent \notin Seq(Nat \cup {Absent})
    /\ Absent \notin [spec : SUBSET Nat, legs : Seq(Nat \cup {Absent}) \cup {Absent}]

Fave(n) == n \in {"TWSXML", "FIXML"}

VARIABLES
    ns,         \* ctx->ns: [pref, nsid], pref "" for NULL; href is set if nsid is
    nns,        \* ctx->nns
    sreq,       \* the list
    cur,        \* ctx->next: the request of the list it is at, 0 for NULL
    crashed,
    decls,      \* the declarations of the document
    doc,        \* its elements so far: [tag, lang, pref, val, apref, up], `up'
                \* the element an element is in
    at          \* the element that is open
sdefVars == <<ns, nns, sreq, cur, crashed, decls, doc, at>>
parse == <<ns, nns, sreq, cur, crashed>>

Nowhere == [pref |-> "", nsid |-> Absent]

SdefInit == /\ ns = [i \in 0 .. NsMax - 1 |-> Nowhere]
            /\ nns = 0
            /\ sreq = <<>> /\ cur = 0
            /\ crashed = FALSE
            /\ decls = <<>> /\ doc = <<>> /\ at = 0

-----------------------------------------------------------------------------
(* Namespaces.  An entry that was never set looks unknown.                  *)

Unk(n) == n \in {Absent, "UNK"}

\* The entries a prefix is compared with: not the first if it has none.
compared == (IF ns[0].pref = "" THEN 1 ELSE 0) .. (nns - 1)

\* The entry of a prefix: an index, or Absent.  No prefix is as good as any
\* (the character before it is looked at; with expat it is no colon).
__pref_to_ns(p) ==
    IF Unk(ns[0].nsid) \/ (p = "" /\ ns[0].pref = "") THEN 0
    ELSE LET hit == {i \in compared : p = "" \/ ns[i].pref = p}
         IN  IF hit = {} THEN Absent ELSE CHOOSE i \in hit : \A j \in hit : i <= j

\* It looks into an entry without a prefix on its way.
pref_to_ns_dies(p) ==
    /\ ~Unk(ns[0].nsid) /\ p # ""
    /\ \E j \in compared : /\ ns[j].pref = ""
                           /\ \A i \in compared : i < j => ns[i].pref # p

\* A table with its count, after one more declaration.  A favourite goes to
\* the front and what was there to the end; one that finds the front empty is
\* not counted.
\* Slip: what was in front is dropped.
ptx_reg_ns_Slip(t, d) ==
    IF t.nns >= NsMax THEN t
    ELSE LET e == [pref |-> d.pref, nsid |-> d.ns] IN
         IF Fave(d.ns)
         THEN [ns |-> [t.ns EXCEPT ![0] = e],
               nns |-> IF t.ns[0] = Nowhere THEN t.nns ELSE t.nns + 1]
         ELSE [ns |-> [t.ns EXCEPT ![t.nns] = e], nns |-> t.nns + 1]

ptx_reg_ns(t, d) ==
    IF t.nns >= NsMax THEN t
    ELSE LET e == [pref |-> d.pref, nsid |-> d.ns] IN
         IF Fave(d.ns)
         THEN IF t.ns[0] = Nowhere THEN [t EXCEPT !.ns[0] = e]
              ELSE [ns |-> [t.ns EXCEPT ![t.nns] = t.ns[0], ![0] = e], nns |-> t.nns + 1]
         ELSE [ns |-> [t.ns EXCEPT ![t.nns] = e], nns |-> t.nns + 1]

registered(ds) ==
    LET t_[n \in 0 .. Len(ds)] == IF n = 0 THEN [ns |-> ns, nns |-> nns]
                                           ELSE ptx_reg_ns(t_[n - 1], ds[n])
    IN  t_[Len(ds)]

\* Whether an attribute has the prefix of the language in front.
ptx_pref_p(front, p) == front # Nowhere /\ front.pref = p

-----------------------------------------------------------------------------
(* What the beginning of an element does to [sreq, cur, crashed].           *)

Blank == [nick |-> Absent, c |-> Absent]
SpecOf(v)     == IF v = Absent THEN {} ELSE {v}
Contract(v) == [spec |-> SpecOf(v), legs |-> Absent]
Dead(r)     == [r EXCEPT !.crashed = TRUE]

\* Slip: the contract goes to the first request.
reqcontract_Slip(r, v) ==
    IF r.cur = 0 THEN Dead(r) ELSE [r EXCEPT !.sreq[1].c = Contract(v)]

reqcontract(r, v) ==
    IF r.cur = 0 THEN Dead(r) ELSE [r EXCEPT !.sreq[r.cur].c = Contract(v)]

request(r, q) == [r EXCEPT !.sreq = Append(@, q), !.cur = Len(r.sreq) + 1]

qmeta(r, v) ==
    IF v = Absent THEN r
    ELSE IF r.cur = 0 THEN Dead(r)
    ELSE [r EXCEPT !.sreq[r.cur].nick = v]

HasContract(r) == r.cur # 0 /\ r.sreq[r.cur].c # Absent
HasLegs(r)     == HasContract(r) /\ r.sreq[r.cur].c.legs # Absent

combolegs(r) ==
    IF ~HasContract(r) THEN Dead(r)
    ELSE IF HasLegs(r) THEN r
    ELSE [r EXCEPT !.sreq[r.cur].c.legs = <<>>]

comboleg(r, v) ==
    IF ~HasLegs(r) THEN Dead(r)
    ELSE [r EXCEPT !.sreq[r.cur].c.legs = Append(@, v)]

instrmt(r, v) ==
    IF v = Absent THEN r
    ELSE IF ~HasContract(r) THEN Dead(r)
    ELSE [r EXCEPT !.sreq[r.cur].c.spec = @ \cup SpecOf(v)]

\* Tags a language does not know do nothing, nor do those that only nest.
sax_bo_TWSXML_elt(r, tag, v) ==
    CASE tag = "request"     -> request(r, Blank)
      [] tag = "qmeta"       -> qmeta(r, v)
      [] tag = "reqContract" -> reqcontract(r, v)
      [] tag = "comboLegs"   -> combolegs(r)
      [] tag = "comboLeg"    -> comboleg(r, v)
      [] OTHER               -> r

sax_bo_FIXML_elt(r, tag, v) ==
    CASE tag = "SecDef"  -> request(r, [Blank EXCEPT !.c = Contract(v)])
      [] tag = "Instrmt" -> instrmt(r, v)
      [] OTHER           -> r

sax_bo(nsid, r, tag, v) == IF nsid = "TWSXML" THEN sax_bo_TWSXML_elt(r, tag, v)
                                              ELSE sax_bo_FIXML_elt(r, tag, v)

-----------------------------------------------------------------------------
(* The document.                                                            *)

Kids == [document  |-> {"TWSXML", "FIXML", "other"}, other |-> {"TWSXML", "FIXML"},
         TWSXML    |-> {"request"}, request |-> {"qmeta", "query"},
         query     |-> {"reqContract"}, reqContract |-> {"comboLegs"},
         comboLegs |-> {"comboLeg"}, FIXML |-> {"SecDef"}, SecDef |-> {"Instrmt"},
         qmeta |-> {}, comboLeg |-> {}, Instrmt |-> {}]

Language(tag) == IF tag = "other" THEN "UNK"
                 ELSE IF tag \in {"FIXML", "SecDef", "Instrmt"} THEN "FIXML" ELSE "TWSXML"

HasAttrs(tag) == tag \in {"qmeta", "reqContract", "comboLeg", "SecDef", "Instrmt"}

\* What a prefix stands for, given the declarations.
Means(ds, p) == IF \E k \in DOMAIN ds : ds[k].pref = p
                THEN ds[CHOOSE k \in DOMAIN ds : ds[k].pref = p].ns ELSE "UNK"

TagAt(i) == IF i = 0 THEN "document" ELSE doc[i].tag

\* el_sta: the element's entry; if it is an unknown one, the declarations on
\* the element are taken in and the element is tried again as one of the
\* language in front.
el_sta(tag, p, v, ap, ds) ==
    LET i == __pref_to_ns(p)
        t == IF i # Absent /\ Unk(ns[i].nsid) THEN registered(ds) ELSE [ns |-> ns, nns |-> nns]
        n == IF i = Absent THEN Absent ELSE IF Unk(ns[i].nsid) THEN t.ns[0].nsid ELSE ns[i].nsid
        w == IF ptx_pref_p(t.ns[0], ap) THEN v ELSE Absent
        r == [sreq |-> sreq, cur |-> cur, crashed |-> FALSE]
        s == IF Fave(n) THEN sax_bo(n, r, tag, w) ELSE r
    IN  /\ ns' = t.ns /\ nns' = t.nns
        /\ sreq' = s.sreq /\ cur' = s.cur
        /\ crashed' = (s.crashed \/ pref_to_ns_dies(p))

OpenElt(tag, p, given, ap, ds) ==
    LET v == IF given THEN Len(doc) + 1 ELSE Absent IN
    /\ ~crashed /\ Len(doc) < MaxElems
    /\ at = 0 => doc = <<>>
    /\ tag \in Kids[TagAt(at)]
    /\ ds # <<>> => decls = <<>> /\ TagAt(at) \in {"document", "other"}
    /\ decls' = IF ds = <<>> THEN decls ELSE ds
    /\ p = "" \/ \E k \in DOMAIN decls' : decls'[k].pref = p
    /\ Means(decls', p) = Language(tag)
    /\ given => HasAttrs(tag)
    /\ ap = "" \/ (ap = p /\ given)
    /\ doc' = Append(doc, [tag |-> tag, lang |-> Language(tag), pref |-> p,
                           val |-> v, apref |-> ap, up |-> at])
    /\ at' = Len(doc) + 1
    /\ el_sta(tag, p, v, ap, ds)

\* el_end: looks the prefix up for nothing, and looks into what it finds.
CloseElt ==
    /\ ~crashed /\ at # 0
    /\ crashed' = (__pref_to_ns(doc[at].pref) = Absent \/ pref_to_ns_dies(doc[at].pref))
    /\ at' = doc[at].up
    /\ UNCHANGED <<ns, nns, sreq, cur, decls, doc>>

DeclPrefixes == {""} \cup {d.pref : d \in UNION {{ds[k] : k \in DOMAIN ds} : ds \in Decls}}

SdefNext ==
    \/ \E tag \in DOMAIN Kids, p \in DeclPrefixes, given \in BOOLEAN, ds \in Decls \cup {<<>>} :
          \E ap \in {"", p} : OpenElt(tag, p, given, ap, ds)
    \/ CloseElt

SdefSpec == SdefInit /\ [][SdefNext]_sdefVars

-----------------------------------------------------------------------------
(* What a document says.                                                    *)

Latest(S)      == CHOOSE k \in S : \A j \in S : j <= k
Elems(i, tag)  == {k \in DOMAIN doc : doc[k].tag = tag /\ doc[k].up = i}
Inside(S, tag) == {k \in DOMAIN doc : doc[k].tag = tag /\ doc[k].up \in S}
Given(S)       == {k \in S : doc[k].val # Absent}

\* Elements of the first n, as they come.
InTurn(S, n) ==
    LET turn_[k \in 0 .. n] == IF k = 0 THEN <<>>
            ELSE IF k \in S THEN Append(turn_[k - 1], k) ELSE turn_[k - 1]
    IN  turn_[n]
Listed(S) == InTurn(S, Len(doc))

TwsContract(i) ==
    LET legs == Inside({i}, "comboLegs")
        ks   == Listed(Inside(legs, "comboLeg"))
    IN  [spec |-> SpecOf(doc[i].val),
         legs |-> IF legs = {} THEN Absent ELSE [k \in DOMAIN ks |-> doc[ks[k]].val]]

TwsRequest(i) ==
    LET nicks == Given(Elems(i, "qmeta"))
        conts == Inside(Elems(i, "query"), "reqContract")
    IN  [nick |-> IF nicks = {} THEN Absent ELSE doc[Latest(nicks)].val,
         c |-> IF conts = {} THEN Absent ELSE TwsContract(Latest(conts))]

FixRequest(i) ==
    [nick |-> Absent,
     c |-> [spec |-> SpecOf(doc[i].val) \cup {doc[k].val : k \in Given(Elems(i, "Instrmt"))},
            legs |-> Absent]]

Request(i) == IF doc[i].tag = "request" THEN TwsRequest(i) ELSE FixRequest(i)
Asking     == {k \in DOMAIN doc : doc[k].tag \in {"request", "SecDef"}}
Meant_sreq == LET ks == Listed(Asking) IN [k \in DOMAIN ks |-> Request(ks[k])]

\* The documents that can be read.  They declare no more than the table holds;
\* their favourites come after an unknown namespace, or there is but one
\* declaration, the default; what is declared without a prefix is the last
\* favourite; elements of the languages without a prefix come only where it is
\* the default, and attributes have its prefix.
Favourites == {k \in DOMAIN decls : Fave(decls[k].ns)}
front      == IF Favourites = {} THEN "" ELSE decls[Latest(Favourites)].pref
Readable ==
    /\ Len(decls) <= NsMax
    /\ \/ Len(decls) <= 1 /\ front = ""
       \/ decls[1].ns = "UNK"
    /\ \A k \in DOMAIN decls : decls[k].pref = "" => Favourites # {} /\ k = Latest(Favourites)
    /\ \A k \in DOMAIN doc : /\ Fave(doc[k].lang) /\ doc[k].pref = "" => front = ""
                             /\ doc[k].val # Absent => doc[k].apref = front

\* The list of requests is at any time what the part of the document read says,
\* element by element, in both languages, and reading never ends the program,
\* for the documents that can be read.
RequestsRight == Readable => ~crashed /\ sreq = Meant_sreq
=============================================================================
