---------------------------- MODULE KernelListing ----------------------------
(***************************************************************************)
(* What a reconcile pass makes of the kernel's sets.  Allowlist.tla takes  *)
(* a listing as exact, or failed; here it is nft's answer as parse.rs      *)
(* reads it.  The store keeps a target as the client spelled it, so a      *)
(* prefix may have host bits; the kernel keeps intervals of addresses, of  *)
(* any kind when they were put there by hand, and nft lists an interval    *)
(* as the prefix or address it is, or as a range.  A modern nft answers in *)
(* JSON, and one element the parser does not know fails the listing; an    *)
(* old one answers in text, and such elements are passed over.             *)
(*                                                                         *)
(* Handlers and pass are one step each: how they interleave, and what      *)
(* lifetimes do, is the subject of Allowlist.                              *)
(***************************************************************************)
EXTENDS Naturals, FiniteSets

CONSTANTS
  Bits,       \* width of an address: 32 and 128 in the code
  Families,   \* one set per family: allow4 and allow6
  MaxTouches  \* bound: calls, and changes by hand

ASSUME ListingOK == Bits \in Nat \ {0} /\ MaxTouches \in Nat

VARIABLES
  modern,   \* nft knows -j
  entries,  \* targets in the store, as spelled
  installed, \* the table is there
  elems,    \* intervals in its sets
  touches

listingVars == <<modern, entries, installed, elems, touches>>

\* Powers of two.
Pow2[n \in 0..Bits] == IF n = 0 THEN 1 ELSE 2 * Pow2[n - 1]

TopAddr == Pow2[Bits] - 1
Spellings == [fam : Families, addr : 0..TopAddr, len : 0..Bits]
Intervals == {e \in [fam : Families, lo : 0..TopAddr, hi : 0..TopAddr] : e.lo <= e.hi}

Size(len) == Pow2[Bits - len]

\* What the kernel makes of a target: host bits are gone.
Network(t) ==
  LET first == (t.addr \div Size(t.len)) * Size(t.len)
  IN [fam |-> t.fam, lo |-> first, hi |-> first + Size(t.len) - 1]
Networks(T) == {Network(t) : t \in T}

Collide(e, f) == e # f /\ e.fam = f.fam /\ e.lo <= f.hi /\ f.lo <= e.hi
Disjoint(E) == \A e, f \in E : ~Collide(e, f)

-----------------------------------------------------------------------------
\* Reading nft's answer

\* A prefix or a single address; the others are listed as ranges.
IsBlock(e) == \E len \in 0..Bits : Size(len) = e.hi - e.lo + 1 /\ e.lo % Size(len) = 0

\* parse_prefix, host_to_net
Spelled(e) ==
  [fam |-> e.fam, addr |-> e.lo, len |-> CHOOSE len \in 0..Bits : Size(len) = e.hi - e.lo + 1]

\* parse_set_elements_text
ReadText(E) == {{Spelled(e) : e \in {f \in E : IsBlock(f)}}}

\* Mutant: what the parser does not know is passed over in JSON too.
ReadJsonPassing(E) == ReadText(E)

\* parse_set_elements: {} is a failure.
ReadJson(E) == IF \A e \in E : IsBlock(e) THEN {{Spelled(e) : e \in E}} ELSE {}

\* Per set, JSON first; a command that fails is tried once more for text; the
\* text, too, fails when there is no table.
Ways == [Families -> {"json", "text", "fails"}]
Possible(way) ==
  \A fam \in Families : (way[fam] = "json" => modern /\ installed) /\ (way[fam] = "text" => installed)

ReadSet(fam, how) ==
  LET of == {e \in elems : e.fam = fam}
  IN CASE how = "json" -> ReadJson(of)
       [] how = "text" -> ReadText(of)
       [] OTHER -> {}

\* All sets together, or a failure.
Listing(way) ==
  IF \A fam \in Families : ReadSet(fam, way[fam]) # {}
  THEN {UNION {UNION ReadSet(fam, way[fam]) : fam \in Families}} ELSE {}

-----------------------------------------------------------------------------
\* The pass

Missing(listed) == entries \ listed

\* Mutant: the difference is taken with what is missing.
StaleOfMissing(listed) == listed \ Missing(listed)

Stale(listed) == listed \ entries

\* Adding these one by one, in any order: an interval is refused when it meets
\* another one.
AddedTo(E, news) ==
  {all \in SUBSET (E \cup news) :
     /\ E \subseteq all
     /\ \A n \in all \ E : \A e \in all : ~Collide(n, e)
     /\ \A n \in news \ all : \E e \in all : Collide(n, e)}

Fixes(listed) ==
  \E all \in AddedTo(elems, Networks(Missing(listed))) :
    elems' = all \ Networks(Stale(listed)) /\ installed' = installed

\* Mutant: the table is taken to be there.
RebuildsSets ==
  elems' = Networks(entries) /\ installed' = installed

\* The table anew from the store, unless nft refuses it: entries that overlap; two
\* spellings of one network may or may not be refused.
Rebuilds ==
  \/ Disjoint(Networks(entries)) /\ elems' = Networks(entries) /\ installed' = TRUE
  \/ /\ \E s, t \in entries : s # t /\ (Network(s) = Network(t) \/ Collide(Network(s), Network(t)))
     /\ UNCHANGED <<elems, installed>>

Pass(way) ==
  /\ Possible(way)
  /\ UNCHANGED <<modern, entries, touches>>
  /\ \/ \E listed \in Listing(way) : Fixes(listed)
     \/ Listing(way) = {} /\ Rebuilds

-----------------------------------------------------------------------------
\* Calls, and the host's owner

Touch == touches < MaxTouches /\ touches' = touches + 1 /\ modern' = modern

Allows(t) ==
  /\ Touch /\ entries' = entries \cup {t} /\ installed' = installed
  /\ IF installed THEN elems' \in AddedTo(elems, {Network(t)}) ELSE elems' = elems

Revokes(t) ==
  /\ Touch /\ t \in entries /\ entries' = entries \ {t} /\ installed' = installed
  /\ elems' = elems \ {Network(t)}

\* `nft add element`, `nft delete element`
ByHand(e) ==
  /\ Touch /\ installed
  /\ \/ e \notin elems /\ elems' = elems \cup {e} /\ Disjoint(elems')
     \/ e \in elems /\ elems' = elems \ {e}
  /\ UNCHANGED <<entries, installed>>

\* The command `uninstall`, or a flush of the whole ruleset.
Uninstalls ==
  /\ Touch /\ installed /\ installed' = FALSE /\ elems' = {} /\ entries' = entries

ListingInit ==
  /\ modern \in BOOLEAN /\ entries = {} /\ installed = TRUE /\ elems = {} /\ touches = 0

ListingNext ==
  \/ \E way \in Ways : Pass(way)
  \/ \E t \in Spellings : Allows(t) \/ Revokes(t)
  \/ \E e \in Intervals : ByHand(e)
  \/ Uninstalls

ListingSpec == ListingInit /\ [][ListingNext]_listingVars

-----------------------------------------------------------------------------
\* Properties

ListingTypeOK ==
  /\ modern \in BOOLEAN /\ installed \in BOOLEAN /\ touches \in 0..MaxTouches
  /\ entries \subseteq Spellings /\ elems \subseteq Intervals
  /\ Disjoint(elems) /\ (~installed => elems = {})

Canonical(t) == t.addr = Network(t).lo

\* Whatever shapes nft answers with, set by set in JSON or text, and whatever else
\* is in the sets: a pass takes no entry out of the kernel that is spelled as nft
\* spells it (reconcile.rs:10-11, parse.rs).
PassKeepsAgreed ==
  [][\A t \in entries :
       Canonical(t) /\ Network(t) \in elems \ elems' => ~\E way \in Ways : Pass(way)]_listingVars

\* A pass that got JSON, or found no table, leaves nothing in the sets the store
\* does not have, and everything it has as far as entries do not overlap, also when
\* an element the parser does not know made it fail (main.rs:779-783).  A text
\* listing passes over ranges; they stay.
PassSettles ==
  [][\A way \in Ways :
       (\A t \in entries : Canonical(t)) /\ Disjoint(Networks(entries)) /\ Pass(way)
       => LET hidden == {e \in elems : way[e.fam] = "text" /\ ~IsBlock(e)}
              seen == {t \in entries : \A e \in elems : ~Collide(Network(t), e)}
          IN Networks(seen) \subseteq elems' /\ elems' \subseteq Networks(entries) \cup hidden]_listingVars

\* A pass leaves alone what it should and settles the rest.
PassSound == PassKeepsAgreed /\ PassSettles
==============================================================================
