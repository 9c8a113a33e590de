--------------------------- MODULE PersonIdentity ---------------------------
(***************************************************************************)
(* The addresses that savePersonIdentity stores: the postal codes at the   *)
(* end of the full addresses of driving permits if there are any, the      *)
(* shared addresses otherwise.  The shared claims are validated by nobody. *)
(*                                                                         *)
(* Characters are told apart as far as the extraction does: "x" stands for *)
(* letters and digits, all upper case.  A permit is named by its address.  *)
(***************************************************************************)
EXTENDS SequencesExt, FiniteSetsExt, FiniteSets, Integers

CONSTANTS None,
          Null       \* a claim that is there but of another kind: null, a number

-----------------------------------------------------------------------------
\* The characters that the extraction looks for.
Space == " "
Comma == ","

\* String.trim
Trim(text) ==
    LET kept == {i \in DOMAIN text : text[i] # Space}
    IN  IF kept = {} THEN <<>> ELSE SubSeq(text, Min(kept), Max(kept))

\* slice(-n)
Slice(text, n) == SubSeq(text, Len(text) - n + 1, Len(text))

\* A slip: an address of eight characters counted as a short one.
ExtractFromLonger(text) ==
    IF Len(text) <= 8 THEN text
    ELSE LET suffix == Slice(text, 8)
         IN  Trim(IF suffix[1] = Comma THEN Tail(suffix) ELSE suffix)

\* The last eight characters, without a comma in front of them and blanks.
ExtractPostalCode(text) ==
    IF Len(text) <= 6 THEN text
    ELSE LET suffix == IF Len(text) >= 8 THEN Slice(text, 8) ELSE text
         IN  Trim(IF suffix[1] = Comma THEN Tail(suffix) ELSE suffix)

\* filter: the codes that are there, the k-th of them at k.
NonEmpty(codes) ==
    LET kept     == {i \in DOMAIN codes : codes[i] # <<>>}
        upTo(i)  == {j \in kept : j <= i}
        place(k) == CHOOSE i \in kept : Cardinality(upTo(i)) = k
    IN  [k \in 1 .. Cardinality(kept) |-> codes[place(k)]]

\* An empty address, or one that leaves no postal code, does not count.
DrivingPermitAddresses(permits) ==
    IF permits = None THEN <<>>
    ELSE NonEmpty([i \in DOMAIN permits |-> ExtractPostalCode(permits[i])])

\* createPersonIdentityItem: the addresses of the item.
Addresses(claims) ==
    LET found == DrivingPermitAddresses(claims.drivingPermit)
    IN  IF found # <<>> THEN found ELSE claims.address

\* Mapping a list with null in it throws.  The shared addresses are mapped
\* only if they are what will be stored.
Mappable(claims) ==
    /\ claims.drivingPermit # None => ~Contains(claims.drivingPermit, Null)
    /\ Addresses(claims) # None => ~Contains(Addresses(claims), Null)

-----------------------------------------------------------------------------
(* Texts to state its property with.                                       *)

\* Postal codes with their blank, x1 1xx to xx11 1xx, and without it.
PostalCode ==
    LET longest == <<"x", "x", "x", "x", Space, "x", "x", "x">>
    IN  {Slice(longest, n) : n \in 6 .. 8} \cup {[i \in 1 .. n |-> "x"] : n \in 5 .. 7}

EndsIn(text, code) == IsSuffix(code, text)

\* Of the last eight characters of a text that ends in this code, none before
\* the code belongs to the rest of the address: they are blanks, and the first
\* may be a comma.  In a text of up to six there is none before the code.
StandsFree(text, code) ==
    LET before == {i \in 1 .. Len(text) - Len(code) : i > Len(text) - 8}
    IN  IF Len(text) <= 6 THEN before = {}
        ELSE \A i \in before : text[i] = Space \/ (text[i] = Comma /\ i - 1 \notin before)

IsBlank(text) == Range(text) \subseteq {Space}

\* Nothing but blanks, but short enough to be taken for a code as it is.
IsShortBlank(text) == IsBlank(text) /\ Len(text) \in 1 .. 6

\* The permits whose addresses end in a code or are taken for one.
WithCode(permits) ==
    {i \in DOMAIN permits :
        IsShortBlank(permits[i]) \/ \E code \in PostalCode : EndsIn(permits[i], code)}

\* Permits of blanks, none of which is taken for a code.
LeaveNothing(permits) ==
    \A text \in Range(permits) : IsBlank(text) /\ ~IsShortBlank(text)

\* The list has an entry for each of these permits, in the order of the permits,
\* and none that comes of other blanks.  An entry ends in the code and is the
\* code exactly if that stands free; a short blank is its own entry.
HasCodesOf(list, permits) ==
    \E place \in [DOMAIN list -> DOMAIN permits] :
        /\ \A k, l \in DOMAIN list : k < l => place[k] < place[l]
        /\ WithCode(permits) \subseteq Range(place)
        /\ \A k \in DOMAIN list :
               LET text == permits[place[k]]
               IN  /\ IsBlank(text) => IsShortBlank(text) /\ list[k] = text
                   /\ \A code \in PostalCode : EndsIn(text, code) =>
                          EndsIn(list[k], code) /\ (list[k] = code <=> StandsFree(text, code))
=============================================================================
