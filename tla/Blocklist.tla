------------------------------ MODULE Blocklist ------------------------------
(***************************************************************************)
(* blocklist.c and the session's list of them: ranges of addresses are read   *)
(* from a text, sorted, merged and kept in a file that is looked up by          *)
(* bisection.  A peer's verdict is cached in its atom (peer-mgr.c).             *)
(***************************************************************************)
EXTENDS Integers, FiniteSets, SequencesExt

CONSTANTS Addresses,     \* 0..n, IPv4
          ListNames, DefaultList,   \* files in the directory; the one that is downloaded
          TextRanges,    \* the ranges <<begin, end>> a text may hold
          MaxListCalls
ASSUME BlocklistAssumption ==
    /\ DefaultList \in ListNames /\ IsFiniteSet(ListNames) /\ Addresses \subseteq Nat
    /\ TextRanges \subseteq Nat \X Nat /\ MaxListCalls \in Nat

VARIABLES
    lists,      \* session->blocklists: name, isEnabled, the rules that are mapped
    binary,     \* each .bin file
    texts,      \* each text file in the directory
    listsOn,    \* session->isBlocklistEnabled
    verdict,    \* the atom of each address: -1 not known, 0, 1
    meant,      \* what each list was last asked to hold
    settled,    \* nothing changed since the verdicts were reset
    listCalls
listVars == <<lists, binary, texts, listsOn, verdict, meant, settled, listCalls>>
ListCall == listCalls < MaxListCalls /\ listCalls' = listCalls + 1
File(ranges) == [there |-> TRUE, ranges |-> ranges]
NoFile == [there |-> FALSE, ranges |-> <<>>]
NotMapped == NoFile
Unknown == -1

CoveredBy(ranges) == {a \in Addresses : \E i \in DOMAIN ranges : ranges[i][1] <= a /\ a <= ranges[i][2]}
(***************************************************************************)
(* One list                                                                *)
(***************************************************************************)
(* By their first address; what is the order of two with the same is no matter *)
Before(ranges, i, j) == ranges[i][1] < ranges[j][1] \/ (ranges[i][1] = ranges[j][1] /\ i <= j)
Rank(ranges, j) == Cardinality({i \in DOMAIN ranges : Before(ranges, i, j)})
Sorted(ranges) == [k \in DOMAIN ranges |-> ranges[CHOOSE j \in DOMAIN ranges : Rank(ranges, j) = k]]
(* Mutant: a range inside the one before shortens it *)
Kept_Last(rules, r) ==
    IF rules = <<>> \/ Last(rules)[2] < r[1] THEN Append(rules, r)
    ELSE [rules EXCEPT ![Len(rules)] = <<@[1], r[2]>>]
(* _tr_blocklistSetContent: merged with the last *)
Kept(rules, r) ==
    IF rules = <<>> \/ Last(rules)[2] < r[1] THEN Append(rules, r)
    ELSE IF Last(rules)[2] < r[2] THEN [rules EXCEPT ![Len(rules)] = <<@[1], r[2]>>]
    ELSE rules
Merged(ranges) ==
    LET n == Len(ranges)
        M[k \in 0..n] == IF k = 0 THEN <<>> ELSE Kept(M[k - 1], Sorted(ranges)[k])
    IN  M[n]
(* bsearch with compareAddressToRange: among the n rules after the first lo *)
FoundIn(rules, a) ==
    LET parts == {p \in (0..Len(rules)) \X (0..Len(rules)) : p[1] + p[2] <= Len(rules)}
        at[p \in parts] ==
            LET lo == p[1]  n == p[2]  mid == lo + n \div 2 + 1
            IN  IF n = 0 THEN FALSE
                ELSE IF a < rules[mid][1] THEN at[<<lo, n \div 2>>]
                ELSE IF a > rules[mid][2] THEN at[<<mid, n - n \div 2 - 1>>]
                ELSE TRUE
    IN  at[<<0, Len(rules)>>]
(* blocklistEnsureLoaded, blocklistLoad: what the file has, if it is there *)
Loaded(b) == IF b.rules.there THEN b ELSE [b EXCEPT !.rules = binary[b.name]]
Rules(b) == Loaded(b).rules.ranges
(* _tr_blocklistHasAddress *)
HasAddress(b, a) == b.on /\ FoundIn(Rules(b), a)
NewList(name) == [name |-> name, on |-> listsOn, rules |-> NotMapped]

(***************************************************************************)
(* The session's lists                                                     *)
(***************************************************************************)
(* tr_sessionIsAddressBlocked: up to the first that has it, loading them *)
Blocked(a) == \E i \in DOMAIN lists : HasAddress(lists[i], a)
LoadedFor(a) ==
    [i \in DOMAIN lists |-> IF lists[i].on /\ \A j \in 1..(i - 1) : ~HasAddress(lists[j], a) THEN Loaded(lists[i]) ELSE lists[i]]
(* isAtomBlocklisted *)
AsksVerdict(a) ==
    /\ ListCall /\ verdict[a] = Unknown
    /\ verdict' = [verdict EXCEPT ![a] = IF Blocked(a) THEN 1 ELSE 0]
    /\ lists' = LoadedFor(a) /\ UNCHANGED <<binary, texts, listsOn, meant, settled>>
(* tr_blocklistGetRuleCount *)
CountsRules ==
    /\ ListCall /\ lists' = [i \in DOMAIN lists |-> Loaded(lists[i])]
    /\ UNCHANGED <<binary, texts, listsOn, verdict, meant, settled>>
(* tr_blocklistSetEnabled: the verdicts are left *)
SetBlocklistEnabled(on) ==
    /\ ListCall /\ listsOn' = on /\ lists' = [i \in DOMAIN lists |-> [lists[i] EXCEPT !.on = on]]
    /\ settled' = FALSE /\ UNCHANGED <<binary, texts, verdict, meant>>
(* tr_blocklistSetContent, of the list that is downloaded; how it went:        *)
(* the new one cannot be read, ours cannot be written, or it is done           *)
SetContent(text, how) ==
    LET have == {i \in DOMAIN lists : lists[i].name = DefaultList}
        all == IF have = {} THEN Append(lists, NewList(DefaultList)) ELSE lists
        i == CHOOSE k \in DOMAIN all : all[k].name = DefaultList
    IN  /\ ListCall
        /\ lists' = [all EXCEPT ![i].rules = CASE how = "unreadable" -> @ [] how = "unwritable" -> NotMapped
                                               [] how = "done" -> File(Merged(text))]
        /\ binary' = IF how = "done" THEN [binary EXCEPT ![DefaultList] = File(Merged(text))] ELSE binary
        /\ meant' = IF how = "done" THEN [meant EXCEPT ![DefaultList] = CoveredBy(text)] ELSE meant
        /\ settled' = FALSE /\ UNCHANGED <<texts, listsOn, verdict>>
(* loadBlocklists: every .bin, and every text after it is made one *)
LoadedDirectory(on) ==
    LET Of(name) == [name |-> name, on |-> on, rules |-> NotMapped]
        found == SetToSeq({n \in ListNames : binary[n].there})
        made == SetToSeq({n \in ListNames : texts[n].there})
    IN  [i \in DOMAIN found |-> Of(found[i])] \o [i \in DOMAIN made |-> [Of(made[i]) EXCEPT !.rules = File(Merged(texts[made[i]].ranges))]]
LoadsDirectory ==
    /\ lists' = LoadedDirectory(listsOn)
    /\ binary' = [n \in ListNames |-> IF texts[n].there THEN File(Merged(texts[n].ranges)) ELSE binary[n]]
    /\ meant' = [n \in ListNames |-> IF texts[n].there THEN CoveredBy(texts[n].ranges) ELSE meant[n]]
(* tr_sessionReloadBlocklists; tr_peerMgrOnBlocklistChanged *)
ReloadLists ==
    /\ ListCall /\ LoadsDirectory /\ verdict' = [a \in Addresses |-> Unknown] /\ settled' = TRUE
    /\ UNCHANGED <<texts, listsOn>>
UserAddsText(name, text) ==
    /\ ListCall /\ name # DefaultList /\ texts' = [texts EXCEPT ![name] = File(text)]
    /\ UNCHANGED <<lists, binary, listsOn, verdict, meant, settled>>

SomeTexts == {<<>>} \cup {<<r>> : r \in TextRanges} \cup (TextRanges \X TextRanges)
BlocklistInit ==
    /\ lists = <<>> /\ binary = [n \in ListNames |-> NoFile] /\ texts = [n \in ListNames |-> NoFile]
    /\ listsOn \in BOOLEAN /\ verdict = [a \in Addresses |-> Unknown]
    /\ meant = [n \in ListNames |-> {}] /\ settled = TRUE /\ listCalls = 0
BlocklistNext ==
    \/ \E a \in Addresses : AsksVerdict(a)
    \/ CountsRules \/ ReloadLists
    \/ \E on \in BOOLEAN : SetBlocklistEnabled(on)
    \/ \E text \in SomeTexts :
          \/ \E how \in {"unreadable", "unwritable", "done"} : SetContent(text, how)
          \/ \E n \in ListNames : UserAddsText(n, text)
BlocklistSpec == BlocklistInit /\ [][BlocklistNext]_listVars

(***************************************************************************)
(* Properties                                                              *)
(***************************************************************************)
(* An address is blocked exactly if blocking is on and a list in use was       *)
(* asked to hold it: however its ranges overlapped, whether its file is         *)
(* mapped, and whatever failed on the way.                                     *)
BlocksWhatIsMeant == \A a \in Addresses :
    Blocked(a) <=> listsOn /\ \E i \in DOMAIN lists : a \in meant[lists[i].name]
(* Rules are in order and do not overlap                                       *)
RulesApart == \A i \in DOMAIN lists : \A k \in 2..Len(Rules(lists[i])) : Rules(lists[i])[k - 1][2] < Rules(lists[i])[k][1]
(* A cached verdict is right, until the lists are changed in a way that does   *)
(* not reset it.                                                               *)
VerdictsRight == settled => \A a \in Addresses : verdict[a] # Unknown => (verdict[a] = 1 <=> Blocked(a))
BlocklistSound == BlocksWhatIsMeant /\ RulesApart /\ VerdictsRight

(* "we cache whether or not a peer is blocklisted... since the blocklist has   *)
(* changed, erase that cached value" (tr_peerMgrOnBlocklistChanged): after any  *)
(* change of the lists no peer is judged by what they were.                    *)
VerdictsFollow == \A a \in Addresses : verdict[a] # Unknown => (verdict[a] = 1 <=> Blocked(a))
=============================================================================
