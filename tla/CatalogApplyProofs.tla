------------------------- MODULE CatalogApplyProofs --------------------------
(***************************************************************************)
(* What holds of scripts/fw_apply_direct.py for every catalog, any edits   *)
(* of it and any number of failed calls, and of scripts/fw_prune_audit.py  *)
(* beside it.                                                              *)
(***************************************************************************)
EXTENDS CatalogAudit, WellFoundedInduction, TLAPS

(* What is sent is in the case the firewall keeps, so that the library's   *)
(* case-sensitive search finds it again.                                   *)
LEMMA SentAsStored == ASSUME NEW e \in Entries PROVE Sent(e) = Stored(Sent(e))
<1> DEFINE S == SlotOf(e)
           Any == IF e.port /\ S.protocol \in {"any", "none"} THEN "tcp/udp" ELSE S.protocol
<1>1. e \in [section : STRING, uses : SUBSET Entries, interface : STRING,
             protocol : STRING, port : BOOLEAN, keyed : BOOLEAN]
  BY CatalogAssumption
<1>2. /\ S = [e EXCEPT !.interface = S.interface]
      /\ S.protocol = e.protocol
      /\ S = [S EXCEPT !.protocol = e.protocol]
  BY <1>1 DEF SlotOf
<1>3. \A p : Upper(Upper(p)) = Upper(p)
  BY DEF Upper
<1>4. CASE e.section = "RULE"
  <2>1. NormalizeRule(e) = [S EXCEPT !.protocol = Upper(Any)]
    BY <1>1, <1>2 DEF NormalizeRule, SlotOf
  <2>2. [S EXCEPT !.protocol = Upper(Any)].protocol = Upper(Any)
    BY <1>1, <1>2 DEF SlotOf
  <2>3. Upper(NormalizeRule(e).protocol) = NormalizeRule(e).protocol
    BY <1>3, <2>1, <2>2
  <2>4. NormalizeRule(e) = [NormalizeRule(e) EXCEPT !.protocol = NormalizeRule(e).protocol]
    BY <1>1, <2>1, <2>2 DEF SlotOf
  <2> QED
    BY <1>4, <2>3, <2>4 DEF Sent, Stored
<1>5. CASE e.section # "RULE"
  <2>1. e.protocol = Upper(e.protocol)
    BY <1>5, CatalogAssumption
  <2> QED
    BY <1>1, <1>2, <1>5, <2>1 DEF Sent, Stored, SlotOf
<1> QED
  BY <1>4, <1>5

------------------------------------------------------------------------------
Counted == rows \in [Entries -> 0 .. MaxRows]
OneRow == Counted /\ NoDuplicates

(* The one way a section changes a row: what ensure() writes of an entry   *)
(* that is to change.                                                      *)
LEMMA EnsureWrites ==
    ASSUME NEW e \in Entries, Ensure(e)
    PROVE  rows' = rows \/ (Changes(e) /\ ~run.check /\ rows' = [rows EXCEPT ![e] = Written(e)])
  BY DEF Ensure, Save

LEMMA PostGeneralWrites ==
    ASSUME NEW e \in Entries, PostGeneral(e)
    PROVE  rows' = rows \/ (~run.check /\ rows' = [rows EXCEPT ![e] = 1])
  BY DEF PostGeneral, Save

(* An entry with a match key is only added when there is no row of it.     *)
LEMMA WrittenOnce ==
    ASSUME Counted, NEW e \in Entries, Changes(e)
    PROVE  /\ Written(e) \in 0 .. MaxRows
           /\ e.keyed => Written(e) <= 1 \/ Written(e) <= rows[e]
           /\ run.want[e] # "present" => Written(e) = rows[e] - 1
<1>1. rows[e] \in 0 .. MaxRows /\ MaxRows \in Nat \ {0}
  BY CatalogAssumption DEF Counted
<1>2. e.keyed /\ run.want[e] = "present" => rows[e] = 0
  BY <1>1, SentAsStored DEF Changes, Found
<1>3. run.want[e] # "present" => rows[e] > 0
  BY DEF Changes, Found
<1> QED
  BY <1>1, <1>2, <1>3 DEF Written, More

(* A row by hand: one entry's, which is touched from then on.              *)
LEMMA MeddleWrites ==
    ASSUME Counted, NEW e \in Entries, Meddle(e)
    PROVE  \E n \in 0 .. MaxRows : rows' = [rows EXCEPT ![e] = n] /\ touched' = touched \cup {e}
  <1>1. rows[e] \in 0 .. MaxRows /\ MaxRows \in Nat \ {0} /\ rows[e] > 0
    BY CatalogAssumption DEF Counted, Meddle
  <1>2. rows[e] - 1 \in 0 .. MaxRows /\ More(rows[e]) \in 0 .. MaxRows
    BY <1>1 DEF More
  <1> QED BY <1>2 DEF Meddle, Save

(* The other actions leave the rows alone, and what hands touched.         *)
LEMMA OnlyEnsureWrites ==
    ASSUME [Next]_vars
    PROVE  /\ rows' # rows => \/ \E e \in Entries : Ensure(e) \/ PostGeneral(e)
                             \/ \E e \in ByHand : Meddle(e)
           /\ \/ touched' = touched
              \/ \E e \in ByHand : Meddle(e)
              \/ touched' = {e \in touched : rows[e] > 1} /\ rows' = rows
  <1>1. ASSUME NEW e \in Entries, Ensure(e) \/ PostGeneral(e) PROVE touched' = touched
    BY <1>1 DEF Ensure, PostGeneral
  <1>2. ASSUME NEW only, NEW check, Begin(only, check)
        PROVE  /\ rows' = rows
               /\ touched' = touched \/ touched' = {e \in touched : rows[e] > 1}
    BY <1>2 DEF Begin
  <1>3. ASSUME NextSection \/ ReconfigureUnbound \/ ReconfigureKea \/ ControlService \/ Finish \/ Cut
        PROVE  rows' = rows /\ touched' = touched
    BY <1>3 DEF NextSection, ReconfigureUnbound, ReconfigureKea, ControlService, Finish, Cut
  <1>4. ASSUME NEW edit \in Edits, Edit(edit[1], edit[2]) PROVE rows' = rows /\ touched' = touched
    BY <1>4 DEF Edit
  <1>5. CASE UNCHANGED vars
    BY <1>5 DEF vars
  <1> QED BY <1>1, <1>2, <1>3, <1>4, <1>5 DEF Next, Work

LEMMA StepOneRow == OneRow /\ [Next]_vars => OneRow'
<1> SUFFICES ASSUME OneRow, [Next]_vars PROVE OneRow'
  OBVIOUS
<1>1. /\ Counted /\ ByHand \subseteq Entries
      /\ \A e \in Entries \ touched : e.keyed => rows[e] <= 1
  BY CatalogAssumption DEF OneRow, NoDuplicates
<1>2. ASSUME NEW e \in Entries, Ensure(e) \/ PostGeneral(e) PROVE OneRow'
  <2>1. rows' = rows \/ \E n \in 0 .. MaxRows :
            rows' = [rows EXCEPT ![e] = n] /\ (e.keyed => n <= 1 \/ n <= rows[e])
    <3>1. CASE Ensure(e)
      BY <1>1, <3>1, EnsureWrites, WrittenOnce
    <3>2. CASE PostGeneral(e)
      BY <3>2, PostGeneralWrites, CatalogAssumption
    <3> QED BY <1>2, <3>1, <3>2
  <2>2. touched' = touched
    BY <1>2 DEF Ensure, PostGeneral
  <2>3. CASE rows' = rows
    BY <1>1, <2>2, <2>3 DEF OneRow, Counted, NoDuplicates
  <2>4. ASSUME NEW n \in 0 .. MaxRows, rows' = [rows EXCEPT ![e] = n],
               e.keyed => n <= 1 \/ n <= rows[e]
        PROVE  OneRow'
    <3>1. rows[e] \in Nat /\ n \in Nat
      BY <1>1, CatalogAssumption DEF Counted
    <3>2. ASSUME NEW u \in Entries, u \notin touched', u.keyed PROVE rows'[u] <= 1
      BY <1>1, <2>2, <2>4, <3>1, <3>2 DEF Counted
    <3> QED BY <1>1, <2>4, <3>2 DEF OneRow, Counted, NoDuplicates
  <2> QED BY <2>1, <2>3, <2>4
<1>3. ASSUME NEW e \in ByHand, Meddle(e) PROVE OneRow'
  BY <1>1, <1>3, MeddleWrites DEF OneRow, Counted, NoDuplicates
<1>4. CASE rows' = rows /\ touched' = touched
  BY <1>4 DEF OneRow, Counted, NoDuplicates
<1>5. CASE touched' = {e \in touched : rows[e] > 1} /\ rows' = rows
  <2>1. ASSUME NEW e \in Entries, e \notin touched', e.keyed PROVE rows[e] <= 1
    <3>1. rows[e] \in Nat
      BY <1>1, CatalogAssumption DEF Counted
    <3> QED BY <1>1, <1>5, <2>1, <3>1
  <2> QED BY <1>1, <1>5, <2>1 DEF OneRow, Counted, NoDuplicates
<1> QED
  BY <1>2, <1>3, <1>4, <1>5, OnlyEnsureWrites

------------------------------------------------------------------------------
LEMMA ReconfiguresWrite ==
    ASSUME NEW s, Post(s), run.check PROVE UNCHANGED live
  BY DEF Post

------------------------------------------------------------------------------
(* The steps of a run, one by one.                                         *)
LEMMA StepsAre ==
    /\ DOMAIN Steps = 1 .. 22 /\ Len(Steps) = 22 /\ End = 23
    /\ Steps[1] = "ALIAS" /\ Steps[2] = "RULE" /\ Steps[3] = "SNAT" /\ Steps[4] = "DNAT"
    /\ Steps[5] = "DNS_HO" /\ Steps[6] = "DNS_FW" /\ Steps[7] = "UNBOUND"
    /\ Steps[8] = "KEA4_GENERAL" /\ Steps[9] = "KEA4" /\ Steps[10] = "KEA6_GENERAL"
    /\ Steps[11] = "KEA6" /\ Steps[12] = "KEA"
    /\ Steps[13] = "DNSMASQ_SET" /\ Steps[14] = "DNSMASQ_TAG" /\ Steps[15] = "DNSMASQ_HOST"
    /\ Steps[16] = "DNSMASQ_RANGE" /\ Steps[17] = "DNSMASQ_DOMAIN" /\ Steps[18] = "DNSMASQ_BOOT"
    /\ Steps[19] = "DNSMASQ_OPT" /\ Steps[20] = "DNSMASQ_SVC"
    /\ Steps[21] = "RADVD" /\ Steps[22] = "RADVD_SVC"
  BY DEF Steps, FwSteps, KeaSteps, End

(* A set of numbers has a least one.                                       *)
LEMMA LeastOf ==
    ASSUME NEW S, S \subseteq Nat, S # {}
    PROVE  \E m \in S : \A n \in S : m <= n
  <1>1. PICK m \in S : \A n \in S : <<n, m>> \notin OpToRel(<, Nat)
    BY NatLessThanWellFounded, WFMin, Zenon
  <1>2. \A k, l \in Nat : k < l => <<k, l>> \in OpToRel(<, Nat)
    BY Zenon DEF OpToRel
  <1>3. m \in Nat /\ \A n \in S : n \in Nat
    OBVIOUS
  <1>4. \A n \in S : ~(n < m)
    BY <1>1, <1>2, <1>3, Zenon
  <1> QED BY <1>3, <1>4

RunSet ==
    [step : 0 .. End, only : SUBSET SectionGroups, check : BOOLEAN, want : [Entries -> States],
     left : SUBSET Entries, dnsChanged : BOOLEAN, error : BOOLEAN, faults : 0 .. MaxFaults]

(* A run is past a step; it has seen to an entry.                          *)
Passed(s) == Busy /\ \A i \in DOMAIN Steps : Steps[i] = s => i < run.step
SeenTo(e) ==
    Busy /\ \A i \in DOMAIN Steps :
                Steps[i] = e.section => i < run.step \/ (i = run.step /\ e \notin run.left)
AsAsked(e, catalog) ==
    e \notin touched =>
        /\ catalog[e] = "present" => rows[e] > 0
        /\ catalog[e] = "absent" /\ e.keyed => rows[e] = 0

(* Where a run is, it was asked to be, and has that section's entries.     *)
Placed ==
    /\ Busy /\ run.step < End =>
           Selected(Step, run.only) /\ run.left \subseteq EntriesOf(Step, run.want)
    /\ run.step = End => run.left = {}
    /\ Busy /\ run.dnsChanged => Selected("UNBOUND", run.only)
    /\ \A e \in Entries : e.section \in Stateless => want[e] # "absent" /\ run.want[e] # "absent"

(* What a run without an error has done so far.                            *)
DoneSoFar ==
    Busy /\ ~run.check /\ ~run.error =>
        /\ \A e \in Entries : Selected(e.section, run.only) /\ SeenTo(e) => AsAsked(e, run.want)
        /\ Selected("RADVD_SVC", run.only) /\ Passed("RADVD_SVC")
               /\ "radvd" \in Services[inventory] => "radvd" \in up
        /\ Selected("KEA", run.only) /\ Passed("KEA") =>
               \A e \in ServedBy("KEA") : live[e] = rows[e]

(* As long as no call fails, what Unbound does not serve it will at the    *)
(* end of this run.                                                        *)
ServedSoon ==
    faults = 0 => \A e \in ServedBy("UNBOUND") :
                     live[e] = rows[e] \/ (Busy /\ run.dnsChanged /\ ~run.check /\ ~Passed("UNBOUND"))

(* What the last run left behind, until another one writes.                *)
LastHolds ==
    (Busy => run.check) /\ last.exit = "ok" =>
        /\ \A e \in Entries : Selected(e.section, last.only) => AsAsked(e, last.want)
        /\ Selected("RADVD_SVC", last.only) /\ "radvd" \in Services[inventory] => "radvd" \in up
        /\ Selected("KEA", last.only) => \A e \in ServedBy("KEA") : live[e] = rows[e]

CatalogInv == TypeOK /\ Placed /\ DoneSoFar /\ ServedSoon /\ LastHolds

(* The steps after the i-th that have something to do.                     *)
Open(r, i) ==
    {j \in i + 1 .. Len(Steps) :
        /\ Selected(Steps[j], r.only)
        /\ \/ Steps[j] \in Reconfigures \cup ServiceSteps
           \/ EntriesOf(Steps[j], r.want) # {}}

(* Going on: to the first of them, or to the end.                          *)
LEMMA OnwardTo ==
    ASSUME NEW r \in RunSet, NEW i \in 0 .. Len(Steps)
    PROVE  LET q == Onward(r, i)
           IN  /\ q \in RunSet /\ q.step \in i + 1 .. End
               /\ q.only = r.only /\ q.check = r.check /\ q.want = r.want
               /\ q.dnsChanged = r.dnsChanged /\ q.error = r.error /\ q.faults = r.faults
               /\ q.step < End => /\ q.step \in DOMAIN Steps /\ Selected(Steps[q.step], r.only)
                                  /\ q.left = EntriesOf(Steps[q.step], r.want)
               /\ q.step = End => q.left = {}
               /\ \A j \in i + 1 .. Len(Steps) : j < q.step => j \notin Open(r, i)
  <1> DEFINE open == Open(r, i)
             next == IF open = {} THEN End ELSE CHOOSE j \in open : \A k \in open : j <= k
             S == IF next = End THEN {} ELSE EntriesOf(Steps[next], r.want)
  <1>1. Onward(r, i) = [r EXCEPT !.step = next, !.left = S]
    BY Zenon DEF Onward, Open
  <1>2. DOMAIN Steps = 1 .. 22 /\ Len(Steps) = 22 /\ End = 23
    BY StepsAre
  <1>3. open \subseteq i + 1 .. 22 /\ \A j \in open : Selected(Steps[j], r.only)
    BY <1>2 DEF Open
  <1>4. /\ next \in i + 1 .. End /\ S \in SUBSET Entries
        /\ next < End => /\ next \in DOMAIN Steps /\ Selected(Steps[next], r.only)
                         /\ S = EntriesOf(Steps[next], r.want)
        /\ next = End => S = {}
        /\ \A j \in i + 1 .. Len(Steps) : j < next => j \notin open
    <2>1. CASE open = {}
      BY <1>2, <2>1
    <2>2. CASE open # {}
      <3>1. next \in open /\ \A k \in open : next <= k
        <4>1. open \subseteq Nat
          BY <1>2, <1>3
        <4>2. \E m \in open : \A k \in open : m <= k
          BY <2>2, <4>1, LeastOf
        <4> QED BY <2>2, <4>2
      <3>2. next \in i + 1 .. 22 /\ next # End /\ Selected(Steps[next], r.only)
        BY <1>2, <1>3, <3>1
      <3>3. S = EntriesOf(Steps[next], r.want) /\ S \in SUBSET Entries
        BY <3>2 DEF EntriesOf
      <3> HIDE DEF S
      <3> QED BY <1>2, <1>3, <3>1, <3>2, <3>3
    <2> QED BY <2>1, <2>2
  <1> HIDE DEF next, S
  <1>5. next \in 0 .. End
    BY <1>2, <1>4
  <1> DEFINE q == Onward(r, i)
  <1> HIDE DEF q
  <1>6. q = [r EXCEPT !.step = next, !.left = S]
    BY <1>1 DEF q
  <1>7. /\ q \in RunSet /\ q.step = next /\ q.left = S
        /\ q.only = r.only /\ q.check = r.check /\ q.want = r.want
        /\ q.dnsChanged = r.dnsChanged /\ q.error = r.error /\ q.faults = r.faults
    BY <1>4, <1>5, <1>6 DEF RunSet
  <1> QED BY <1>4, <1>7 DEF q

Special == Reconfigures \cup ServiceSteps

(* An entry belongs to a section, which is one of the steps.               *)
LEMMA OfSections ==
    ASSUME NEW e \in Entries
    PROVE  e.section \in Sections /\ e.section \notin Special
           /\ \E i \in DOMAIN Steps : Steps[i] = e.section
  BY CatalogAssumption DEF Sections, Special, Range

LEMMA NoneOfSpecial == ASSUME NEW s \in Special, NEW catalog PROVE EntriesOf(s, catalog) = {}
  BY OfSections DEF EntriesOf

LEMMA SameScope ==
    ASSUME inventory' = inventory, NEW s, NEW only
    PROVE  Selected(s, only)' <=> Selected(s, only)
  BY DEF Selected, BlockEnabled

(* Whoever selects a section of Unbound's, or of the filter, selects what  *)
(* goes with it.                                                           *)
LEMMA ScopeOfDns ==
    ASSUME NEW s \in DnsSections, NEW only, Selected(s, only) PROVE Selected("UNBOUND", only)
  <1>1. /\ GroupsOf("UNBOUND") = {"dns", "dns-ho", "dns-fw"}
        /\ GroupsOf(s) \subseteq {"dns", "dns-ho", "dns-fw"}
    BY DEF GroupsOf, DnsSections, FwSteps, Range, ForwarderGroups, KeaSections
  <1>2. BlockEnabled(s) <=> BlockEnabled("UNBOUND")
    BY DEF BlockEnabled, DnsSections, FwSteps, Range
  <1> QED BY <1>1, <1>2 DEF Selected

(* A run that goes on has by then seen to no more entries, nor passed more *)
(* of the steps that have none.                                            *)
LEMMA GoesTo ==
    ASSUME NEW r \in RunSet, NEW i \in 0 .. Len(Steps), run' = Onward(r, i),
           inventory' = inventory
    PROVE  /\ run' \in RunSet /\ Busy' /\ run'.step > i
           /\ run'.only = r.only /\ run'.check = r.check /\ run'.want = r.want
           /\ run'.dnsChanged = r.dnsChanged /\ run'.error = r.error /\ run'.faults = r.faults
           /\ run'.step < End => Selected(Steps[run'.step], r.only)
                                 /\ run'.left = EntriesOf(Steps[run'.step], r.want)
           /\ run'.step = End => run'.left = {}
           /\ \A e \in Entries :
                 Selected(e.section, r.only) /\ r.want[e] # "gone" /\ SeenTo(e)' =>
                    \A j \in DOMAIN Steps : Steps[j] = e.section => j <= i
           /\ \A s \in Special :
                 Selected(s, r.only) /\ Passed(s)' => \A j \in DOMAIN Steps : Steps[j] = s => j <= i
  <1> DEFINE q == Onward(r, i)
  <1> HIDE DEF q
  <1>1. /\ q \in RunSet /\ q.step \in i + 1 .. End
        /\ q.only = r.only /\ q.check = r.check /\ q.want = r.want
        /\ q.dnsChanged = r.dnsChanged /\ q.error = r.error /\ q.faults = r.faults
        /\ q.step < End => /\ q.step \in DOMAIN Steps /\ Selected(Steps[q.step], r.only)
                           /\ q.left = EntriesOf(Steps[q.step], r.want)
        /\ q.step = End => q.left = {}
        /\ \A j \in i + 1 .. Len(Steps) : j < q.step => j \notin Open(r, i)
    BY OnwardTo DEF q
  <1>2. run' = q
    BY DEF q
  <1>3. DOMAIN Steps = 1 .. 22 /\ Len(Steps) = 22 /\ End = 23
    BY StepsAre
  <1>4. Busy' /\ run'.step > i
    BY <1>1, <1>2, <1>3 DEF Busy
  <1>5. ASSUME NEW e \in Entries, Selected(e.section, r.only), r.want[e] # "gone", SeenTo(e)',
               NEW j \in DOMAIN Steps, Steps[j] = e.section, j > i
        PROVE  FALSE
    <2>1. e \in EntriesOf(Steps[j], r.want)
      BY <1>5 DEF EntriesOf
    <2>2. j < q.step \/ (j = q.step /\ e \notin q.left)
      BY <1>2, <1>5 DEF SeenTo
    <2>3. j # q.step
      BY <1>1, <1>3, <2>1, <2>2
    <2>4. j \in Open(r, i)
      BY <1>3, <1>5, <2>1 DEF Open
    <2> QED BY <1>1, <1>3, <1>5, <2>2, <2>3, <2>4
  <1>6. ASSUME NEW s \in Special, Selected(s, r.only), Passed(s)',
               NEW j \in DOMAIN Steps, Steps[j] = s, j > i
        PROVE  FALSE
    <2>1. j < q.step
      BY <1>2, <1>6 DEF Passed
    <2>2. j \in Open(r, i)
      BY <1>3, <1>6 DEF Open, Special
    <2> QED BY <1>1, <1>3, <1>6, <2>1, <2>2
  <1>7. \A j \in DOMAIN Steps : ~(j > i) => j <= i
    BY <1>3
  <1> QED BY <1>1, <1>2, <1>4, <1>5, <1>6, <1>7

LEMMA LastStays ==
    ASSUME LastHolds, UNCHANGED <<inventory, touched, rows, live, up, last>>,
           (Busy' => run'.check) => (Busy => run.check)
    PROVE  LastHolds'
  <1>1. /\ \A e \in Entries : Selected(e.section, last.only)' <=> Selected(e.section, last.only)
        /\ Selected("RADVD_SVC", last.only)' <=> Selected("RADVD_SVC", last.only)
        /\ Selected("KEA", last.only)' <=> Selected("KEA", last.only)
    BY DEF Selected, BlockEnabled
  <1>2. \A e \in Entries : AsAsked(e, last.want)' <=> AsAsked(e, last.want)
    BY DEF AsAsked
  <1> QED BY <1>1, <1>2 DEF LastHolds

(* A run starts with nothing seen to but what is no longer in the file.    *)
LEMMA BeginsAfresh ==
    ASSUME CatalogInv, NEW only \in Onlys[inventory], NEW check \in BOOLEAN, Begin(only, check)
    PROVE  /\ ~Busy /\ UNCHANGED <<inventory, want, rows, live, up, last, passes, faults>>
           /\ run' \in RunSet /\ Busy' /\ run'.only = only /\ run'.check = check /\ run'.want = want
           /\ run'.dnsChanged = FALSE /\ run'.error = FALSE /\ run'.faults = faults
           /\ run'.step < End => Selected(Steps[run'.step], only)
                                 /\ run'.left = EntriesOf(Steps[run'.step], want)
           /\ run'.step = End => run'.left = {}
           /\ \A e \in Entries : Selected(e.section, only) /\ SeenTo(e)' => want[e] = "gone"
           /\ \A s \in {"RADVD_SVC", "KEA"} : Selected(s, only) => ~Passed(s)'
  <1> DEFINE r == [NoRun EXCEPT !.only = only, !.check = check, !.want = want, !.faults = faults]
  <1>1. TypeOK
    BY DEF CatalogInv
  <1>2. /\ ~Busy /\ run' = Onward(r, 0)
        /\ UNCHANGED <<inventory, want, rows, live, up, last, passes, faults>>
    BY Zenon DEF Begin
  <1>3. only \in SUBSET SectionGroups /\ want \in [Entries -> States] /\ faults \in 0 .. MaxFaults
    <2>1. Onlys[inventory] \in SUBSET SUBSET SectionGroups
      BY <1>1, CatalogAssumption DEF TypeOK
    <2> QED BY <1>1, <2>1 DEF TypeOK
  <1> HIDE DEF r
  <1>4. /\ r \in RunSet /\ r.only = only /\ r.check = check /\ r.want = want
        /\ r.dnsChanged = FALSE /\ r.error = FALSE /\ r.faults = faults
    <2>1. r = [NoRun EXCEPT !.only = only, !.check = check, !.want = want, !.faults = faults]
      BY DEF r
    <2>2. r = [step |-> 0, only |-> only, check |-> check, want |-> want,
               left |-> {}, dnsChanged |-> FALSE, error |-> FALSE, faults |-> faults]
      BY <2>1 DEF NoRun
    <2>3. 0 \in 0 .. End
      BY StepsAre
    <2> QED BY <1>3, <2>2, <2>3 DEF RunSet
  <1>5. DOMAIN Steps = 1 .. 22 /\ Len(Steps) = 22 /\ Steps[22] = "RADVD_SVC" /\ Steps[12] = "KEA"
        /\ 0 \in 0 .. Len(Steps)
    BY StepsAre
  <1>6. /\ run' \in RunSet /\ Busy' /\ run'.only = only /\ run'.check = check /\ run'.want = want
        /\ run'.dnsChanged = FALSE /\ run'.error = FALSE /\ run'.faults = faults
        /\ run'.step < End => Selected(Steps[run'.step], only)
                              /\ run'.left = EntriesOf(Steps[run'.step], want)
        /\ run'.step = End => run'.left = {}
        /\ \A e \in Entries :
              Selected(e.section, only) /\ want[e] # "gone" /\ SeenTo(e)' =>
                 \A j \in DOMAIN Steps : Steps[j] = e.section => j <= 0
        /\ \A s \in Special :
              Selected(s, only) /\ Passed(s)' => \A j \in DOMAIN Steps : Steps[j] = s => j <= 0
    BY <1>2, <1>4, <1>5, GoesTo
  <1>7. ASSUME NEW e \in Entries, Selected(e.section, only), SeenTo(e)', want[e] # "gone" PROVE FALSE
    BY <1>5, <1>6, <1>7, OfSections
  <1>8. ASSUME NEW s \in {"RADVD_SVC", "KEA"}, Selected(s, only), Passed(s)' PROVE FALSE
    <2>1. s \in Special
      BY DEF Special, Reconfigures, ServiceSteps
    <2> QED BY <1>5, <1>6, <1>8, <2>1
  <1> QED BY <1>2, <1>6, <1>7, <1>8

LEMMA BeginKeeps ==
    ASSUME CatalogInv, NEW only \in Onlys[inventory], NEW check \in BOOLEAN, Begin(only, check)
    PROVE  CatalogInv'
  <1>1. TypeOK /\ Placed /\ ServedSoon /\ LastHolds
    BY DEF CatalogInv
  <1>2. ~Busy /\ UNCHANGED <<inventory, want, rows, live, up, last, passes, faults>>
    BY DEF Begin
  <1>3. /\ run' \in RunSet /\ Busy' /\ run'.only = only /\ run'.check = check /\ run'.want = want
        /\ run'.dnsChanged = FALSE
        /\ run'.step < End => Selected(Steps[run'.step], only)
                              /\ run'.left = EntriesOf(Steps[run'.step], want)
        /\ run'.step = End => run'.left = {}
        /\ \A e \in Entries : Selected(e.section, only) /\ SeenTo(e)' => want[e] = "gone"
        /\ \A s \in {"RADVD_SVC", "KEA"} : Selected(s, only) => ~Passed(s)'
    BY BeginsAfresh
  <1>4. TypeOK'
    <2>1. touched' \subseteq Entries
      BY <1>1 DEF TypeOK, Begin
    <2> QED BY <1>1, <1>2, <1>3, <2>1 DEF TypeOK, RunSet
  <1>5. Placed'
    BY <1>1, <1>2, <1>3, SameScope DEF Placed, Step
  <1>6. DoneSoFar'
    <2>1. ASSUME NEW e \in Entries, Selected(e.section, run'.only), SeenTo(e)'
          PROVE  AsAsked(e, run.want)'
      BY <1>3, <2>1 DEF AsAsked
    <2>2. ASSUME NEW s \in {"RADVD_SVC", "KEA"}, Selected(s, run'.only), Passed(s)' PROVE FALSE
      BY <1>3, <2>2
    <2> QED BY <1>2, <2>1, <2>2, SameScope DEF DoneSoFar
  <1>7. ServedSoon'
    BY <1>1, <1>2 DEF ServedSoon, ServedBy
  <1>8. LastHolds'
    <2>1. CASE check
      <3>1. touched' = touched
        BY <2>1 DEF Begin
      <3> QED BY <1>1, <1>2, <3>1, LastStays
    <2>2. CASE ~check
      BY <1>3, <2>2 DEF LastHolds
    <2> QED BY <2>1, <2>2
  <1> QED BY <1>4, <1>5, <1>6, <1>7, <1>8 DEF CatalogInv

(* A step of a run that has no error and writes nothing itself but what a  *)
(* reconfiguration or a service control does: the run goes on.             *)
LEMMA OnwardKeeps ==
    ASSUME CatalogInv, Busy, run.step < End, run.left = {},
           NEW r \in {run, Failed}, run' = Onward(r, run.step),
           UNCHANGED <<inventory, touched, want, rows, last, passes>>,
           live' \in [Entries -> 0 .. MaxRows], up' \subseteq {"dnsmasq", "radvd"}, up \subseteq up',
           faults' \in 0 .. MaxFaults,
           run.check => UNCHANGED <<live, up>>,
           ~r.error /\ ~run.check /\ Step = "RADVD_SVC" /\ "radvd" \in Services[inventory] => "radvd" \in up',
           IF ~r.error /\ ~run.check /\ Step = "KEA" THEN \A e \in ServedBy("KEA") : live'[e] = rows[e]
           ELSE ~r.error => \A e \in ServedBy("KEA") : live'[e] = live[e],
           faults' = 0 =>
               /\ faults = 0
               /\ IF Step = "UNBOUND" THEN \A e \in ServedBy("UNBOUND") : live'[e] = rows[e]
                  ELSE \A e \in ServedBy("UNBOUND") : live'[e] = live[e]
    PROVE  CatalogInv'
  <1>1. TypeOK /\ Placed /\ DoneSoFar /\ ServedSoon /\ LastHolds
    BY DEF CatalogInv
  <1>2. run \in RunSet
    BY <1>1 DEF TypeOK, RunSet
  <1>3. /\ r \in RunSet /\ r.only = run.only /\ r.check = run.check /\ r.want = run.want
        /\ r.dnsChanged = run.dnsChanged /\ (run.error => r.error)
    BY <1>2 DEF Failed, RunSet
  <1>4. DOMAIN Steps = 1 .. 22 /\ Len(Steps) = 22 /\ End = 23
    BY StepsAre
  <1>5. run.step \in DOMAIN Steps /\ run.step \in 0 .. Len(Steps)
    BY <1>2, <1>4 DEF Busy, RunSet
  <1>6. /\ run' \in RunSet /\ Busy' /\ run'.only = r.only /\ run'.check = r.check /\ run'.want = r.want
        /\ run'.dnsChanged = r.dnsChanged /\ run'.error = r.error
        /\ run'.step < End => Selected(Steps[run'.step], r.only)
                              /\ run'.left = EntriesOf(Steps[run'.step], r.want)
        /\ run'.step = End => run'.left = {}
        /\ \A e \in Entries :
              Selected(e.section, r.only) /\ r.want[e] # "gone" /\ SeenTo(e)' =>
                 \A j \in DOMAIN Steps : Steps[j] = e.section => j <= run.step
        /\ \A s \in Special :
              Selected(s, r.only) /\ Passed(s)' => \A j \in DOMAIN Steps : Steps[j] = s => j <= run.step
    BY <1>3, <1>5, GoesTo
  <1>7. TypeOK'
    BY <1>1, <1>6 DEF TypeOK, RunSet
  <1>8. Placed'
    BY <1>1, <1>3, <1>6, SameScope DEF Placed, Step
  <1>9. ASSUME NEW e \in Entries, Selected(e.section, run.only), SeenTo(e)', run.want[e] # "gone"
        PROVE  SeenTo(e)
    BY <1>3, <1>4, <1>5, <1>6, <1>9 DEF SeenTo
  <1>10. ASSUME NEW s \in Special, Selected(s, run.only), Passed(s)', s # Step
         PROVE  Passed(s)
    BY <1>3, <1>4, <1>5, <1>6, <1>10 DEF Passed, Step
  <1>11. DoneSoFar'
    <2> SUFFICES ASSUME ~run'.check, ~run'.error PROVE DoneSoFar'
      BY DEF DoneSoFar
    <2>1. ~run.check /\ ~run.error /\ ~r.error
      BY <1>3, <1>6
    <2>2. ASSUME NEW e \in Entries, Selected(e.section, run'.only), SeenTo(e)'
          PROVE  AsAsked(e, run.want)'
      <3>1. CASE run.want[e] = "gone"
        BY <1>3, <1>6, <3>1 DEF AsAsked
      <3>2. CASE run.want[e] # "gone"
        <4>1. AsAsked(e, run.want)
          BY <1>1, <1>3, <1>6, <1>9, <2>1, <2>2, <3>2 DEF DoneSoFar
        <4> QED BY <1>3, <1>6, <4>1 DEF AsAsked
      <3> QED BY <3>1, <3>2
    <2>3. ASSUME Selected("RADVD_SVC", run'.only), Passed("RADVD_SVC")', "radvd" \in Services[inventory]
          PROVE  "radvd" \in up'
      <3>1. CASE Step = "RADVD_SVC"
        BY <2>1, <2>3, <3>1
      <3>2. CASE Step # "RADVD_SVC"
        <4>1. Passed("RADVD_SVC")
          BY <1>3, <1>6, <1>10, <2>3, <3>2 DEF Special, ServiceSteps
        <4> QED BY <1>1, <1>3, <1>6, <2>1, <2>3, <4>1 DEF DoneSoFar
      <3> QED BY <3>1, <3>2
    <2>4. ASSUME Selected("KEA", run'.only), Passed("KEA")', NEW e \in ServedBy("KEA")
          PROVE  live'[e] = rows'[e]
      <3>1. CASE Step = "KEA"
        BY <2>1, <3>1
      <3>2. CASE Step # "KEA"
        <4>1. Passed("KEA")
          BY <1>3, <1>6, <1>10, <2>4, <3>2 DEF Special, Reconfigures
        <4>2. live[e] = rows[e]
          BY <1>1, <1>3, <1>6, <2>1, <2>4, <4>1 DEF DoneSoFar
        <4> QED BY <2>1, <3>2, <4>2
      <3> QED BY <3>1, <3>2
    <2> QED BY <2>2, <2>3, <2>4, SameScope DEF DoneSoFar, ServedBy
  <1>12. ServedSoon'
    <2> SUFFICES ASSUME faults' = 0, NEW e \in ServedBy("UNBOUND"), live'[e] # rows'[e]
                 PROVE  Busy' /\ run'.dnsChanged /\ ~run'.check /\ ~Passed("UNBOUND")'
      BY DEF ServedSoon, ServedBy
    <2>1. Step # "UNBOUND" /\ live[e] # rows[e] /\ faults = 0
      OBVIOUS
    <2>2. run.dnsChanged /\ ~run.check /\ ~Passed("UNBOUND")
      BY <1>1, <2>1 DEF ServedSoon
    <2>3. Selected("UNBOUND", run.only) /\ "UNBOUND" \in Special
      BY <1>1, <2>2 DEF Placed, Special, Reconfigures
    <2> QED BY <1>3, <1>6, <1>10, <2>1, <2>2, <2>3
  <1>13. LastHolds'
    <2>1. CASE run.check
      BY <1>1, <2>1, LastStays
    <2>2. CASE ~run.check
      BY <1>3, <1>6, <2>2 DEF LastHolds
    <2> QED BY <2>1, <2>2
  <1> QED BY <1>7, <1>8, <1>11, <1>12, <1>13 DEF CatalogInv

LEMMA NothingLeft ==
    ASSUME CatalogInv, Busy, run.step < End, Step \in Special PROVE run.left = {}
  <1>1. run.left \subseteq EntriesOf(Step, run.want)
    BY DEF CatalogInv, Placed
  <1> QED BY <1>1, NoneOfSpecial

LEMMA NextSectionKeeps == CatalogInv /\ NextSection => CatalogInv'
  <1> SUFFICES ASSUME CatalogInv, NextSection PROVE CatalogInv'
    OBVIOUS
  <1>1. /\ Busy /\ run.step < End /\ run.left = {} /\ run' = Onward(run, run.step)
        /\ Step # "UNBOUND" /\ Step # "KEA" /\ Step # "RADVD_SVC"
        /\ UNCHANGED <<inventory, touched, want, rows, live, up, last, passes, faults>>
    BY DEF NextSection, Reconfigures, ServiceSteps
  <1>2. /\ live \in [Entries -> 0 .. MaxRows] /\ up \subseteq {"dnsmasq", "radvd"}
        /\ faults \in 0 .. MaxFaults
    BY DEF CatalogInv, TypeOK
  <1> QED BY <1>1, <1>2, OnwardKeeps

(* What a reconfiguration reads is what its daemon serves from then on,    *)
(* and no other daemon's.                                                  *)
LEMMA ReloadServes ==
    ASSUME CatalogInv, NEW s \in {"UNBOUND", "KEA"}, Reload(s)
    PROVE  /\ live' \in [Entries -> 0 .. MaxRows]
           /\ \A e \in ServedBy(s) : live'[e] = rows[e]
           /\ s = "UNBOUND" => \A e \in ServedBy("KEA") : live'[e] = live[e]
           /\ s = "KEA" => \A e \in ServedBy("UNBOUND") : live'[e] = live[e]
  <1>1. live \in [Entries -> 0 .. MaxRows] /\ rows \in [Entries -> 0 .. MaxRows]
    BY DEF CatalogInv, TypeOK
  <1>2. ServedBy("KEA") \subseteq Entries /\ ServedBy("UNBOUND") \subseteq Entries
        /\ \A e \in ServedBy("KEA") : e \notin ServedBy("UNBOUND")
    BY DEF ServedBy, KeaSections
  <1>3. \A e \in Entries : live'[e] = IF e \in ServedBy(s) THEN rows[e] ELSE live[e]
    BY DEF Reload
  <1>4. live' \in [Entries -> 0 .. MaxRows]
    BY <1>1 DEF Reload
  <1> QED BY <1>2, <1>3, <1>4

LEMMA PostKeeps ==
    ASSUME CatalogInv, Busy, run.step < End, NEW s \in {"UNBOUND", "KEA"}, Step = s, Post(s),
           UNCHANGED <<inventory, touched, want, rows, up, last, passes>>
    PROVE  CatalogInv'
  <1>1. run.left = {}
    BY NothingLeft DEF Special, Reconfigures
  <1>2. /\ live \in [Entries -> 0 .. MaxRows] /\ up \subseteq {"dnsmasq", "radvd"}
        /\ faults \in 0 .. MaxFaults /\ MaxFaults \in Nat
    BY CatalogAssumption DEF CatalogInv, TypeOK
  <1>3. CASE /\ IF run.check THEN UNCHANGED live ELSE Reload(s)
             /\ run' = Onward(run, run.step)
             /\ UNCHANGED faults
    <2>1. CASE run.check
      <3>1. faults = 0 => \A e \in ServedBy("UNBOUND") : live[e] = rows[e]
        BY <2>1 DEF CatalogInv, ServedSoon
      <3>2. live' = live /\ run' = Onward(run, run.step) /\ faults' = faults
        BY <1>3, <2>1
      <3>3. faults' = 0 => \A e \in ServedBy("UNBOUND") : live'[e] = rows[e] /\ live'[e] = live[e]
        BY <3>1, <3>2
      <3>4. \A e \in ServedBy("KEA") : live'[e] = live[e]
        BY <3>2
      <3> QED BY <1>1, <1>2, <2>1, <3>2, <3>3, <3>4, OnwardKeeps
    <2>2. CASE ~run.check
      BY <1>1, <1>2, <1>3, <2>2, ReloadServes, OnwardKeeps
    <2> QED BY <2>1, <2>2
  <1>4. CASE /\ ~run.check
             /\ faults < MaxFaults /\ faults' = faults + 1
             /\ Reload(s) \/ UNCHANGED live
             /\ run' = Onward(Failed, run.step)
    <2>1. Failed.error = TRUE
      BY DEF Failed, CatalogInv, TypeOK
    <2>2. live' \in [Entries -> 0 .. MaxRows] /\ ~run.check
      BY <1>2, <1>4, ReloadServes
    <2>3. faults' \in 0 .. MaxFaults /\ faults' # 0
      BY <1>2, <1>4
    <2> QED BY <1>1, <1>2, <1>4, <2>1, <2>2, <2>3, OnwardKeeps
  <1> QED BY <1>3, <1>4 DEF Post

LEMMA ReconfigureKeeps == CatalogInv /\ (ReconfigureUnbound \/ ReconfigureKea) => CatalogInv'
  <1> SUFFICES ASSUME CatalogInv, ReconfigureUnbound \/ ReconfigureKea PROVE CatalogInv'
    OBVIOUS
  <1>1. CASE ReconfigureKea
    BY <1>1, PostKeeps DEF ReconfigureKea
  <1>2. CASE ReconfigureUnbound /\ run.dnsChanged
    BY <1>2, PostKeeps DEF ReconfigureUnbound
  <1>3. CASE ReconfigureUnbound /\ ~run.dnsChanged
    <2>1. /\ Busy /\ run.step < End /\ Step = "UNBOUND" /\ run' = Onward(run, run.step)
          /\ UNCHANGED <<inventory, touched, want, rows, live, up, last, passes, faults>>
      BY <1>3 DEF ReconfigureUnbound
    <2>2. run.left = {}
      BY <2>1, NothingLeft DEF Special, Reconfigures
    <2>3. /\ live \in [Entries -> 0 .. MaxRows] /\ up \subseteq {"dnsmasq", "radvd"}
          /\ faults \in 0 .. MaxFaults
      BY DEF CatalogInv, TypeOK
    <2>4. faults = 0 => \A e \in ServedBy("UNBOUND") : live[e] = rows[e]
      BY <1>3 DEF CatalogInv, ServedSoon
    <2> QED BY <2>1, <2>2, <2>3, <2>4, OnwardKeeps
  <1> QED BY <1>1, <1>2, <1>3

LEMMA ControlServiceKeeps == CatalogInv /\ ControlService => CatalogInv'
  <1> SUFFICES ASSUME CatalogInv, ControlService PROVE CatalogInv'
    OBVIOUS
  <1> DEFINE d == IF Step = "RADVD_SVC" THEN "radvd" ELSE "dnsmasq"
  <1>1. /\ Busy /\ run.step < End /\ Step \in ServiceSteps
        /\ UNCHANGED <<inventory, touched, want, rows, live, last, passes>>
        /\ \/ /\ d \notin Services[inventory]
              /\ run' = Onward(run, run.step) /\ UNCHANGED <<up, faults>>
           \/ /\ d \in Services[inventory]
              /\ up' = IF run.check THEN up ELSE up \cup {d}
              /\ run' = Onward(run, run.step) /\ UNCHANGED faults
           \/ /\ d \in Services[inventory]
              /\ faults < MaxFaults /\ faults' = faults + 1
              /\ run' = Onward(Failed, run.step) /\ UNCHANGED up
    BY DEF ControlService
  <1>2. run.left = {} /\ Step # "UNBOUND" /\ Step # "KEA"
    BY <1>1, NothingLeft DEF Special, ServiceSteps
  <1>3. /\ live \in [Entries -> 0 .. MaxRows] /\ up \subseteq {"dnsmasq", "radvd"}
        /\ faults \in 0 .. MaxFaults /\ MaxFaults \in Nat /\ d \in {"dnsmasq", "radvd"}
    BY CatalogAssumption DEF CatalogInv, TypeOK
  <1>4. Step = "RADVD_SVC" => d = "radvd"
    OBVIOUS
  <1> HIDE DEF d
  <1>5. CASE /\ d \notin Services[inventory]
             /\ run' = Onward(run, run.step) /\ UNCHANGED <<up, faults>>
    <2>1. Step = "RADVD_SVC" => "radvd" \notin Services[inventory]
      BY <1>4, <1>5
    <2> QED BY <1>1, <1>2, <1>3, <1>5, <2>1, OnwardKeeps
  <1>6. CASE /\ d \in Services[inventory]
             /\ up' = IF run.check THEN up ELSE up \cup {d}
             /\ run' = Onward(run, run.step) /\ UNCHANGED faults
    <2>1. /\ up' \subseteq {"dnsmasq", "radvd"} /\ up \subseteq up' /\ (run.check => up' = up)
          /\ ~run.check /\ Step = "RADVD_SVC" => "radvd" \in up'
      BY <1>3, <1>4, <1>6
    <2> QED BY <1>1, <1>2, <1>3, <1>6, <2>1, OnwardKeeps
  <1>7. CASE /\ d \in Services[inventory]
             /\ faults < MaxFaults /\ faults' = faults + 1
             /\ run' = Onward(Failed, run.step) /\ UNCHANGED up
    <2>1. Failed.error = TRUE
      BY DEF Failed, CatalogInv, TypeOK
    <2>2. faults' \in 0 .. MaxFaults /\ faults' # 0
      BY <1>3, <1>7
    <2> QED BY <1>1, <1>2, <1>3, <1>7, <2>1, <2>2, OnwardKeeps
  <1> QED BY <1>1, <1>5, <1>6, <1>7

(* An entry of a section is applied, whichever way: whatever is written is *)
(* its own rows, after which it is as asked unless the call failed.        *)
LEMMA AppliedKeeps ==
    ASSUME CatalogInv, Busy, NEW e \in run.left, NEW changed \in BOOLEAN, NEW failed \in BOOLEAN,
           run' = Applied(e, changed, failed), NEW n \in 0 .. MaxRows,
           rows' = rows \/ (~run.check /\ rows' = [rows EXCEPT ![e] = n]),
           UNCHANGED <<inventory, touched, want, live, up, last, passes>>, faults' \in 0 .. MaxFaults,
           faults' = 0 => faults = 0 /\ (rows' # rows => changed \/ Step \notin DnsSections),
           ~failed /\ ~run.check => AsAsked(e, run.want)'
    PROVE  CatalogInv'
  <1>1. TypeOK /\ Placed /\ DoneSoFar /\ ServedSoon /\ LastHolds
    BY DEF CatalogInv
  <1>2. DOMAIN Steps = 1 .. 22 /\ Len(Steps) = 22 /\ End = 23
    BY StepsAre
  <1>3. run \in RunSet
    BY <1>1 DEF TypeOK, RunSet
  <1>4. run.step < End /\ run.step \in DOMAIN Steps
    BY <1>1, <1>2, <1>3 DEF Placed, Busy, RunSet
  <1>5. e \in Entries /\ e.section = Step /\ Selected(Step, run.only)
    BY <1>1, <1>4 DEF Placed, EntriesOf
  <1>6. /\ run' \in RunSet /\ run'.step = run.step /\ run'.only = run.only /\ run'.check = run.check
        /\ run'.want = run.want /\ run'.left = run.left \ {e}
        /\ run'.dnsChanged = (run.dnsChanged \/ (changed /\ Step \in DnsSections))
        /\ run'.error = (run.error \/ failed)
    BY <1>3 DEF Applied, RunSet
  <1>7. Busy' /\ Step' = Step
    BY <1>6 DEF Busy, Step
  <1>8. rows' \in [Entries -> 0 .. MaxRows] /\ \A u \in Entries : u # e => rows'[u] = rows[u]
    BY <1>1, <1>5 DEF TypeOK
  <1>9. TypeOK'
    BY <1>1, <1>6, <1>8 DEF TypeOK, RunSet
  <1>10. Placed'
    <2>1. run'.dnsChanged => Selected("UNBOUND", run.only)
      BY <1>1, <1>5, <1>6, ScopeOfDns DEF Placed
    <2>2. run'.left \subseteq EntriesOf(Step, run.want)
      BY <1>1, <1>4, <1>6 DEF Placed
    <2> QED BY <1>1, <1>4, <1>5, <1>6, <1>7, <2>1, <2>2, SameScope DEF Placed
  <1>11. \A s : Passed(s)' <=> Passed(s)
    BY <1>6, <1>7 DEF Passed
  <1>12. DoneSoFar'
    <2> SUFFICES ASSUME ~run'.check, ~run'.error PROVE DoneSoFar'
      BY DEF DoneSoFar
    <2>1. ~run.check /\ ~run.error /\ ~failed
      BY <1>6
    <2>2. ASSUME NEW u \in Entries, Selected(u.section, run'.only), SeenTo(u)'
          PROVE  AsAsked(u, run.want)'
      <3>1. CASE u = e
        BY <2>1, <3>1
      <3>2. CASE u # e
        <4>1. SeenTo(u)
          BY <1>6, <2>2, <3>2 DEF SeenTo, Busy
        <4>2. AsAsked(u, run.want)
          BY <1>1, <1>6, <2>1, <2>2, <4>1 DEF DoneSoFar
        <4> QED BY <1>6, <1>8, <3>2, <4>2 DEF AsAsked
      <3> QED BY <3>1, <3>2
    <2>3. ASSUME Selected("RADVD_SVC", run'.only), Passed("RADVD_SVC")', "radvd" \in Services[inventory]
          PROVE  "radvd" \in up'
      BY <1>1, <1>6, <1>11, <2>1, <2>3 DEF DoneSoFar
    <2>4. ASSUME Selected("KEA", run'.only), Passed("KEA")', NEW u \in ServedBy("KEA")
          PROVE  live'[u] = rows'[u]
      <3>1. live[u] = rows[u] /\ u \in Entries
        BY <1>1, <1>6, <1>11, <2>1, <2>4 DEF DoneSoFar, ServedBy
      <3>2. 12 < run.step
        BY <1>2, <1>11, <2>4, StepsAre DEF Passed
      <3>3. Step \notin KeaSections
        BY <1>2, <1>4, <3>2, StepsAre DEF Step, KeaSections
      <3>4. u # e
        BY <1>5, <2>4, <3>3 DEF ServedBy
      <3> QED BY <1>8, <3>1, <3>4
    <2> QED BY <2>2, <2>3, <2>4, SameScope DEF DoneSoFar, ServedBy
  <1>13. ServedSoon'
    <2> SUFFICES ASSUME faults' = 0, NEW u \in ServedBy("UNBOUND"), live'[u] # rows'[u]
                 PROVE  run'.dnsChanged /\ ~run'.check /\ ~Passed("UNBOUND")'
      BY <1>7 DEF ServedSoon, ServedBy
    <2>1. faults = 0 /\ u \in Entries /\ u.section \in DnsSections
      BY DEF ServedBy, DnsSections
    <2>2. CASE live[u] # rows[u]
      BY <1>1, <1>6, <1>11, <2>1, <2>2 DEF ServedSoon
    <2>3. CASE live[u] = rows[u]
      <3>1. rows'[u] # rows[u]
        BY <2>3
      <3>2. u = e /\ ~run.check /\ rows' # rows
        BY <1>8, <2>1, <3>1
      <3>3. changed /\ Step \in DnsSections
        BY <1>5, <2>1, <3>2
      <3>4. run.step < 7
        BY <1>2, <1>4, <3>3, StepsAre DEF Step, DnsSections
      <3>5. ~Passed("UNBOUND")
        BY <1>2, <1>4, <3>4, StepsAre DEF Passed
      <3> QED BY <1>6, <1>11, <3>2, <3>3, <3>5
    <2> QED BY <2>2, <2>3
  <1>14. LastHolds'
    <2>1. CASE run.check
      BY <1>1, <1>6, <2>1, LastStays
    <2>2. CASE ~run.check
      BY <1>6, <1>7, <2>2 DEF LastHolds
    <2> QED BY <2>1, <2>2
  <1> QED BY <1>9, <1>10, <1>12, <1>13, <1>14 DEF CatalogInv

(* What a call that is taken leaves of its entry.                          *)
LEMMA EnsureAsks ==
    ASSUME CatalogInv, OneRow, NEW e \in run.left, NEW changed, run' = Applied(e, changed, FALSE),
           ~run.check, UNCHANGED touched,
           IF Changes(e) /\ ~run.check THEN Save(e, Written(e)) ELSE UNCHANGED rows
    PROVE  AsAsked(e, run.want)'
  <1>1. /\ rows \in [Entries -> 0 .. MaxRows] /\ run \in RunSet /\ MaxRows \in Nat \ {0}
        /\ e \in Entries
    BY CatalogAssumption DEF CatalogInv, TypeOK, RunSet
  <1>2. run'.want = run.want
    BY <1>1 DEF Applied, RunSet
  <1> SUFFICES ASSUME e \notin touched
               PROVE  /\ run.want[e] = "present" => rows'[e] > 0
                      /\ run.want[e] = "absent" /\ e.keyed => rows'[e] = 0
    BY <1>2 DEF AsAsked
  <1>3. CASE Changes(e)
    <2>1. rows'[e] = Written(e)
      BY <1>1, <1>3 DEF Save
    <2>2. run.want[e] = "absent" => rows[e] > 0 /\ Written(e) = rows[e] - 1
      BY <1>3 DEF Written, Changes, Found
    <2>3. e.keyed => rows[e] <= 1
      BY <1>1 DEF OneRow, NoDuplicates
    <2>4. run.want[e] = "present" => Written(e) > 0
      BY <1>1 DEF Written, More
    <2>5. run.want[e] = "absent" /\ e.keyed => Written(e) = 0
      BY <1>1, <2>2, <2>3
    <2> QED BY <2>1, <2>4, <2>5
  <1>4. CASE ~Changes(e)
    BY <1>1, <1>4, SentAsStored DEF Changes, Found
  <1> QED BY <1>3, <1>4

(* Settings are never retired.                                             *)
LEMMA SettingsStay ==
    ASSUME CatalogInv, Busy, NEW e \in run.left, Step \in Settings PROVE run.want[e] # "absent"
  <1>1. run.left \subseteq EntriesOf(Step, run.want)
    BY StepsAre DEF CatalogInv, TypeOK, Placed
  <1>2. e \in Entries /\ e.section \in Stateless
    BY <1>1 DEF EntriesOf, Settings, Stateless
  <1> QED BY <1>2 DEF CatalogInv, Placed

LEMMA EnsureKeeps == ASSUME CatalogInv, OneRow, NEW e \in Entries, Ensure(e) PROVE CatalogInv'
  <1>1. /\ rows \in [Entries -> 0 .. MaxRows] /\ faults \in 0 .. MaxFaults /\ run \in RunSet
        /\ MaxRows \in Nat \ {0} /\ MaxFaults \in Nat
    BY CatalogAssumption DEF CatalogInv, TypeOK, RunSet
  <1>2. Busy /\ e \in run.left /\ UNCHANGED <<inventory, touched, want, live, up, last, passes>>
    BY DEF Ensure
  <1>3. Counted /\ Changes(e) \in BOOLEAN
    BY <1>1 DEF Counted, Changes, Found
  <1>4. Changes(e) => Written(e) \in 0 .. MaxRows
    BY <1>3, WrittenOnce
  <1>5. CASE /\ ~Refused(e)
             /\ IF Changes(e) /\ ~run.check THEN Save(e, Written(e)) ELSE UNCHANGED rows
             /\ run' = Applied(e, Changes(e), FALSE)
             /\ UNCHANGED faults
    <2>1. ~run.check => AsAsked(e, run.want)'
      BY <1>2, <1>5, EnsureAsks
    <2>2. CASE Changes(e) /\ ~run.check
      <3>1. rows' = [rows EXCEPT ![e] = Written(e)]
        BY <1>5, <2>2 DEF Save
      <3> QED BY <1>1, <1>2, <1>3, <1>4, <1>5, <2>1, <2>2, <3>1, AppliedKeeps
    <2>3. CASE ~(Changes(e) /\ ~run.check)
      <3>1. rows' = rows /\ 0 \in 0 .. MaxRows
        BY <1>1, <1>5, <2>3
      <3> QED BY <1>1, <1>2, <1>3, <1>5, <2>1, <3>1, AppliedKeeps
    <2> QED BY <2>2, <2>3
  <1>6. CASE Refused(e) /\ run' = Applied(e, FALSE, TRUE) /\ UNCHANGED <<rows, faults>>
    <2>1. 0 \in 0 .. MaxRows
      BY <1>1
    <2> QED BY <1>1, <1>2, <1>6, <2>1, AppliedKeeps
  <1>7. CASE /\ faults < MaxFaults /\ faults' = faults + 1
             /\ rows' \in {rows, IF Changes(e) /\ ~Refused(e) /\ ~run.check
                                   THEN [rows EXCEPT ![e] = Written(e)] ELSE rows}
             /\ run' = Applied(e, FALSE, TRUE)
    <2>1. 0 \in 0 .. MaxRows /\ faults' \in 0 .. MaxFaults /\ faults' # 0
      BY <1>1, <1>7
    <2>2. CASE rows' = rows
      BY <1>2, <1>7, <2>1, <2>2, AppliedKeeps
    <2>3. CASE Changes(e) /\ ~run.check /\ rows' = [rows EXCEPT ![e] = Written(e)]
      BY <1>2, <1>4, <1>7, <2>1, <2>3, AppliedKeeps
    <2> QED BY <1>7, <2>2, <2>3
  <1> QED BY <1>5, <1>6, <1>7 DEF Ensure

LEMMA PostGeneralKeeps == ASSUME CatalogInv, NEW e \in Entries, PostGeneral(e) PROVE CatalogInv'
  <1>1. /\ rows \in [Entries -> 0 .. MaxRows] /\ faults \in 0 .. MaxFaults /\ run \in RunSet
        /\ MaxRows \in Nat \ {0} /\ MaxFaults \in Nat
    BY CatalogAssumption DEF CatalogInv, TypeOK, RunSet
  <1>2. /\ Busy /\ e \in run.left /\ Step \in Settings
        /\ UNCHANGED <<inventory, touched, want, live, up, last, passes>>
    BY DEF PostGeneral
  <1>3. 1 \in 0 .. MaxRows /\ Step \notin DnsSections
    BY <1>1, <1>2 DEF Settings, DnsSections
  <1>4. run.want[e] # "absent"
    BY <1>2, SettingsStay
  <1>5. CASE /\ IF run.check THEN UNCHANGED rows ELSE Save(e, 1)
             /\ run' = Applied(e, FALSE, FALSE)
             /\ UNCHANGED faults
    <2>1. rows' = rows \/ (~run.check /\ rows' = [rows EXCEPT ![e] = 1])
      BY <1>5 DEF Save
    <2>2. ~run.check => AsAsked(e, run.want)'
      <3>1. run'.want = run.want
        BY <1>1, <1>5 DEF Applied, RunSet
      <3>2. ~run.check => rows'[e] = 1
        BY <1>1, <1>5 DEF Save
      <3> QED BY <1>4, <3>1, <3>2 DEF AsAsked
    <2> QED BY <1>1, <1>2, <1>3, <1>5, <2>1, <2>2, AppliedKeeps
  <1>6. CASE /\ ~run.check
             /\ faults < MaxFaults /\ faults' = faults + 1
             /\ rows' \in {rows, [rows EXCEPT ![e] = 1]}
             /\ run' = Applied(e, FALSE, TRUE)
    <2>1. rows' = rows \/ (~run.check /\ rows' = [rows EXCEPT ![e] = 1])
      BY <1>6
    <2>2. faults' \in 0 .. MaxFaults /\ faults' # 0
      BY <1>1, <1>6
    <2> QED BY <1>2, <1>3, <1>6, <2>1, <2>2, AppliedKeeps
  <1> QED BY <1>5, <1>6 DEF PostGeneral

LEMMA FinishKeeps == CatalogInv /\ Finish => CatalogInv'
  <1> SUFFICES ASSUME CatalogInv, Finish PROVE CatalogInv'
    OBVIOUS
  <1>1. TypeOK /\ Placed /\ DoneSoFar /\ ServedSoon /\ LastHolds
    BY DEF CatalogInv
  <1>2. /\ run.step = End /\ run' = NoRun /\ UNCHANGED <<inventory, touched, want, rows, live, up, faults>>
        /\ IF run.check THEN UNCHANGED <<last, passes>>
           ELSE /\ last' = [exit |-> IF run.error THEN "error" ELSE "ok",
                            only |-> run.only, want |-> run.want]
                /\ passes' \in 0 .. 2
    BY DEF Finish
  <1>3. DOMAIN Steps = 1 .. 22 /\ Len(Steps) = 22 /\ End = 23 /\ MaxFaults \in Nat
    BY StepsAre, CatalogAssumption
  <1>4. NoRun \in RunSet /\ NoRun.step = 0 /\ \A e \in Entries : NoRun.want[e] = "present"
    BY <1>3 DEF NoRun, RunSet, States
  <1>5. Busy /\ ~Busy' /\ run' \in RunSet
    BY <1>2, <1>3, <1>4 DEF Busy
  <1>6. (\A e \in Entries : SeenTo(e)) /\ \A s : Passed(s)
    BY <1>2, <1>3, <1>5 DEF SeenTo, Passed
  <1>7. TypeOK'
    <2>1. /\ run.only \in SUBSET SectionGroups /\ run.want \in [Entries -> States]
      BY <1>1 DEF TypeOK
    <2>2. /\ last' \in [exit : {"none", "ok", "error", "cut"}, only : SUBSET SectionGroups,
                        want : [Entries -> States]]
          /\ passes' \in 0 .. 2
      BY <1>1, <1>2, <2>1 DEF TypeOK
    <2> QED BY <1>1, <1>2, <1>5, <2>2 DEF TypeOK, RunSet
  <1>8. Placed'
    BY <1>1, <1>2, <1>3, <1>4, <1>5 DEF Placed
  <1>9. DoneSoFar'
    BY <1>5 DEF DoneSoFar
  <1>10. ServedSoon'
    BY <1>1, <1>2, <1>6 DEF ServedSoon, ServedBy
  <1>11. LastHolds'
    <2>1. CASE run.check
      BY <1>1, <1>2, <2>1, LastStays
    <2>2. CASE ~run.check
      <3> SUFFICES ASSUME last'.exit = "ok" PROVE LastHolds'
        BY DEF LastHolds
      <3>1. ~run.error /\ last'.only = run.only /\ last'.want = run.want
        BY <1>2, <2>2
      <3>2. /\ \A e \in Entries : Selected(e.section, run.only) => AsAsked(e, run.want)
            /\ Selected("RADVD_SVC", run.only) /\ "radvd" \in Services[inventory] => "radvd" \in up
            /\ Selected("KEA", run.only) => \A e \in ServedBy("KEA") : live[e] = rows[e]
        BY <1>1, <1>5, <1>6, <2>2, <3>1 DEF DoneSoFar
      <3>3. \A e \in Entries : AsAsked(e, last.want)' <=> AsAsked(e, run.want)
        BY <1>2, <3>1 DEF AsAsked
      <3> QED BY <1>2, <3>1, <3>2, <3>3, SameScope DEF LastHolds, ServedBy
    <2> QED BY <2>1, <2>2
  <1> QED BY <1>7, <1>8, <1>9, <1>10, <1>11 DEF CatalogInv

LEMMA CutKeeps == CatalogInv /\ Cut => CatalogInv'
  <1> SUFFICES ASSUME CatalogInv, Cut PROVE CatalogInv'
    OBVIOUS
  <1>1. TypeOK /\ Placed
    BY DEF CatalogInv
  <1>2. /\ run' = NoRun /\ UNCHANGED <<inventory, touched, want, rows, live, up>> /\ passes' = 0
        /\ last' = [NoLast EXCEPT !.exit = "cut"] /\ faults < MaxFaults /\ faults' = faults + 1
    BY DEF Cut
  <1>3. End = 23 /\ MaxFaults \in Nat
    BY StepsAre, CatalogAssumption
  <1>4. NoRun \in RunSet /\ NoRun.step = 0 /\ \A e \in Entries : NoRun.want[e] = "present"
    BY <1>3 DEF NoRun, RunSet, States
  <1>5. last' = [exit |-> "cut", only |-> {}, want |-> NoRun.want]
    BY <1>2 DEF NoLast
  <1>6. NoRun.want \in [Entries -> States]
    BY DEF NoRun, States
  <1>7. ~Busy' /\ run' \in RunSet
    BY <1>2, <1>4 DEF Busy
  <1>8. faults' \in 0 .. MaxFaults /\ faults' # 0
    BY <1>1, <1>2, <1>3 DEF TypeOK
  <1>9. TypeOK'
    <2>1. last' \in [exit : {"none", "ok", "error", "cut"}, only : SUBSET SectionGroups,
                     want : [Entries -> States]]
      BY <1>5, <1>6
    <2>2. UNCHANGED <<inventory, touched, want, rows, live, up>> /\ passes' \in 0 .. 2
      BY <1>2
    <2> QED BY <1>1, <1>7, <1>8, <2>1, <2>2 DEF TypeOK, RunSet
  <1>10. Placed'
    BY <1>1, <1>2, <1>3, <1>4, <1>7 DEF Placed
  <1> QED BY <1>5, <1>7, <1>8, <1>9, <1>10 DEF CatalogInv, DoneSoFar, ServedSoon, LastHolds

(* The sections of the filter.                                            *)
LEMMA FilterLists ==
    /\ FwSteps[1] = "ALIAS" /\ FwSteps[2] = "RULE" /\ FwSteps[3] = "SNAT" /\ FwSteps[4] = "DNAT"
    /\ Range(FwSteps) = {"ALIAS", "RULE", "SNAT", "DNAT"}
  BY DEF FwSteps, Range

(* A row by hand: nothing is claimed of it, and no daemon serves it.       *)
LEMMA MeddleKeeps == ASSUME CatalogInv, NEW e \in ByHand, Meddle(e) PROVE CatalogInv'
  <1>1. TypeOK /\ Placed /\ DoneSoFar /\ ServedSoon /\ LastHolds
    BY DEF CatalogInv
  <1>2. /\ UNCHANGED <<inventory, want, live, up, run, last>> /\ passes' = 0
        /\ faults < MaxFaults /\ faults' = faults + 1
    BY DEF Meddle
  <1>3. e \in Entries /\ e.section \in {"ALIAS", "RULE", "SNAT", "DNAT"} /\ MaxFaults \in Nat
    BY CatalogAssumption, FilterLists
  <1>4. PICK n \in 0 .. MaxRows : rows' = [rows EXCEPT ![e] = n] /\ touched' = touched \cup {e}
    BY <1>1, <1>3, MeddleWrites DEF TypeOK, Counted
  <1>5. /\ rows' \in [Entries -> 0 .. MaxRows] /\ \A u \in Entries : u # e => rows'[u] = rows[u]
        /\ touched' \subseteq Entries /\ e \in touched' /\ touched \subseteq touched'
        /\ faults' \in 0 .. MaxFaults /\ faults' # 0
    BY <1>1, <1>2, <1>3, <1>4 DEF TypeOK
  <1>6. TypeOK'
    BY <1>1, <1>2, <1>5 DEF TypeOK
  <1>7. /\ Busy' = Busy /\ Step' = Step
        /\ \A s : (Passed(s)' <=> Passed(s))
        /\ \A u \in Entries : SeenTo(u)' <=> SeenTo(u)
    BY <1>2 DEF Busy, Step, Passed, SeenTo
  <1>8. /\ \A u \in Entries : AsAsked(u, run.want) => AsAsked(u, run.want)'
        /\ \A u \in Entries : AsAsked(u, last.want) => AsAsked(u, last.want)'
    BY <1>2, <1>5 DEF AsAsked
  <1>9. \A u \in ServedBy("KEA") : rows'[u] = rows[u] /\ live'[u] = live[u]
    BY <1>2, <1>3, <1>5 DEF ServedBy, KeaSections
  <1>10. Placed'
    BY <1>1, <1>2, <1>7, SameScope DEF Placed
  <1>11. DoneSoFar'
    BY <1>1, <1>2, <1>7, <1>8, <1>9, SameScope DEF DoneSoFar, ServedBy
  <1>12. ServedSoon'
    BY <1>5 DEF ServedSoon
  <1>13. LastHolds'
    BY <1>1, <1>2, <1>7, <1>8, <1>9, SameScope DEF LastHolds, ServedBy
  <1> QED BY <1>6, <1>10, <1>11, <1>12, <1>13 DEF CatalogInv

(* What leaves the run and the firewall alone: an edit of the catalog in   *)
(* git, and a call of somebody else's that fails.                          *)
LEMMA BesideKeeps ==
    ASSUME CatalogInv, UNCHANGED <<inventory, touched, rows, live, up, run, last, passes>>,
           want' \in [Entries -> States],
           \A e \in Entries : e.section \in Stateless => want'[e] # "absent",
           faults' \in 0 .. MaxFaults, faults' = 0 => faults = 0
    PROVE  CatalogInv'
  <1>1. TypeOK /\ Placed /\ DoneSoFar /\ ServedSoon /\ LastHolds
    BY DEF CatalogInv
  <1>2. TypeOK'
    BY <1>1 DEF TypeOK
  <1>3. /\ Busy' = Busy /\ Step' = Step
        /\ \A s : (Passed(s)' <=> Passed(s))
        /\ \A e \in Entries : SeenTo(e)' <=> SeenTo(e)
        /\ \A e \in Entries : AsAsked(e, run.want)' <=> AsAsked(e, run.want)
    BY DEF Busy, Step, Passed, SeenTo, AsAsked
  <1>4. Placed'
    BY <1>1, <1>3, SameScope DEF Placed
  <1>5. DoneSoFar'
    BY <1>1, <1>3, SameScope DEF DoneSoFar, ServedBy
  <1>6. ServedSoon'
    BY <1>1, <1>3 DEF ServedSoon, ServedBy
  <1>7. LastHolds'
    BY <1>1, <1>3, LastStays
  <1> QED BY <1>2, <1>4, <1>5, <1>6, <1>7 DEF CatalogInv

LEMMA EditKeeps == ASSUME CatalogInv, NEW edit \in Edits, Edit(edit[1], edit[2]) PROVE CatalogInv'
  <1>1. /\ want' = [want EXCEPT ![edit[1]] = edit[2]]
        /\ UNCHANGED <<inventory, touched, rows, live, up, run, last, passes, faults>>
    BY DEF Edit
  <1>2. /\ want \in [Entries -> States] /\ faults \in 0 .. MaxFaults
        /\ \A e \in Entries : e.section \in Stateless => want[e] # "absent"
    BY DEF CatalogInv, TypeOK, Placed
  <1>3. /\ edit[1] \in Entries /\ edit[2] \in States
        /\ edit[1].section \in Stateless => edit[2] # "absent"
    BY CatalogAssumption
  <1>4. want' \in [Entries -> States]
    BY <1>1, <1>2, <1>3
  <1>5. \A e \in Entries : e.section \in Stateless => want'[e] # "absent"
    BY <1>1, <1>2, <1>3
  <1> QED BY <1>1, <1>2, <1>4, <1>5, BesideKeeps

(* A search of the audit that fails is, to the apply, a call of somebody   *)
(* else's.                                                                 *)
Unanswered ==
    /\ faults < MaxFaults /\ faults' = faults + 1
    /\ UNCHANGED <<inventory, touched, want, rows, live, up, run, last, passes>>

LEMMA StepCatalog == OneRow /\ CatalogInv /\ [Next \/ Unanswered]_vars => CatalogInv'
  <1> SUFFICES ASSUME OneRow, CatalogInv, [Next \/ Unanswered]_vars PROVE CatalogInv'
    OBVIOUS
  <1>1. /\ want \in [Entries -> States] /\ faults \in 0 .. MaxFaults /\ inventory \in Inventories
        /\ \A e \in Entries : e.section \in Stateless => want[e] # "absent"
        /\ MaxFaults \in Nat
    BY CatalogAssumption DEF CatalogInv, TypeOK, Placed
  <1>2. ASSUME NEW only \in Onlys[inventory], NEW check \in BOOLEAN, Begin(only, check)
        PROVE  CatalogInv'
    BY <1>2, BeginKeeps
  <1>3. ASSUME NEW e \in Entries, Ensure(e) \/ PostGeneral(e) PROVE CatalogInv'
    BY <1>3, EnsureKeeps, PostGeneralKeeps
  <1>4. CASE NextSection
    BY <1>4, NextSectionKeeps
  <1>5. CASE ReconfigureUnbound \/ ReconfigureKea
    BY <1>5, ReconfigureKeeps
  <1>6. CASE ControlService
    BY <1>6, ControlServiceKeeps
  <1>7. CASE Finish
    BY <1>7, FinishKeeps
  <1>8. CASE Cut
    BY <1>8, CutKeeps
  <1>9. ASSUME NEW edit \in Edits, Edit(edit[1], edit[2]) PROVE CatalogInv'
    BY <1>9, EditKeeps
  <1>10. CASE Unanswered
    <2>1. faults' \in 0 .. MaxFaults /\ faults' # 0
      BY <1>1, <1>10 DEF Unanswered
    <2> QED BY <1>1, <1>10, <2>1, BesideKeeps DEF Unanswered
  <1>11. CASE UNCHANGED vars
    BY <1>1, <1>11, BesideKeeps DEF vars
  <1>12. ASSUME NEW e \in ByHand, Meddle(e) PROVE CatalogInv'
    BY <1>12, MeddleKeeps
  <1> QED
    BY <1>2, <1>3, <1>4, <1>5, <1>6, <1>7, <1>8, <1>9, <1>10, <1>11, <1>12 DEF Next, Work

LEMMA InitCatalog == Init => CatalogInv
  <1> SUFFICES ASSUME Init PROVE CatalogInv
    OBVIOUS
  <1>1. End = 23 /\ MaxFaults \in Nat /\ MaxRows \in Nat \ {0}
    BY StepsAre, CatalogAssumption
  <1>2. /\ inventory \in Inventories /\ up = {} /\ run = NoRun /\ last = NoLast /\ passes = 0
        /\ faults = 0 /\ live = rows /\ rows = [e \in Entries |-> 0] /\ touched = {}
        /\ want = [e \in Entries |-> IF e \in inventory THEN "present" ELSE "gone"]
    BY DEF Init
  <1>3. NoRun \in RunSet /\ NoRun.step = 0 /\ \A e \in Entries : NoRun.want[e] = "present"
    BY <1>1 DEF NoRun, RunSet, States
  <1>4. NoLast = [exit |-> "none", only |-> {}, want |-> NoRun.want] /\ NoRun.want \in [Entries -> States]
    BY DEF NoLast, NoRun, States
  <1>5. TypeOK
    <2>1. want \in [Entries -> States]
      BY <1>2 DEF States
    <2>2. rows \in [Entries -> 0 .. MaxRows] /\ live \in [Entries -> 0 .. MaxRows]
      BY <1>1, <1>2
    <2> QED BY <1>1, <1>2, <1>3, <1>4, <2>1, <2>2 DEF TypeOK, RunSet
  <1>6. ~Busy
    BY <1>2, <1>3 DEF Busy
  <1>7. Placed
    BY <1>1, <1>2, <1>3, <1>6 DEF Placed
  <1>8. ServedSoon
    BY <1>2 DEF ServedSoon
  <1> QED BY <1>2, <1>4, <1>5, <1>6, <1>7, <1>8 DEF CatalogInv, DoneSoFar, LastHolds

(* Applies alone, or with audits and administrators beside them.           *)
LEMMA AuditsAside == AuditSpec => Init /\ [][Next \/ Unanswered]_vars
  <1>1. AuditInit => Init
    BY DEF AuditInit
  <1>2. [AuditNext]_<<vars, auditVars>> => [Next \/ Unanswered]_vars
    BY DEF AuditNext, AuditBegin, Search, AuditEnd, Administer, Apply, Unanswered, vars, auditVars
  <1> QED BY <1>1, <1>2, PTL DEF AuditSpec

LEMMA EitherWay == Spec \/ AuditSpec => Init /\ [][Next \/ Unanswered]_vars
  <1>1. [Next]_vars => [Next \/ Unanswered]_vars
    OBVIOUS
  <1>2. Spec => Init /\ [][Next \/ Unanswered]_vars
    BY <1>1, PTL DEF Spec
  <1> QED BY <1>2, AuditsAside

LEMMA OneRowHolds == Init /\ [][Next \/ Unanswered]_vars => []OneRow
  <1>1. Init => OneRow
    BY CatalogAssumption DEF Init, OneRow, Counted, NoDuplicates
  <1>2. OneRow /\ [Next \/ Unanswered]_vars => OneRow'
    <2>1. OneRow /\ Unanswered => OneRow'
      BY DEF Unanswered, OneRow, Counted, NoDuplicates
    <2> QED BY <2>1, StepOneRow
  <1> QED BY <1>1, <1>2, PTL

LEMMA CatalogHolds == Spec \/ AuditSpec => []CatalogInv /\ []OneRow
  <1>1. Init /\ [][Next \/ Unanswered]_vars => []CatalogInv /\ []OneRow
    BY InitCatalog, StepCatalog, OneRowHolds, PTL
  <1> QED BY <1>1, EitherWay

(* However often a catalog is applied, edited, cut off or left unanswered, *)
(* no entry with a match key is ever added twice: only a hand does that.   *)
THEOREM NeverDuplicated == Spec \/ AuditSpec => []NoDuplicates
  <1>1. OneRow => NoDuplicates
    BY DEF OneRow
  <1> QED BY <1>1, CatalogHolds, PTL

(* A dry run writes nothing: no row, no reconfiguration, no service.       *)
THEOREM DryRunNeverWrites == Spec \/ AuditSpec => DryRunWritesNothing
  <1>1. [Next \/ Unanswered]_vars => [Busy /\ run.check /\ run' # run => UNCHANGED <<rows, live, up>>]_vars
    <2> SUFFICES ASSUME Next, Busy, run.check, run' # run PROVE UNCHANGED <<rows, live, up>>
      BY DEF Unanswered
    <2>1. rows' = rows
      <3>1. ASSUME NEW e \in ByHand PROVE ~Meddle(e)
        BY DEF Meddle
      <3> QED BY <3>1, OnlyEnsureWrites, EnsureWrites, PostGeneralWrites
    <2>2. live' = live
      BY ReconfiguresWrite
         DEF Next, Work, Begin, Ensure, PostGeneral, NextSection, ReconfigureUnbound,
             ReconfigureKea, ControlService, Finish, Cut, Edit, Meddle
    <2>3. up' = up
      BY DEF Next, Work, Begin, Ensure, PostGeneral, NextSection, ReconfigureUnbound,
             ReconfigureKea, ControlService, Finish, Cut, Edit, Meddle
    <2> QED BY <2>1, <2>2, <2>3
  <1>2. Init /\ [][Next \/ Unanswered]_vars => DryRunWritesNothing
    BY <1>1, PTL DEF DryRunWritesNothing
  <1> QED BY <1>2, EitherWay

(* Type correctness of the apply, with or without audits beside it.        *)
THEOREM CatalogTyped == Spec \/ AuditSpec => []TypeOK
  <1>1. CatalogInv => TypeOK
    BY DEF CatalogInv
  <1> QED BY <1>1, CatalogHolds, PTL

(* Though a run goes on after an error and each section depends on others, *)
(* one that exits 0 left every entry of its scope as its catalog had it    *)
(* ("any outcome error => 1"), whatever edits, failed calls, cut-off and   *)
(* dry runs came before or since, and whatever hands did before it began.  *)
THEOREM ExitZeroIsApplied == Spec \/ AuditSpec => []ExitZeroMeansApplied
  <1>1. CatalogInv => ExitZeroMeansApplied
    BY DEF CatalogInv, LastHolds, ExitZeroMeansApplied, Succeeded, AsAsked
  <1> QED BY <1>1, CatalogHolds, PTL

(* Kea serves what is saved once a run over it exits 0, also what earlier  *)
(* runs saved and could not activate; Unbound as long as no call failed.   *)
THEOREM SavedGetsServed == Spec \/ AuditSpec => []SavedIsServed
  <1>1. CatalogInv => SavedIsServed
    BY DEF CatalogInv, LastHolds, ServedSoon, SavedIsServed, Succeeded
  <1> QED BY <1>1, CatalogHolds, PTL

(* --only: a run changes no section it was not asked for, and forwarders   *)
(* never as a side effect of a host-override apply.                        *)
THEOREM NeverOutOfScope == Spec \/ AuditSpec => StaysInScope
  <1> DEFINE InScope == \A e \in Entries : rows'[e] # rows[e] /\ run' # run =>
                            /\ Selected(e.section, run.only)
                            /\ e.section = "DNS_FW" => run.only = {} \/ run.only \cap {"dns", "dns-fw"} # {}
  <1>1. CatalogInv /\ [Next \/ Unanswered]_vars => [InScope]_vars
    <2> SUFFICES ASSUME CatalogInv, Next \/ Unanswered, NEW e \in Entries, rows'[e] # rows[e],
                        run' # run
                 PROVE  /\ Selected(e.section, run.only)
                        /\ e.section = "DNS_FW" => run.only = {} \/ run.only \cap {"dns", "dns-fw"} # {}
      OBVIOUS
    <2>1. PICK u \in Entries : Ensure(u) \/ PostGeneral(u)
      <3>1. ~Unanswered /\ \A m \in ByHand : ~Meddle(m)
        BY DEF Unanswered, Meddle
      <3> QED BY <3>1, OnlyEnsureWrites
    <2>2. rows \in [Entries -> 0 .. MaxRows] /\ run \in RunSet
      BY DEF CatalogInv, TypeOK, RunSet
    <2>3. u = e /\ Busy /\ u \in run.left
      BY <2>1, <2>2, EnsureWrites, PostGeneralWrites DEF Ensure, PostGeneral
    <2>4. Selected(Step, run.only) /\ e \in EntriesOf(Step, run.want)
      BY <2>2, <2>3, StepsAre DEF CatalogInv, Placed, RunSet
    <2>5. e.section = Step
      BY <2>4 DEF EntriesOf
    <2>6. GroupsOf("DNS_FW") = {"dns", "dns-fw"}
      BY FilterLists DEF GroupsOf, ForwarderGroups, KeaSections
    <2> QED BY <2>4, <2>5, <2>6 DEF Selected
  <1>2. Init /\ [][Next \/ Unanswered]_vars => []CatalogInv
    BY InitCatalog, StepCatalog, OneRowHolds, PTL
  <1> HIDE DEF InScope
  <1>5. Init /\ [][Next \/ Unanswered]_vars => [][InScope]_vars
    BY <1>1, <1>2, PTL
  <1>6. Spec \/ AuditSpec => [][InScope]_vars
    BY <1>5, EitherWay
  <1> QED BY <1>6, Zenon DEF StaysInScope, InScope

------------------------------------------------------------------------------
(* The audit.                                                              *)
AuditRecord == [next : 0 .. 5, names : SUBSET Entries, orphans : BOOLEAN, unanswered : BOOLEAN]

AuditTyped ==
    /\ audit \in AuditRecord
    /\ verdict \in [exit : {"none", "drift", "clean"}, unanswered : BOOLEAN]
    /\ quiet \in BOOLEAN
    /\ strays \subseteq Strays

(* What an audit nothing changed under has found so far, and what one that *)
(* ended said.                                                             *)
Searched ==
    /\ verdict.exit # "none" => audit.next = 0
    /\ quiet /\ audit.next > 0 =>
        /\ audit.names = NamesOf(want)
        /\ ~audit.unanswered =>
               (audit.orphans <=> \E k \in 1 .. 4 : k < audit.next /\ Orphans(FwSteps[k]) # {})

AuditInv == AuditTyped /\ Searched /\ CleanMeansNamed

(* The four lists are all there is: a row unknown to the catalog is in one *)
(* of them.                                                                *)
LEMMA FourLists ==
    ASSUME audit.names = NamesOf(want), strays \subseteq Strays
    PROVE  (\E k \in 1 .. 4 : Orphans(FwSteps[k]) # {}) <=> Unnamed # {}
  <1>1. \A s : Orphans(s) = {e \in Entries : want[e] = "gone" /\ e.section = s /\ rows[e] > 0}
                            \cup {x \in strays : x.section = s /\ ~Excluded(x)}
    BY DEF Orphans, NamesOf
  <1>2. \A x \in strays : x.section \in Range(FwSteps)
    BY StraysAssumption
  <1>3. \A s \in Range(FwSteps) : \E k \in 1 .. 4 : FwSteps[k] = s
    BY FilterLists
  <1>4. ASSUME NEW k \in 1 .. 4, NEW o \in Orphans(FwSteps[k]) PROVE o \in Unnamed
    <2>1. FwSteps[k] \in Range(FwSteps)
      BY FilterLists
    <2> QED BY <1>1, <1>4, <2>1 DEF Unnamed
  <1>5. ASSUME NEW o \in Unnamed PROVE \E k \in 1 .. 4 : o \in Orphans(FwSteps[k])
    <2>1. o.section \in Range(FwSteps)
      BY <1>2, <1>5 DEF Unnamed
    <2>2. o \in Orphans(o.section)
      BY <1>1, <1>5 DEF Unnamed
    <2> QED BY <1>3, <2>1, <2>2
  <1> QED BY <1>4, <1>5

LEMMA SearchKeeps == AuditInv /\ Search => AuditInv'
  <1> SUFFICES ASSUME AuditInv, Search PROVE AuditInv'
    OBVIOUS
  <1>1. AuditTyped /\ Searched
    BY DEF AuditInv
  <1>2. /\ audit.next \in 1 .. 4
        /\ UNCHANGED <<inventory, touched, want, rows, live, up, run, last, passes, strays, verdict, quiet>>
        /\ \/ audit' = [audit EXCEPT !.next = @ + 1,
                                     !.orphans = @ \/ Orphans(FwSteps[audit.next]) # {}]
           \/ audit' = [audit EXCEPT !.next = @ + 1, !.unanswered = TRUE]
    BY DEF Search
  <1>3. /\ audit' \in AuditRecord
        /\ audit'.next = audit.next + 1 /\ audit'.names = audit.names
        /\ ~audit'.unanswered => /\ ~audit.unanswered
                                 /\ audit'.orphans <=> audit.orphans \/ Orphans(FwSteps[audit.next]) # {}
    <2> DEFINE b == Orphans(FwSteps[audit.next]) # {}
               mid == [audit EXCEPT !.next = @ + 1]
    <2>1. audit \in AuditRecord /\ audit.next \in 1 .. 4
      BY <1>1, <1>2 DEF AuditTyped, AuditRecord
    <2>2. /\ mid \in AuditRecord /\ mid.next = audit.next + 1 /\ mid.names = audit.names
          /\ mid.orphans = audit.orphans /\ mid.unanswered = audit.unanswered
      BY <2>1 DEF AuditRecord
    <2>3. CASE audit' = [audit EXCEPT !.next = @ + 1, !.orphans = @ \/ b]
      <3> DEFINE c == mid.orphans \/ b
      <3>1. c \in BOOLEAN
        OBVIOUS
      <3>2. audit' = [mid EXCEPT !.orphans = c]
        BY <2>2, <2>3
      <3> HIDE DEF c, mid
      <3>3. /\ audit' \in AuditRecord /\ audit'.next = mid.next /\ audit'.names = mid.names
            /\ audit'.unanswered = mid.unanswered /\ audit'.orphans = c
        BY <2>2, <3>1, <3>2 DEF AuditRecord
      <3> QED BY <2>2, <3>3, Zenon DEF c
    <2>4. CASE audit' = [audit EXCEPT !.next = @ + 1, !.unanswered = TRUE]
      <3>1. audit' = [mid EXCEPT !.unanswered = TRUE]
        BY <2>4
      <3> HIDE DEF mid
      <3>2. /\ audit' \in AuditRecord /\ audit'.next = mid.next /\ audit'.names = mid.names
            /\ audit'.unanswered = TRUE
        BY <2>2, <3>1 DEF AuditRecord
      <3> QED BY <2>2, <3>2
    <2> QED BY <1>2, <2>3, <2>4
  <1>4. AuditTyped'
    BY <1>1, <1>2, <1>3 DEF AuditTyped
  <1>5. verdict.exit = "none"
    BY <1>1, <1>2 DEF Searched
  <1>6. \A s : Orphans(s)' = Orphans(s)
    BY <1>2, <1>3 DEF Orphans
  <1>7. Searched'
    <2> SUFFICES ASSUME quiet PROVE
            /\ audit'.names = NamesOf(want)
            /\ ~audit'.unanswered =>
               (audit'.orphans <=> \E k \in 1 .. 4 : k < audit'.next /\ Orphans(FwSteps[k]) # {})
      BY <1>2, <1>5, <1>6 DEF Searched, NamesOf
    <2>1. /\ audit.names = NamesOf(want)
          /\ ~audit.unanswered =>
               (audit.orphans <=> \E k \in 1 .. 4 : k < audit.next /\ Orphans(FwSteps[k]) # {})
      BY <1>1, <1>2 DEF Searched
    <2>2. \A k \in 1 .. 4 : k < audit'.next <=> k < audit.next \/ k = audit.next
      BY <1>2, <1>3
    <2> QED BY <1>2, <1>3, <2>1, <2>2
  <1>8. CleanMeansNamed'
    BY <1>2, <1>5 DEF CleanMeansNamed
  <1> QED BY <1>4, <1>7, <1>8 DEF AuditInv

LEMMA AuditEndKeeps == AuditInv /\ AuditEnd => AuditInv'
  <1> SUFFICES ASSUME AuditInv, AuditEnd PROVE AuditInv'
    OBVIOUS
  <1>1. AuditTyped /\ Searched
    BY DEF AuditInv
  <1>2. /\ audit.next = 5 /\ audit' = NoAudit /\ UNCHANGED <<strays, quiet, want, rows>>
        /\ verdict' = [exit |-> IF audit.orphans THEN "drift" ELSE "clean",
                       unanswered |-> audit.unanswered]
    BY DEF AuditEnd, vars
  <1>3. AuditTyped'
    BY <1>1, <1>2 DEF AuditTyped, AuditRecord, NoAudit
  <1>4. Searched'
    BY <1>2 DEF Searched, NoAudit
  <1>5. CleanMeansNamed'
    <2> SUFFICES ASSUME ~audit.unanswered, quiet PROVE ~audit.orphans <=> Unnamed = {}
      <3>1. Unnamed' = Unnamed
        BY <1>2 DEF Unnamed
      <3>2. /\ verdict'.unanswered = audit.unanswered
            /\ verdict'.exit = "clean" <=> ~audit.orphans
        BY <1>1, <1>2 DEF AuditTyped
      <3> QED BY <1>2, <3>1, <3>2 DEF CleanMeansNamed
    <2>1. audit.names = NamesOf(want)
          /\ (audit.orphans <=> \E k \in 1 .. 4 : Orphans(FwSteps[k]) # {})
      BY <1>1, <1>2 DEF Searched
    <2> QED BY <1>1, <2>1, FourLists DEF AuditTyped
  <1> QED BY <1>3, <1>4, <1>5 DEF AuditInv

LEMMA StepAudit == AuditInv /\ [AuditNext]_<<vars, auditVars>> => AuditInv'
  <1> SUFFICES ASSUME AuditInv, [AuditNext]_<<vars, auditVars>> PROVE AuditInv'
    OBVIOUS
  <1>1. AuditTyped /\ Searched /\ CleanMeansNamed
    BY DEF AuditInv
  <1>2. CASE AuditBegin
    <2>1. /\ audit' = [next |-> 1, names |-> NamesOf(want), orphans |-> FALSE, unanswered |-> FALSE]
          /\ verdict'.exit = "none" /\ verdict' = NoVerdict /\ quiet' = TRUE
          /\ UNCHANGED <<want, rows, strays>>
      BY <1>2 DEF AuditBegin, NoAudit, NoVerdict, vars
    <2>2. NamesOf(want) \subseteq Entries /\ NamesOf(want)' = NamesOf(want)
      BY <2>1 DEF NamesOf
    <2>3. AuditTyped'
      BY <1>1, <2>1, <2>2 DEF AuditTyped, AuditRecord, NoVerdict
    <2>4. Searched'
      BY <2>1, <2>2 DEF Searched
    <2> QED BY <2>1, <2>3, <2>4 DEF AuditInv, CleanMeansNamed
  <1>3. CASE Search
    BY <1>3, SearchKeeps
  <1>4. CASE AuditEnd
    BY <1>4, AuditEndKeeps
  <1>5. ASSUME NEW s \in Strays, Administer(s) PROVE AuditInv'
    BY <1>1, <1>5 DEF Administer, AuditInv, AuditTyped, Searched, CleanMeansNamed
  <1>6. CASE Apply \/ UNCHANGED <<vars, auditVars>>
    <2>1. /\ UNCHANGED <<strays, audit, verdict>> /\ quiet' \in BOOLEAN
          /\ quiet' => quiet /\ UNCHANGED <<want, rows>>
      <3>1. CASE Apply
        <4>1. quiet' = (quiet /\ UNCHANGED <<inventory, want, rows>>)
          BY <3>1 DEF Apply
        <4>2. quiet' \in BOOLEAN /\ (quiet' => quiet /\ UNCHANGED <<want, rows>>)
          BY <4>1, Zenon
        <4> QED BY <3>1, <4>2 DEF Apply
      <3>2. CASE UNCHANGED <<vars, auditVars>>
        BY <1>1, <3>2 DEF AuditTyped, vars, auditVars
      <3> QED BY <1>6, <3>1, <3>2
    <2>2. AuditTyped'
      BY <1>1, <2>1 DEF AuditTyped
    <2>3. CASE ~quiet'
      BY <1>1, <2>1, <2>2, <2>3 DEF AuditInv, Searched, CleanMeansNamed
    <2>4. CASE quiet'
      <3>1. (\A s : Orphans(s)' = Orphans(s)) /\ Unnamed' = Unnamed /\ NamesOf(want)' = NamesOf(want)
        BY <2>1, <2>4 DEF Orphans, Unnamed, NamesOf
      <3>2. Searched'
        BY <1>1, <2>1, <2>4, <3>1 DEF Searched
      <3>3. CleanMeansNamed'
        BY <1>1, <2>1, <2>4, <3>1 DEF CleanMeansNamed
      <3> QED BY <2>2, <3>2, <3>3 DEF AuditInv
    <2> QED BY <2>3, <2>4
  <1> QED BY <1>2, <1>3, <1>4, <1>5, <1>6 DEF AuditNext

LEMMA AuditHolds == AuditSpec => []AuditInv
  <1>1. AuditInit => AuditInv
    <2> SUFFICES ASSUME AuditInit PROVE AuditInv
      OBVIOUS
    <2>1. /\ strays = {} /\ quiet = FALSE /\ audit.next = 0 /\ verdict.exit = "none"
          /\ audit = NoAudit /\ verdict = NoVerdict
      BY DEF AuditInit, NoAudit, NoVerdict
    <2>2. AuditTyped
      <3>1. audit \in AuditRecord
        BY <2>1 DEF NoAudit, AuditRecord
      <3>2. verdict \in [exit : {"none", "drift", "clean"}, unanswered : BOOLEAN]
        BY <2>1 DEF NoVerdict
      <3> QED BY <2>1, <3>1, <3>2 DEF AuditTyped
    <2> QED BY <2>1, <2>2 DEF AuditInv, Searched, CleanMeansNamed
  <1> QED BY <1>1, StepAudit, PTL DEF AuditSpec

(* An audit whose searches were all answered, and which nothing changed    *)
(* under, exits 0 exactly when the catalog names every row it must.        *)
THEOREM CleanIsNamed == AuditSpec => []CleanMeansNamed
  <1>1. AuditInv => CleanMeansNamed
    BY DEF AuditInv
  <1> QED BY <1>1, AuditHolds, PTL

(* What both directions together prove: an apply of the filter that exited *)
(* 0 and a clean audit leave each present entry once, each absent one not  *)
(* at all, and only excluded rows beside, but for the entries whose rows   *)
(* hands removed since the apply began, or doubled.                        *)
THEOREM BothAreEqual == ASSUME FilterKeyed PROVE AuditSpec => []BothMeanEqual
  <1>1. CatalogInv /\ ExitZeroMeansApplied /\ OneRow /\ CleanMeansNamed => BothMeanEqual
    <2> SUFFICES ASSUME CatalogInv, ExitZeroMeansApplied, OneRow, CleanMeansNamed,
                        Succeeded("ALIAS"), last.want = want,
                        verdict.exit = "clean", ~verdict.unanswered, quiet
                 PROVE  /\ \A e \in Entries :
                               e.section \in Range(FwSteps) /\ (e \in touched => want[e] = "gone") =>
                               rows[e] = IF want[e] = "present" THEN 1 ELSE 0
                        /\ \A x \in strays : Excluded(x)
      BY DEF BothMeanEqual
    <2>1. Unnamed = {}
      BY DEF CleanMeansNamed
    <2>2. \A s \in Range(FwSteps) : Succeeded(s)
      <3>1. \A s \in Range(FwSteps) : GroupsOf(s) = {"fw"} /\ BlockEnabled(s)
        <4>1. ASSUME NEW s \in {"ALIAS", "RULE", "SNAT", "DNAT"} PROVE GroupsOf(s) = {"fw"}
          BY <4>1, FilterLists DEF GroupsOf, KeaSections
        <4>2. ASSUME NEW s \in {"ALIAS", "RULE", "SNAT", "DNAT"} PROVE BlockEnabled(s)
          BY <4>2, FilterLists DEF BlockEnabled
        <4> QED BY <4>1, <4>2, FilterLists
      <3>2. "ALIAS" \in Range(FwSteps)
        BY FilterLists
      <3> QED BY <3>1, <3>2 DEF Succeeded, Selected
    <2>3. ASSUME NEW e \in Entries, e.section \in Range(FwSteps),
                 e \in touched => want[e] = "gone"
          PROVE  rows[e] = IF want[e] = "present" THEN 1 ELSE 0
      <3>1. rows[e] \in 0 .. MaxRows /\ want[e] \in States /\ e.keyed /\ MaxRows \in Nat
            /\ (e \notin touched => rows[e] <= 1)
        BY <2>3, CatalogAssumption DEF CatalogInv, TypeOK, OneRow, NoDuplicates, FilterKeyed
      <3>2. /\ e \notin touched /\ want[e] = "present" => rows[e] > 0
            /\ e \notin touched /\ want[e] = "absent" => rows[e] = 0
        BY <2>2, <2>3, <3>1 DEF ExitZeroMeansApplied
      <3>3. want[e] = "gone" => ~(rows[e] > 0)
        BY <2>1, <2>3 DEF Unnamed
      <3>4. CASE want[e] = "gone"
        BY <3>1, <3>3, <3>4
      <3>5. CASE want[e] = "present" /\ e \notin touched
        <4>1. rows[e] <= 1 /\ rows[e] > 0
          BY <3>1, <3>2, <3>5
        <4> QED BY <3>1, <3>5, <4>1
      <3>6. CASE want[e] = "absent" /\ e \notin touched
        BY <3>2, <3>6
      <3> QED BY <2>3, <3>1, <3>4, <3>5, <3>6 DEF States
    <2>4. \A x \in strays : Excluded(x)
      BY <2>1 DEF Unnamed
    <2> QED BY <2>3, <2>4
  <1> QED BY <1>1, ExitZeroIsApplied, CatalogHolds, CleanIsNamed, PTL

------------------------------------------------------------------------------
(* Repeated applies.  A catalog that any edit leaves is consistent: what   *)
(* is present uses nothing that is not, and only its own entries retire.   *)
Consistent(catalog) ==
    /\ \A u \in Entries : catalog[u] = "present" => \A a \in u.uses : catalog[a] = "present"
    /\ \A e \in Entries \ inventory : catalog[e] # "absent"

Writing == Busy /\ ~run.check
Full == Writing /\ Unhindered
NothingRetired(catalog) == \A e \in Entries : catalog[e] # "absent"
NothingDropped(catalog) == \A e \in Entries : catalog[e] = "gone" => rows[e] = 0

(* No rule of those retired is left that uses an alias.                    *)
Cleared(catalog) == \A u \in Entries : catalog[u] = "absent" /\ u.uses # {} => rows[u] = 0

(* What a full run nothing has hindered has done, even if it met errors.   *)
FullSoFar ==
    Full => \A e \in Entries : Selected(e.section, {}) /\ SeenTo(e) =>
                /\ run.want[e] = "present" => rows[e] > 0
                /\ run.want[e] = "absent" /\ e.uses # {} => rows[e] = 0

(* When it can meet none: nothing to retire, or the rules retired gone.    *)
NoErrorYet ==
    /\ Full /\ NothingRetired(run.want) => ~run.error
    /\ Full /\ passes >= 1 /\ run.want = last.want /\ NothingDropped(run.want) => ~run.error

RepeatInv ==
    /\ Consistent(want) /\ Consistent(run.want) /\ Consistent(last.want)
    /\ Busy => run.faults <= faults
    /\ FullSoFar
    /\ NoErrorYet
    /\ passes >= 1 /\ (Writing => run.want = last.want) => Cleared(last.want)
    /\ ~Writing => /\ passes = 2 /\ NothingDropped(last.want) => last.exit = "ok"
                   /\ passes = 1 /\ NothingRetired(last.want) => last.exit = "ok"

(* The entries that use aliases are rules, and aliases come before them.   *)
LEMMA UsersAreRules ==
    ASSUME WellMade, NEW u \in Entries, u.uses # {}
    PROVE  /\ u.keyed /\ u.section \in {"RULE", "SNAT", "DNAT"} /\ Selected(u.section, {})
           /\ Selected("ALIAS", {})
           /\ \A a \in u.uses : a \in Entries /\ a.section = "ALIAS" /\ a.uses = {}
  <1>1. u.keyed /\ u.section \in {"RULE", "SNAT", "DNAT"}
    BY FilterLists DEF WellMade
  <1>2. BlockEnabled(u.section) /\ BlockEnabled("ALIAS")
    BY <1>1, FilterLists DEF BlockEnabled
  <1>3. \A a \in u.uses : a \in Entries /\ a.section = "ALIAS"
    BY CatalogAssumption
  <1>4. \A a \in Entries : a.section = "ALIAS" => a.uses = {}
    BY FilterLists DEF WellMade
  <1> QED BY <1>1, <1>2, <1>3, <1>4 DEF Selected

(* In a full run that nothing hinders no present entry is refused: the     *)
(* aliases it uses are present too, and were seen to before it.            *)
LEMMA PresentIsTaken ==
    ASSUME WellMade, CatalogInv, RepeatInv, Full, NEW e \in run.left, run.want[e] = "present"
    PROVE  ~Refused(e)
  <1>1. run.step \in DOMAIN Steps /\ e \in Entries /\ e.section = Step
    BY StepsAre DEF CatalogInv, TypeOK, Placed, Full, Writing, Busy, EntriesOf
  <1>2. ASSUME NEW a \in e.uses PROVE rows[a] > 0
    <2>1. /\ e.section \in {"RULE", "SNAT", "DNAT"} /\ Selected("ALIAS", {})
          /\ a \in Entries /\ a.section = "ALIAS" /\ run.want[a] = "present"
      BY <1>1, <1>2, UsersAreRules DEF RepeatInv, Consistent
    <2>2. run.step > 1
      BY <1>1, <2>1, StepsAre DEF Step
    <2>3. \A i \in DOMAIN Steps : Steps[i] = "ALIAS" => i = 1
      BY StepsAre
    <2>4. SeenTo(a)
      BY <1>1, <2>1, <2>2, <2>3, StepsAre DEF SeenTo, Full, Writing
    <2> QED BY <2>1, <2>4 DEF RepeatInv, FullSoFar
  <1>3. Valid(e)
    BY <1>1, <1>2 DEF Valid, WellMade
  <1> QED BY <1>3 DEF Refused

(* Nothing uses what uses aliases, so it is not refused its retirement.    *)
LEMMA RulesAreDropped ==
    ASSUME WellMade, NEW e \in Entries, e.uses # {}, run.want[e] # "present"
    PROVE  ~Refused(e)
  <1>1. ~InUse(e)
    BY UsersAreRules DEF InUse
  <1> QED BY <1>1 DEF Refused

(* The second run: whatever still uses an alias keeps it in the catalog.   *)
LEMMA SecondIsTaken ==
    ASSUME WellMade, CatalogInv, RepeatInv, Full, passes >= 1, run.want = last.want,
           NothingDropped(run.want), NEW e \in run.left
    PROVE  ~Refused(e)
  <1>1. e \in Entries /\ run.want[e] \in {"present", "absent"}
    BY StepsAre DEF CatalogInv, TypeOK, Placed, Full, Writing, Busy, EntriesOf, States
  <1>2. CASE run.want[e] = "present"
    BY <1>2, PresentIsTaken
  <1>3. CASE run.want[e] = "absent"
    <2>1. ASSUME NEW u \in Entries, rows[u] > 0, e \in u.uses PROVE FALSE
      <3>1. run.want[u] # "present"
        BY <1>3, <2>1 DEF RepeatInv, Consistent
      <3>2. run.want[u] # "absent"
        BY <2>1 DEF RepeatInv, Cleared
      <3>3. run.want[u] # "gone"
        BY <2>1 DEF NothingDropped
      <3>4. run.want[u] \in States
        BY <2>1 DEF CatalogInv, TypeOK
      <3> QED BY <3>1, <3>2, <3>3, <3>4 DEF States
    <2>2. ~InUse(e)
      BY <2>1 DEF InUse
    <2> QED BY <1>3, <2>2 DEF Refused
  <1> QED BY <1>1, <1>2, <1>3

(* What leaves the run alone: an edit, and a call of somebody else's that  *)
(* fails.                                                                  *)
LEMMA StepRests ==
    ASSUME CatalogInv, RepeatInv, UNCHANGED <<inventory, touched, rows, run, last, passes>>,
           faults' \in Nat, faults' >= faults, Consistent(want)'
    PROVE  RepeatInv'
  <1>1. faults \in Nat /\ run.faults \in Nat
    BY CatalogAssumption DEF CatalogInv, TypeOK
  <1>2. /\ Busy' = Busy /\ Writing' = Writing
        /\ \A e \in Entries : SeenTo(e)' <=> SeenTo(e)
    BY DEF Busy, Writing, SeenTo
  <1>3. Full' => Full
    <2>1. Busy => run.faults <= faults
      BY DEF RepeatInv
    <2> QED BY <1>1, <1>2, <2>1 DEF Full, Writing, Unhindered
  <1>4. Consistent(run.want)' /\ Consistent(last.want)'
    BY DEF RepeatInv, Consistent
  <1>5. Busy' => run'.faults <= faults'
    BY <1>1, <1>2 DEF RepeatInv
  <1>6. FullSoFar'
    BY <1>2, <1>3, SameScope DEF RepeatInv, FullSoFar
  <1>7. NoErrorYet'
    BY <1>3 DEF RepeatInv, NoErrorYet, NothingRetired, NothingDropped
  <1>8. passes' >= 1 /\ (Writing' => run'.want = last'.want) => Cleared(last.want)'
    BY <1>2 DEF RepeatInv, Cleared
  <1>9. ~Writing' => /\ passes' = 2 /\ NothingDropped(last.want)' => last'.exit = "ok"
                     /\ passes' = 1 /\ NothingRetired(last.want)' => last'.exit = "ok"
    BY <1>2 DEF RepeatInv, NothingRetired, NothingDropped
  <1> QED BY <1>4, <1>5, <1>6, <1>7, <1>8, <1>9 DEF RepeatInv

(* A run that goes on: unhindered, it has seen to nothing more.            *)
LEMMA OnwardRepeats ==
    ASSUME CatalogInv, RepeatInv, Busy, run.step < End, run.left = {},
           NEW r \in {run, Failed}, run' = Onward(r, run.step),
           UNCHANGED <<inventory, touched, want, rows, last, passes>>,
           faults' \in Nat, (r = run /\ faults' = faults) \/ faults' > faults
    PROVE  RepeatInv'
  <1>1. run \in RunSet /\ faults \in Nat /\ run.faults \in Nat
    BY CatalogAssumption DEF CatalogInv, TypeOK, RunSet
  <1>2. /\ r \in RunSet /\ r.only = run.only /\ r.check = run.check /\ r.want = run.want
        /\ r.faults = run.faults
    BY <1>1 DEF Failed, RunSet
  <1>3. DOMAIN Steps = 1 .. 22 /\ Len(Steps) = 22 /\ End = 23
    BY StepsAre
  <1>4. run.step \in DOMAIN Steps /\ run.step \in 0 .. Len(Steps)
    BY <1>1, <1>3 DEF Busy, RunSet
  <1>5. /\ run' \in RunSet /\ Busy' /\ run'.only = run.only /\ run'.check = run.check
        /\ run'.want = run.want /\ run'.error = r.error /\ run'.faults = run.faults
        /\ \A e \in Entries :
              Selected(e.section, run.only) /\ run.want[e] # "gone" /\ SeenTo(e)' =>
                 \A j \in DOMAIN Steps : Steps[j] = e.section => j <= run.step
    BY <1>2, <1>4, GoesTo
  <1>6. Writing' <=> Writing
    BY <1>5 DEF Writing
  <1>7. Full' => Full /\ r = run
    <2>1. run.faults <= faults
      BY DEF RepeatInv
    <2> QED BY <1>1, <1>5, <1>6, <2>1 DEF Full, Unhindered
  <1>8. Consistent(want)' /\ Consistent(run.want)' /\ Consistent(last.want)'
    BY <1>5 DEF RepeatInv, Consistent
  <1>9. run'.faults <= faults'
    BY <1>1, <1>5 DEF RepeatInv
  <1>10. FullSoFar'
    <2> SUFFICES ASSUME Full', NEW e \in Entries, Selected(e.section, {})', SeenTo(e)',
                        run.want[e] # "gone"
                 PROVE  /\ run.want[e] = "present" => rows[e] > 0
                        /\ run.want[e] = "absent" /\ e.uses # {} => rows[e] = 0
      BY <1>5 DEF FullSoFar
    <2>1. Full /\ run.only = {} /\ Selected(e.section, {})
      BY <1>7, SameScope DEF Full, Unhindered
    <2>2. SeenTo(e)
      BY <1>3, <1>4, <1>5, <2>1 DEF SeenTo
    <2> QED BY <2>1, <2>2 DEF RepeatInv, FullSoFar
  <1>11. NoErrorYet'
    BY <1>5, <1>7 DEF RepeatInv, NoErrorYet, NothingRetired, NothingDropped
  <1>12. passes' >= 1 /\ (Writing' => run'.want = last'.want) => Cleared(last.want)'
    BY <1>5, <1>6 DEF RepeatInv, Cleared
  <1>13. ~Writing' => /\ passes' = 2 /\ NothingDropped(last.want)' => last'.exit = "ok"
                      /\ passes' = 1 /\ NothingRetired(last.want)' => last'.exit = "ok"
    BY <1>6 DEF RepeatInv, NothingRetired, NothingDropped
  <1> QED BY <1>8, <1>9, <1>10, <1>11, <1>12, <1>13 DEF RepeatInv

LEMMA GoingOnRepeats ==
    CatalogInv /\ RepeatInv /\ (NextSection \/ ReconfigureUnbound \/ ReconfigureKea \/ ControlService)
    => RepeatInv'
  <1> SUFFICES ASSUME CatalogInv, RepeatInv,
                      NextSection \/ ReconfigureUnbound \/ ReconfigureKea \/ ControlService
               PROVE  RepeatInv'
    OBVIOUS
  <1>1. faults \in Nat
    BY CatalogAssumption DEF CatalogInv, TypeOK
  <1>2. /\ Busy /\ run.step < End /\ UNCHANGED <<inventory, touched, want, rows, last, passes>>
        /\ run.left = {} \/ Step \in Special
        /\ \/ run' = Onward(run, run.step) /\ faults' = faults
           \/ run' = Onward(Failed, run.step) /\ faults' = faults + 1
    <2>1. CASE NextSection
      BY <2>1 DEF NextSection
    <2>2. CASE ReconfigureUnbound
      BY <2>2 DEF ReconfigureUnbound, Post, Special, Reconfigures
    <2>3. CASE ReconfigureKea
      BY <2>3 DEF ReconfigureKea, Post, Special, Reconfigures
    <2>4. CASE ControlService
      BY <2>4 DEF ControlService, Special
    <2> QED BY <2>1, <2>2, <2>3, <2>4
  <1>3. run.left = {}
    BY <1>2, NothingLeft
  <1>4. CASE run' = Onward(run, run.step) /\ faults' = faults
    BY <1>1, <1>2, <1>3, <1>4, OnwardRepeats
  <1>5. CASE run' = Onward(Failed, run.step) /\ faults' = faults + 1
    <2>1. faults' \in Nat /\ faults' > faults
      BY <1>1, <1>5
    <2> QED BY <1>2, <1>3, <1>5, <2>1, OnwardRepeats
  <1> QED BY <1>2, <1>4, <1>5

(* An entry is applied, and an error without a fault is a refusal.         *)
LEMMA AppliedRepeats ==
    ASSUME WellMade, CatalogInv, RepeatInv, Busy, NEW e \in run.left,
           NEW changed \in BOOLEAN, NEW failed \in BOOLEAN, run' = Applied(e, changed, failed),
           NEW n \in 0 .. MaxRows, run.want[e] = "absent" => n <= rows[e],
           rows' = rows \/ (~run.check /\ rows' = [rows EXCEPT ![e] = n]),
           UNCHANGED <<inventory, touched, want, last, passes>>, faults' \in Nat,
           \/ faults' > faults
           \/ /\ faults' = faults
              /\ failed => Refused(e) /\ rows' = rows
              /\ ~failed /\ ~run.check => AsAsked(e, run.want)'
    PROVE  RepeatInv'
  <1>1. /\ run \in RunSet /\ faults \in Nat /\ run.faults \in Nat
        /\ rows \in [Entries -> 0 .. MaxRows] /\ run.want \in [Entries -> States]
    BY CatalogAssumption DEF CatalogInv, TypeOK, RunSet
  <1>2. e \in Entries /\ run.want[e] \in {"present", "absent"}
    BY <1>1, StepsAre DEF CatalogInv, TypeOK, Placed, Busy, EntriesOf, States
  <1>3. /\ run'.step = run.step /\ run'.only = run.only /\ run'.check = run.check
        /\ run'.want = run.want /\ run'.left = run.left \ {e} /\ run'.faults = run.faults
        /\ run'.error = (run.error \/ failed)
    BY <1>1 DEF Applied, RunSet
  <1>4. Busy' /\ (Writing' <=> Writing)
    BY <1>3 DEF Busy, Writing
  <1>5. \A u \in Entries : u # e => rows'[u] = rows[u]
    BY <1>1
  <1>6. run.want[e] = "absent" /\ rows[e] = 0 => rows'[e] = 0
    BY <1>1, <1>2
  <1>7. ~Writing => rows' = rows
    BY DEF Writing
  <1>8. ASSUME Full'
        PROVE  /\ Full
               /\ failed => Refused(e) /\ rows' = rows
               /\ ~failed => AsAsked(e, run.want)'
    <2>1. run.faults <= faults
      BY DEF RepeatInv
    <2>2. faults' = faults /\ Full
      BY <1>1, <1>3, <1>4, <1>8, <2>1 DEF Full, Unhindered
    <2> QED BY <1>1, <2>2 DEF Full, Writing
  <1>9. Consistent(want)' /\ Consistent(run.want)' /\ Consistent(last.want)'
    BY <1>3 DEF RepeatInv, Consistent
  <1>10. run'.faults <= faults'
    BY <1>1, <1>3 DEF RepeatInv
  <1>11. FullSoFar'
    <2> SUFFICES ASSUME Full', NEW u \in Entries, Selected(u.section, {})', SeenTo(u)'
                 PROVE  /\ run.want[u] = "present" => rows'[u] > 0
                        /\ run.want[u] = "absent" /\ u.uses # {} => rows'[u] = 0
      BY <1>3 DEF FullSoFar
    <2>1. Full /\ Selected(u.section, {})
      BY <1>8, SameScope
    <2>2. CASE u # e
      <3>1. SeenTo(u)
        BY <1>3, <2>2 DEF SeenTo, Busy
      <3> QED BY <1>5, <2>1, <2>2, <3>1 DEF RepeatInv, FullSoFar
    <2>3. CASE u = e /\ failed
      BY <1>2, <1>8, <2>1, <2>3, PresentIsTaken, RulesAreDropped
    <2>4. CASE u = e /\ ~failed
      <3>1. e \notin touched'
        BY <2>1 DEF Full, Unhindered
      <3> QED BY <1>3, <1>8, <2>4, <3>1, UsersAreRules DEF AsAsked
    <2> QED BY <2>2, <2>3, <2>4
  <1>12. NothingDropped(run.want)' => NothingDropped(run.want)
    <2> SUFFICES ASSUME NothingDropped(run.want)', NEW u \in Entries, run.want[u] = "gone"
                 PROVE  rows[u] = 0
      BY DEF NothingDropped
    <2> QED BY <1>2, <1>3, <1>5 DEF NothingDropped
  <1>13. NoErrorYet'
    <2>1. ASSUME Full', NothingRetired(run.want)' PROVE ~run'.error
      <3>1. NothingRetired(run.want)
        BY <1>3, <2>1 DEF NothingRetired
      <3>2. Full /\ ~run.error
        BY <1>8, <2>1, <3>1 DEF RepeatInv, NoErrorYet
      <3>3. run.want[e] = "present"
        BY <1>2, <3>1 DEF NothingRetired
      <3>4. ~failed
        BY <1>8, <2>1, <3>2, <3>3, PresentIsTaken
      <3> QED BY <1>3, <3>2, <3>4
    <2>2. ASSUME Full', passes' >= 1, run'.want = last'.want, NothingDropped(run.want)'
          PROVE  ~run'.error
      <3>1. Full /\ passes >= 1 /\ run.want = last.want /\ NothingDropped(run.want)
        BY <1>3, <1>8, <1>12, <2>2
      <3>2. ~run.error
        BY <3>1 DEF RepeatInv, NoErrorYet
      <3>3. ~Refused(e)
        BY <3>1, SecondIsTaken
      <3>4. ~failed
        BY <1>8, <2>2, <3>3
      <3> QED BY <1>3, <3>2, <3>4
    <2> QED BY <2>1, <2>2 DEF NoErrorYet
  <1>14. passes' >= 1 /\ (Writing' => run'.want = last'.want) => Cleared(last.want)'
    <2> SUFFICES ASSUME passes >= 1, Writing => run.want = last.want,
                        NEW u \in Entries, last.want[u] = "absent", u.uses # {}
                 PROVE  rows'[u] = 0
      BY <1>3, <1>4 DEF Cleared
    <2>1. rows[u] = 0
      BY DEF RepeatInv, Cleared
    <2> QED BY <1>5, <1>6, <1>7, <2>1
  <1>15. ~Writing' => /\ passes' = 2 /\ NothingDropped(last.want)' => last'.exit = "ok"
                      /\ passes' = 1 /\ NothingRetired(last.want)' => last'.exit = "ok"
    BY <1>4, <1>7 DEF RepeatInv, NothingRetired, NothingDropped
  <1> QED BY <1>4, <1>9, <1>10, <1>11, <1>13, <1>14, <1>15 DEF RepeatInv

LEMMA EnsureRepeats ==
    ASSUME WellMade, OneRow, CatalogInv, RepeatInv, NEW e \in Entries, Ensure(e) PROVE RepeatInv'
  <1>1. /\ rows \in [Entries -> 0 .. MaxRows] /\ faults \in Nat /\ run \in RunSet
        /\ MaxRows \in Nat \ {0} /\ 0 \in 0 .. MaxRows
    BY CatalogAssumption DEF CatalogInv, TypeOK, RunSet
  <1>2. Busy /\ e \in run.left /\ UNCHANGED <<inventory, touched, want, last, passes>>
    BY DEF Ensure
  <1>3. Counted /\ Changes(e) \in BOOLEAN
    BY <1>1 DEF Counted, Changes, Found
  <1>4. Changes(e) => Written(e) \in 0 .. MaxRows
    BY <1>3, WrittenOnce
  <1>5. run.want[e] = "absent" => Written(e) <= rows[e] /\ rows[e] <= rows[e]
    BY <1>1 DEF Written
  <1>6. 0 <= rows[e]
    BY <1>1
  <1>7. CASE /\ ~Refused(e)
             /\ IF Changes(e) /\ ~run.check THEN Save(e, Written(e)) ELSE UNCHANGED rows
             /\ run' = Applied(e, Changes(e), FALSE)
             /\ UNCHANGED faults
    <2>1. ~run.check => AsAsked(e, run.want)'
      BY <1>2, <1>7, EnsureAsks
    <2>2. CASE Changes(e) /\ ~run.check
      <3>1. rows' = [rows EXCEPT ![e] = Written(e)]
        BY <1>7, <2>2 DEF Save
      <3> QED BY <1>1, <1>2, <1>3, <1>4, <1>5, <1>7, <2>1, <2>2, <3>1, AppliedRepeats
    <2>3. CASE ~(Changes(e) /\ ~run.check)
      <3>1. rows' = rows
        BY <1>7, <2>3
      <3> QED BY <1>1, <1>2, <1>3, <1>7, <1>6, <2>1, <3>1, AppliedRepeats
    <2> QED BY <2>2, <2>3
  <1>8. CASE Refused(e) /\ run' = Applied(e, FALSE, TRUE) /\ UNCHANGED <<rows, faults>>
    BY <1>1, <1>2, <1>8, <1>6, AppliedRepeats
  <1>9. CASE /\ faults < MaxFaults /\ faults' = faults + 1
             /\ rows' \in {rows, IF Changes(e) /\ ~Refused(e) /\ ~run.check
                                   THEN [rows EXCEPT ![e] = Written(e)] ELSE rows}
             /\ run' = Applied(e, FALSE, TRUE)
    <2>1. faults' \in Nat /\ faults' > faults
      BY <1>1, <1>9
    <2>2. CASE rows' = rows
      BY <1>1, <1>2, <1>9, <1>6, <2>1, <2>2, AppliedRepeats
    <2>3. CASE Changes(e) /\ ~run.check /\ rows' = [rows EXCEPT ![e] = Written(e)]
      BY <1>2, <1>4, <1>5, <1>9, <2>1, <2>3, AppliedRepeats
    <2> QED BY <1>9, <2>2, <2>3
  <1> QED BY <1>7, <1>8, <1>9 DEF Ensure

LEMMA PostGeneralRepeats ==
    ASSUME WellMade, CatalogInv, RepeatInv, NEW e \in Entries, PostGeneral(e) PROVE RepeatInv'
  <1>1. /\ rows \in [Entries -> 0 .. MaxRows] /\ faults \in Nat /\ run \in RunSet
        /\ MaxRows \in Nat \ {0} /\ 1 \in 0 .. MaxRows
    BY CatalogAssumption DEF CatalogInv, TypeOK, RunSet
  <1>2. Busy /\ e \in run.left /\ Step \in Settings /\ UNCHANGED <<inventory, touched, want, last, passes>>
    BY DEF PostGeneral
  <1>3. run.want[e] # "absent"
    BY <1>2, SettingsStay
  <1>4. CASE /\ IF run.check THEN UNCHANGED rows ELSE Save(e, 1)
             /\ run' = Applied(e, FALSE, FALSE)
             /\ UNCHANGED faults
    <2>1. rows' = rows \/ (~run.check /\ rows' = [rows EXCEPT ![e] = 1])
      BY <1>4 DEF Save
    <2>2. ~run.check => AsAsked(e, run.want)'
      <3>1. run'.want = run.want
        BY <1>1, <1>4 DEF Applied, RunSet
      <3>2. ~run.check => rows'[e] = 1
        BY <1>1, <1>4 DEF Save
      <3> QED BY <1>3, <3>1, <3>2 DEF AsAsked
    <2> QED BY <1>1, <1>2, <1>3, <1>4, <2>1, <2>2, AppliedRepeats
  <1>5. CASE /\ ~run.check
             /\ faults < MaxFaults /\ faults' = faults + 1
             /\ rows' \in {rows, [rows EXCEPT ![e] = 1]}
             /\ run' = Applied(e, FALSE, TRUE)
    <2>1. rows' = rows \/ (~run.check /\ rows' = [rows EXCEPT ![e] = 1])
      BY <1>5
    <2>2. faults' \in Nat /\ faults' > faults
      BY <1>1, <1>5
    <2> QED BY <1>1, <1>2, <1>3, <1>5, <2>1, <2>2, AppliedRepeats
  <1> QED BY <1>4, <1>5 DEF PostGeneral

LEMMA BeginRepeats ==
    ASSUME CatalogInv, RepeatInv, NEW only \in Onlys[inventory], NEW check \in BOOLEAN,
           Begin(only, check)
    PROVE  RepeatInv'
  <1>1. /\ ~Busy /\ UNCHANGED <<inventory, want, rows, live, up, last, passes, faults>>
        /\ Busy' /\ run'.want = want /\ run'.error = FALSE /\ run'.faults = faults
        /\ run'.only = only
        /\ \A e \in Entries : Selected(e.section, only) /\ SeenTo(e)' => want[e] = "gone"
    BY BeginsAfresh
  <1>2. faults \in Nat /\ ~Writing
    BY <1>1, CatalogAssumption DEF CatalogInv, TypeOK, Writing
  <1>3. Consistent(want)' /\ Consistent(run.want)' /\ Consistent(last.want)'
    BY <1>1 DEF RepeatInv, Consistent
  <1>4. FullSoFar'
    <2> SUFFICES ASSUME Full', NEW e \in Entries, Selected(e.section, {})', SeenTo(e)'
                 PROVE  want[e] = "gone"
      BY <1>1 DEF FullSoFar
    <2>1. only = {} /\ Selected(e.section, only)
      BY <1>1, SameScope DEF Full, Unhindered
    <2> QED BY <1>1, <2>1
  <1>5. NoErrorYet'
    BY <1>1 DEF NoErrorYet
  <1>6. passes' >= 1 /\ (Writing' => run'.want = last'.want) => Cleared(last.want)'
    BY <1>1, <1>2 DEF RepeatInv, Cleared
  <1>7. ~Writing' => /\ passes' = 2 /\ NothingDropped(last.want)' => last'.exit = "ok"
                     /\ passes' = 1 /\ NothingRetired(last.want)' => last'.exit = "ok"
    BY <1>1, <1>2 DEF RepeatInv, NothingRetired, NothingDropped
  <1>8. run'.faults <= faults'
    BY <1>1, <1>2
  <1> QED BY <1>3, <1>4, <1>5, <1>6, <1>7, <1>8 DEF RepeatInv

LEMMA FinishRepeats == ASSUME WellMade, CatalogInv, RepeatInv, Finish PROVE RepeatInv'
  <1>1. /\ run.step = End /\ run' = NoRun /\ UNCHANGED <<inventory, touched, want, rows, live, up, faults>>
        /\ IF run.check THEN UNCHANGED <<last, passes>>
           ELSE /\ last' = [exit |-> IF run.error THEN "error" ELSE "ok",
                            only |-> run.only, want |-> run.want]
                /\ passes' = IF ~Unhindered THEN 0
                             ELSE IF passes = 0 \/ run.want # last.want THEN 1 ELSE 2
    BY DEF Finish
  <1>2. DOMAIN Steps = 1 .. 22 /\ End = 23 /\ passes \in 0 .. 2
    BY StepsAre DEF CatalogInv, TypeOK
  <1>3. NoRun.step = 0 /\ \A e \in Entries : NoRun.want[e] = "present"
    BY DEF NoRun
  <1>4. Busy /\ ~Busy' /\ ~Writing' /\ ~Full'
    BY <1>1, <1>2, <1>3 DEF Busy, Writing, Full
  <1>5. \A e \in Entries : SeenTo(e)
    BY <1>1, <1>2, <1>4 DEF SeenTo
  <1>6. Consistent(want)' /\ Consistent(run.want)'
    BY <1>1, <1>3, CatalogAssumption DEF RepeatInv, Consistent
  <1>7. FullSoFar' /\ NoErrorYet'
    BY <1>4 DEF FullSoFar, NoErrorYet
  <1>8. CASE run.check
    <2>1. last' = last /\ passes' = passes /\ rows' = rows /\ inventory' = inventory /\ ~Writing
      BY <1>1, <1>8 DEF Writing
    <2>2. Consistent(last.want)'
      BY <2>1 DEF RepeatInv, Consistent
    <2>3. passes' >= 1 => Cleared(last.want)'
      BY <2>1 DEF RepeatInv, Cleared
    <2>4. /\ passes' = 2 /\ NothingDropped(last.want)' => last'.exit = "ok"
          /\ passes' = 1 /\ NothingRetired(last.want)' => last'.exit = "ok"
      BY <2>1 DEF RepeatInv, NothingRetired, NothingDropped
    <2> QED BY <1>4, <1>6, <1>7, <2>2, <2>3, <2>4 DEF RepeatInv
  <1>9. CASE ~run.check
    <2>1. /\ last'.want = run.want /\ (~run.error => last'.exit = "ok")
          /\ passes' = IF ~Unhindered THEN 0
                       ELSE IF passes = 0 \/ run.want # last.want THEN 1 ELSE 2
      BY <1>1, <1>9
    <2>2. Consistent(last.want)'
      BY <1>1, <2>1 DEF RepeatInv, Consistent
    <2>3. passes' >= 1 => Full
      BY <1>4, <1>9, <2>1 DEF Full, Writing
    <2>4. passes' >= 1 => Cleared(last.want)'
      <3> SUFFICES ASSUME passes' >= 1, NEW u \in Entries, run.want[u] = "absent", u.uses # {}
                   PROVE  rows'[u] = 0
        BY <2>1 DEF Cleared
      <3>1. Selected(u.section, {})
        BY UsersAreRules
      <3> QED BY <1>1, <1>5, <2>3, <3>1 DEF RepeatInv, FullSoFar
    <2>5. passes' = 2 /\ NothingDropped(last.want)' => last'.exit = "ok"
      <3> SUFFICES ASSUME passes' = 2, NothingDropped(last.want)' PROVE ~run.error
        BY <2>1
      <3>1. Full /\ passes >= 1 /\ run.want = last.want
        BY <1>2, <2>1, <2>3
      <3>2. NothingDropped(run.want)
        BY <1>1, <2>1 DEF NothingDropped
      <3> QED BY <3>1, <3>2 DEF RepeatInv, NoErrorYet
    <2>6. passes' = 1 /\ NothingRetired(last.want)' => last'.exit = "ok"
      <3> SUFFICES ASSUME passes' = 1, NothingRetired(last.want)' PROVE ~run.error
        BY <2>1
      <3>1. NothingRetired(run.want)
        BY <2>1 DEF NothingRetired
      <3> QED BY <2>3, <3>1 DEF RepeatInv, NoErrorYet
    <2> QED BY <1>4, <1>6, <1>7, <2>2, <2>4, <2>5, <2>6 DEF RepeatInv
  <1> QED BY <1>8, <1>9

LEMMA CutRepeats == ASSUME CatalogInv, RepeatInv, Cut PROVE RepeatInv'
  <1>1. /\ run' = NoRun /\ UNCHANGED <<inventory, touched, want, rows, live, up>> /\ passes' = 0
        /\ last' = [NoLast EXCEPT !.exit = "cut"]
    BY DEF Cut
  <1>2. last'.want = NoRun.want
    BY <1>1 DEF NoLast
  <1>3. NoRun.step = 0 /\ \A e \in Entries : NoRun.want[e] = "present"
    BY DEF NoRun
  <1>4. ~Busy' /\ ~Writing' /\ ~Full'
    BY <1>1, <1>3 DEF Busy, Writing, Full
  <1>5. Consistent(want)' /\ Consistent(run.want)' /\ Consistent(last.want)'
    BY <1>1, <1>2, <1>3, CatalogAssumption DEF RepeatInv, Consistent
  <1> QED BY <1>1, <1>4, <1>5 DEF RepeatInv, FullSoFar, NoErrorYet

LEMMA EditRepeats ==
    ASSUME CatalogInv, RepeatInv, NEW edit \in Edits, Edit(edit[1], edit[2]) PROVE RepeatInv'
  <1>1. /\ want' = [want EXCEPT ![edit[1]] = edit[2]] /\ edit[1] \in inventory
        /\ \A u \in Entries : want'[u] = "present" => \A a \in u.uses : want'[a] = "present"
        /\ UNCHANGED <<inventory, touched, rows, live, up, run, last, passes, faults>>
    BY DEF Edit
  <1>2. want \in [Entries -> States] /\ faults \in Nat
    BY CatalogAssumption DEF CatalogInv, TypeOK
  <1>3. Consistent(want)'
    BY <1>1, <1>2 DEF RepeatInv, Consistent
  <1> QED BY <1>1, <1>2, <1>3, StepRests

(* A row by hand: the run in progress, if any, is not unhindered.          *)
LEMMA MeddleRepeats ==
    ASSUME CatalogInv, RepeatInv, NEW e \in ByHand, Meddle(e) PROVE RepeatInv'
  <1>1. /\ UNCHANGED <<inventory, want, live, up, run, last>> /\ passes' = 0
        /\ faults' = faults + 1
    BY DEF Meddle
  <1>2. faults \in Nat /\ run.faults \in Nat
    BY CatalogAssumption DEF CatalogInv, TypeOK
  <1>3. Consistent(want)' /\ Consistent(run.want)' /\ Consistent(last.want)'
    BY <1>1 DEF RepeatInv, Consistent
  <1>4. Busy' => run'.faults <= faults /\ run'.faults <= faults'
    BY <1>1, <1>2 DEF RepeatInv, Busy
  <1>5. ~Full'
    BY <1>1, <1>2, <1>4 DEF Full, Writing, Unhindered
  <1> QED BY <1>1, <1>3, <1>4, <1>5 DEF RepeatInv, FullSoFar, NoErrorYet

LEMMA StepRepeats ==
    ASSUME WellMade PROVE OneRow /\ CatalogInv /\ RepeatInv /\ [Next \/ Unanswered]_vars => RepeatInv'
  <1> SUFFICES ASSUME OneRow, CatalogInv, RepeatInv, [Next \/ Unanswered]_vars PROVE RepeatInv'
    OBVIOUS
  <1>1. faults \in Nat
    BY CatalogAssumption DEF CatalogInv, TypeOK
  <1>2. ASSUME NEW only \in Onlys[inventory], NEW check \in BOOLEAN, Begin(only, check)
        PROVE  RepeatInv'
    BY <1>2, BeginRepeats
  <1>3. ASSUME NEW e \in Entries, Ensure(e) \/ PostGeneral(e) PROVE RepeatInv'
    BY <1>3, EnsureRepeats, PostGeneralRepeats
  <1>4. CASE NextSection \/ ReconfigureUnbound \/ ReconfigureKea \/ ControlService
    BY <1>4, GoingOnRepeats
  <1>5. CASE Finish
    BY <1>5, FinishRepeats
  <1>6. CASE Cut
    BY <1>6, CutRepeats
  <1>7. ASSUME NEW edit \in Edits, Edit(edit[1], edit[2]) PROVE RepeatInv'
    BY <1>7, EditRepeats
  <1>8. CASE Unanswered \/ UNCHANGED vars
    <2>1. UNCHANGED <<inventory, touched, want, rows, run, last, passes>> /\ faults' \in Nat /\ faults' >= faults
      BY <1>1, <1>8 DEF Unanswered, vars
    <2>2. Consistent(want)'
      BY <2>1 DEF RepeatInv, Consistent
    <2> QED BY <2>1, <2>2, StepRests
  <1>9. ASSUME NEW e \in ByHand, Meddle(e) PROVE RepeatInv'
    BY <1>9, MeddleRepeats
  <1> QED BY <1>2, <1>3, <1>4, <1>5, <1>6, <1>7, <1>8, <1>9 DEF Next, Work

LEMMA InitRepeats == ASSUME WellMade, Init PROVE RepeatInv
  <1>1. /\ inventory \in Inventories /\ run = NoRun /\ last = NoLast /\ passes = 0
        /\ want = [e \in Entries |-> IF e \in inventory THEN "present" ELSE "gone"]
    BY DEF Init
  <1>2. NoRun.step = 0 /\ \A e \in Entries : NoRun.want[e] = "present" /\ NoLast.want[e] = "present"
    BY DEF NoRun, NoLast
  <1>3. ~Busy /\ ~Writing /\ ~Full
    BY <1>1, <1>2 DEF Busy, Writing, Full
  <1>4. \A e \in inventory : e.uses \subseteq inventory
    BY <1>1 DEF WellMade
  <1>5. \A e \in Entries : e.uses \subseteq Entries
    BY CatalogAssumption
  <1>6. Consistent(want)
    BY <1>1, <1>4, <1>5 DEF Consistent
  <1>7. Consistent(run.want) /\ Consistent(last.want)
    BY <1>1, <1>2, <1>5 DEF Consistent
  <1> QED BY <1>1, <1>3, <1>6, <1>7 DEF RepeatInv, FullSoFar, NoErrorYet

(* A full run nothing hinders succeeds the second time, and at once when   *)
(* nothing is retired, for every catalog the firewall's validation takes:  *)
(* the aliases come before what uses them, and what was refused at first   *)
(* is free the next time.                                                  *)
THEOREM RepeatsSucceed ==
    ASSUME WellMade PROVE Spec \/ AuditSpec => []RepeatedApplySucceeds
  <1>1. Init => CatalogInv /\ RepeatInv
    BY InitCatalog, InitRepeats
  <1>2. OneRow /\ CatalogInv /\ RepeatInv /\ [Next \/ Unanswered]_vars => CatalogInv' /\ RepeatInv'
    BY StepCatalog, StepRepeats
  <1>3. CatalogInv /\ RepeatInv => RepeatedApplySucceeds
    <2> SUFFICES ASSUME RepeatInv, ~Busy,
                        \/ passes = 2 /\ \A e \in Entries : last.want[e] = "gone" => rows[e] = 0
                        \/ passes = 1 /\ \A e \in inventory : last.want[e] = "present"
                 PROVE  last.exit = "ok"
      BY DEF RepeatedApplySucceeds
    <2>1. ~Writing /\ \A e \in Entries \ inventory : last.want[e] # "absent"
      BY DEF Writing, RepeatInv, Consistent
    <2>2. passes = 1 /\ (\A e \in inventory : last.want[e] = "present") => NothingRetired(last.want)
      BY <2>1 DEF NothingRetired
    <2> QED BY <2>1, <2>2 DEF RepeatInv, NothingDropped
  <1>4. Init /\ [][Next \/ Unanswered]_vars => []RepeatedApplySucceeds
    BY <1>1, <1>2, <1>3, OneRowHolds, PTL
  <1> QED BY <1>4, EitherWay
==============================================================================
