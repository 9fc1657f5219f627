------------------------- MODULE RegistrationProofs -------------------------
(***************************************************************************)
(* Proofs about the registration: types, vouchers and the authority, for   *)
(* any number of nodes, ids, vouchers, namespaces, requests and faults.    *)
(***************************************************************************)
EXTENDS Registration, TLAPS

-----------------------------------------------------------------------------
(* Vouchers *)

SpendTypes == vouchers \in VoucherTable /\ voucherFile \in VoucherTable
              /\ issued \in [Vouchers -> Nat]
SpendInv == SpendTypes /\ VouchersCovered /\ VoucherNotOverspent

\* A step that leaves vouchers, their file and their uses alone.
LEMMA SpendKept ==
    ASSUME SpendInv, UNCHANGED voucherVars
    PROVE  SpendInv'
BY DEF SpendInv, SpendTypes, VouchersCovered, Covers, VoucherNotOverspent, voucherVars

\* UseVoucher counts, saves and only then lets the request go on; a failed
\* save counts nothing.
LEMMA SpendUse ==
    ASSUME SpendInv, NEW r, UseVoucher(r)
    PROVE  SpendInv'
<1>1. CASE UNCHANGED voucherVars
  BY <1>1, SpendKept
<1>2. CASE ~UNCHANGED voucherVars
  <2> DEFINE v == request[r].voucher
             new == [vouchers EXCEPT ![v].used = @ + 1]
  <2>1. PICK ok \in Writes :
          /\ Usable(v)
          /\ vouchers' = IF ok THEN new ELSE vouchers
          /\ SaveVouchers(ok, new)
          /\ issued' = [issued EXCEPT ![v] = IF ok THEN @ + 1 ELSE @]
    BY <1>2 DEF UseVoucher
  <2>2. CASE ~ok
    <3>1. issued' = issued
      BY <2>1, <2>2 DEF SpendInv, SpendTypes
    <3> QED BY <1>2, <2>1, <2>2, <3>1 DEF voucherVars, SaveVouchers
  <2>3. CASE ok
    <3>1. vouchers' = new /\ voucherFile' = new
          /\ issued' = [issued EXCEPT ![v] = @ + 1]
      BY <2>1, <2>3 DEF SaveVouchers
    <3>2. SpendTypes'
      <4>1. vouchers \in [Vouchers -> [known : BOOLEAN, used : Nat]]
        BY DEF SpendInv, SpendTypes, VoucherTable
      <4>2. new \in [Vouchers -> [known : BOOLEAN, used : Nat]]
        <5>1. CASE v \in Vouchers
          <6>1. vouchers[v] \in [known : BOOLEAN, used : Nat]
            BY <4>1, <5>1
          <6>2. [vouchers[v] EXCEPT !.used = @ + 1] \in [known : BOOLEAN, used : Nat]
            BY <6>1
          <6> QED BY <4>1, <6>2
        <5>2. CASE v \notin Vouchers
          BY <4>1, <5>2
        <5> QED BY <5>1, <5>2
      <4>3. issued' \in [Vouchers -> Nat]
        <5>1. issued \in [Vouchers -> Nat]
          BY DEF SpendInv, SpendTypes
        <5>2. CASE v \in Vouchers
          <6>1. issued[v] + 1 \in Nat
            BY <5>1, <5>2
          <6> QED BY <3>1, <5>1, <6>1
        <5>3. CASE v \notin Vouchers
          BY <3>1, <5>1, <5>3
        <5> QED BY <5>2, <5>3
      <4> QED BY <3>1, <4>2, <4>3 DEF SpendTypes, VoucherTable
    <3>3. ASSUME NEW w \in Vouchers
          PROVE  /\ new[w].known => issued'[w] <= new[w].used
                 /\ MaxUses[w] # 0 => issued'[w] <= MaxUses[w]
      <4>1. CASE w = v
        <5>1. /\ new[w].used = vouchers[w].used + 1 /\ issued'[w] = issued[w] + 1
              /\ issued[w] \in Nat /\ vouchers[w].used \in Nat /\ MaxUses[w] \in Nat
          BY <3>1, <4>1, RegistrationAssumption DEF SpendInv, SpendTypes, VoucherTable
        <5>2. issued[w] <= vouchers[w].used
          BY <2>1, <4>1 DEF Usable, SpendInv, VouchersCovered, Covers
        <5>3. MaxUses[w] = 0 \/ vouchers[w].used < MaxUses[w]
          BY <2>1, <4>1 DEF Usable
        <5> QED BY <5>1, <5>2, <5>3
      <4>2. CASE w # v
        <5>1. new[w] = vouchers[w] /\ issued'[w] = issued[w]
          BY <3>1, <4>2 DEF SpendInv, SpendTypes, VoucherTable
        <5> QED BY <5>1 DEF SpendInv, VouchersCovered, Covers, VoucherNotOverspent
      <4> QED BY <4>1, <4>2
    <3> QED BY <3>1, <3>2, <3>3 DEF SpendInv, VouchersCovered, Covers, VoucherNotOverspent
  <2> QED BY <2>2, <2>3
<1> QED BY <1>1, <1>2

\* A start, which reads the file, and a crash, which may tear it.
LEMMA SpendRestart ==
    ASSUME SpendInv, Boot \/ Crash
    PROVE  SpendInv'
<1> USE DEF SpendInv, SpendTypes, VouchersCovered, Covers, VoucherNotOverspent
<1>1. CASE InitCA
  BY <1>1 DEF InitCA, LoadAll
<1>2. CASE GenerateCA
  BY <1>2 DEF GenerateCA, LoadAll
<1>3. CASE Crash
  <2>1. NoVouchers \in VoucherTable /\ \A v \in Vouchers : ~NoVouchers[v].known
    BY DEF NoVouchers, VoucherTable
  <2> QED BY <1>3, <2>1 DEF Crash
<1> QED BY <1>1, <1>2, <1>3 DEF Boot

\* The administrator creates a code that was never used, and deletes codes.
LEMMA SpendAdmin ==
    ASSUME SpendInv, NEW v \in Vouchers, HandleCreateVoucher(v) \/ HandleDeleteVoucher(v)
    PROVE  SpendInv'
<1> USE DEF SpendInv, SpendTypes, VouchersCovered, Covers, VoucherNotOverspent, VoucherTable
<1>1. CASE HandleCreateVoucher(v)
  <2> DEFINE new == [vouchers EXCEPT ![v] = [known |-> TRUE, used |-> 0]]
  <2>1. /\ issued[v] = 0 /\ UNCHANGED issued
        /\ vouchers' \in {vouchers, new} /\ voucherFile' \in {voucherFile, new}
    BY <1>1 DEF HandleCreateVoucher, CreateVoucher, SaveVouchers
  <2>2. new \in VoucherTable /\ Covers(new)
    BY <2>1
  <2> QED BY <2>1, <2>2
<1>2. CASE HandleDeleteVoucher(v)
  <2> DEFINE new == [vouchers EXCEPT ![v] = NoVouchers[v]]
  <2>1. /\ UNCHANGED issued
        /\ vouchers' = new /\ voucherFile' \in {voucherFile, new}
    BY <1>2 DEF HandleDeleteVoucher, DeleteVoucher, SaveVouchers
  <2>2. new \in VoucherTable /\ Covers(new)
    BY DEF NoVouchers
  <2> QED BY <2>1, <2>2
<1> QED BY <1>1, <1>2

LEMMA SpendStep ==
    ASSUME SpendInv, [Next]_vars
    PROVE  SpendInv'
<1>1. CASE UNCHANGED vars
  BY <1>1, SpendKept DEF vars, voucherVars
<1>2. CASE Boot \/ Crash
  BY <1>2, SpendRestart
<1>3. CASE Admin
  <2>1. ASSUME NEW v \in Vouchers, HandleCreateVoucher(v) \/ HandleDeleteVoucher(v)
        PROVE  SpendInv'
    BY <2>1, SpendAdmin
  <2>2. ASSUME NEW i, NEW s, AdminApprove(i, s) \/ AdminAssign(i, s) \/ AdminRevoke(i)
        PROVE  SpendInv'
    BY <2>2, SpendKept DEF AdminApprove, AdminAssign, AdminRevoke
  <2> QED BY <1>3, <2>1, <2>2 DEF Admin
<1>4. ASSUME NEW r \in DOMAIN request, RequestStep(r)
      PROVE  SpendInv'
  <2>1. CASE UseVoucher(r)
    BY <2>1, SpendUse
  <2>2. CASE ~UseVoucher(r)
    BY <1>4, <2>2, SpendKept DEF RequestStep, RequestAdd, UpdatePublicKey, RequestApprove,
       ResetClientStatus
  <2> QED BY <2>1, <2>2
<1>5. ASSUME NEW n \in Nodes, Start(n) \/ Progress(n) \/ NodeCrash(n)
      PROVE  SpendInv'
  BY <1>5, SpendKept DEF Start, Progress, GenerateKeyPair, CheckApproval, SubmitVoucher,
     VoucherAnswer, Apply, RegisterFails, Download, Connect, NodeCrash
<1> QED BY <1>1, <1>2, <1>3, <1>4, <1>5 DEF Next

\* The inductive invariant of the vouchers: every registration a voucher paid
\* for is counted in memory and on disk (auth.go:419), across restarts.
THEOREM SpendInvariant == Spec => []SpendInv
<1>1. ASSUME Init PROVE SpendInv
  <2>1. vouchers = NoVouchers /\ voucherFile = NoVouchers /\ issued = [v \in Vouchers |-> 0]
    BY <1>1 DEF Init
  <2>2. NoVouchers \in VoucherTable
    BY DEF NoVouchers, VoucherTable
  <2>3. \A v \in Vouchers : ~NoVouchers[v].known /\ issued[v] = 0 /\ MaxUses[v] \in Nat
    BY <2>1, RegistrationAssumption DEF NoVouchers
  <2> QED BY <2>1, <2>2, <2>3
          DEF SpendInv, SpendTypes, VouchersCovered, Covers, VoucherNotOverspent
<1>2. SpendInv /\ [Next]_vars => SpendInv'
  BY SpendStep
<1> QED BY <1>1, <1>2, PTL DEF Spec

\* A voucher with a limit never pays for more registrations than that, for any
\* number of overlapping requests, failed saves and crashes.
THEOREM VouchersAreNotOverspent == Spec => []VoucherNotOverspent
<1>1. SpendInv => VoucherNotOverspent
  BY DEF SpendInv
<1> QED BY <1>1, SpendInvariant, PTL

-----------------------------------------------------------------------------
(* Types.  TypeOK is taken apart by component, and a step is shown to keep  *)
(* the parts it changes.                                                    *)

ServerOK == /\ server \in {"down", "authority", "up"}
            /\ ca \in Pairs /\ caFile \in Pairs
            /\ crashes \in Nat /\ faults \in Nat /\ crashes + faults <= MaxFaults
RecordsOK == clients \in [Ids -> Records] /\ registry \in [Ids -> Records]
MembersOK == members \in [Namespaces -> [Ids -> Nat]] /\ booted \subseteq Ids
RequestsOK == request \in Seq(Requests)
NodeStates == [pc : {"down", "public", "check", "register", "asked", "wait", "connect", "serving"},
               req : Nat, causes : SUBSET {"half_pair", "taken", "overtaken"}]
NodesOK == node \in [Nodes -> NodeStates]
AskedOK == \A n \in Nodes : node[n].pc = "asked" => node[n].req \in DOMAIN request
Files == [priv : 0..MaxKeys, pub : 0..MaxKeys, cert : Certs]
DiskOK == disk \in [Nodes -> Files] /\ keys \in 0..MaxKeys

LEMMA TypeParts ==
    TypeOK <=> /\ ServerOK /\ RecordsOK /\ MembersOK /\ SpendTypes
               /\ RequestsOK /\ NodesOK /\ AskedOK /\ DiskOK
BY DEF TypeOK, ServerOK, RecordsOK, MembersOK, SpendTypes, RequestsOK, NodesOK, NodeStates, AskedOK,
       DiskOK, Files

LEMMA TypePartsNext ==
    TypeOK' <=> /\ ServerOK' /\ RecordsOK' /\ MembersOK' /\ SpendTypes'
                /\ RequestsOK' /\ NodesOK' /\ AskedOK' /\ DiskOK'
BY DEF TypeOK, ServerOK, RecordsOK, MembersOK, SpendTypes, RequestsOK, NodesOK, NodeStates, AskedOK,
       DiskOK, Files

LEMMA NoneTypes ==
    /\ NoCert \in Certs /\ NoEntry \in Records
    /\ \A k \in 0..MaxKeys : Entry(k) \in Records
BY RegistrationAssumption DEF NoCert, Certs, NoEntry, Records, Entry

LEMMA SignTypes ==
    ASSUME ServerOK, NEW k \in 0..MaxKeys
    PROVE  Sign(k) \in Certs
BY DEF ServerOK, Pairs, Sign, Certs

\* The parts that a step leaves alone.
LEMMA KeptParts ==
    /\ ServerOK /\ UNCHANGED <<serverVars, faults>> => ServerOK'
    /\ RecordsOK /\ UNCHANGED <<clients, registry>> => RecordsOK'
    /\ MembersOK /\ UNCHANGED <<members, booted>> => MembersOK'
    /\ RequestsOK /\ UNCHANGED request => RequestsOK'
    /\ NodesOK /\ UNCHANGED node => NodesOK'
    /\ AskedOK /\ UNCHANGED <<node, request>> => AskedOK'
    /\ DiskOK /\ UNCHANGED <<disk, keys>> => DiskOK'
BY DEF ServerOK, RecordsOK, MembersOK, RequestsOK, NodesOK, AskedOK, DiskOK, serverVars

\* A write is counted among the faults if it fails.
LEMMA CountedKeeps ==
    ASSUME ServerOK, NEW ok \in Writes, Counted(ok), UNCHANGED serverVars
    PROVE  ServerOK'
<1>1. faults' = faults \/ (faults' = faults + 1 /\ crashes + faults < MaxFaults)
  BY DEF Counted, Writes
<1> QED BY <1>1, RegistrationAssumption DEF ServerOK, serverVars

\* A record is replaced, in memory and, if the save succeeds, in the file.
LEMMA SavedKeeps ==
    ASSUME RecordsOK, NEW i, NEW e \in Records, NEW ok,
           clients' \in {clients, [clients EXCEPT ![i] = e]},
           registry' \in {registry, [clients EXCEPT ![i] = e]}
    PROVE  RecordsOK'
<1>1. [clients EXCEPT ![i] = e] \in [Ids -> Records]
  BY DEF RecordsOK
<1> QED BY <1>1 DEF RecordsOK

\* One request moves on.
LEMMA GotoKeeps ==
    ASSUME RequestsOK, NEW r \in DOMAIN request,
           NEW pc \in {"use", "add", "update", "approve", "reset", "again", "done", "failed"},
           Goto(r, pc)
    PROVE  RequestsOK' /\ DOMAIN request' = DOMAIN request
<1>1. request[r] \in Requests /\ r \in 1..Len(request)
  BY DEF RequestsOK
<1>2. [request[r] EXCEPT !.pc = pc] \in Requests
  BY <1>1 DEF Requests
<1>3. request' = [request EXCEPT ![r] = [request[r] EXCEPT !.pc = pc]]
  BY DEF Goto
<1> QED BY <1>1, <1>2, <1>3 DEF RequestsOK

LEMMA AskedKeeps ==
    ASSUME AskedOK, UNCHANGED node, DOMAIN request' = DOMAIN request
    PROVE  AskedOK'
BY DEF AskedOK

\* Overtake records a cause and nothing else.
LEMMA OvertakeKeeps ==
    ASSUME NodesOK, NEW m, NEW i
    PROVE  /\ Overtake(m, i) \in [Nodes -> NodeStates]
           /\ \A n \in Nodes : /\ Overtake(m, i)[n].pc = node[n].pc
                               /\ Overtake(m, i)[n].req = node[n].req
<1>1. ASSUME NEW n \in Nodes
      PROVE  LET x == [node[n] EXCEPT !.causes = @ \cup {"overtaken"}] IN
             x \in NodeStates /\ x.pc = node[n].pc /\ x.req = node[n].req
  BY DEF NodesOK, NodeStates
<1>2. \A n \in Nodes : node[n] \in NodeStates
  BY DEF NodesOK
<1> QED BY <1>1, <1>2 DEF Overtake

\* One node moves on.
LEMMA StepKeeps ==
    ASSUME NodesOK, AskedOK, UNCHANGED request, NEW n \in Nodes,
           NEW pc \in {"down", "public", "check", "register", "wait", "connect", "serving"},
           Step(n, pc)
    PROVE  NodesOK' /\ AskedOK'
<1>1. node[n] \in NodeStates
  BY DEF NodesOK
<1>2. [node[n] EXCEPT !.pc = pc] \in NodeStates /\ [node[n] EXCEPT !.pc = pc].pc = pc
  BY <1>1 DEF NodeStates
<1>3. node' = [node EXCEPT ![n] = [node[n] EXCEPT !.pc = pc]]
  BY DEF Step
<1>4. NodesOK'
  BY <1>2, <1>3 DEF NodesOK
<1>5. AskedOK'
  BY <1>2, <1>3 DEF AskedOK, NodesOK
<1> QED BY <1>4, <1>5

LEMMA BootTypes ==
    ASSUME TypeOK, Boot
    PROVE  TypeOK'
<1> USE TypeParts, TypePartsNext
<1>1. /\ RecordsOK' /\ MembersOK' /\ SpendTypes'
      /\ UNCHANGED <<request, node, disk, keys, crashes, faults>>
  <2>1. Unlisted \in [Namespaces -> [Ids -> Nat]]
    BY DEF Unlisted
  <2>2. CASE InitCA
    BY <2>1, <2>2 DEF InitCA, LoadAll, clientVars, RecordsOK, MembersOK, SpendTypes
  <2>3. CASE GenerateCA
    BY <2>1, <2>3 DEF GenerateCA, LoadAll, clientVars, RecordsOK, MembersOK, SpendTypes
  <2> QED BY <2>2, <2>3 DEF Boot
<1>2. ServerOK'
  <2>1. crashes + 1 \in 0..MaxFaults + 1
    BY RegistrationAssumption DEF ServerOK
  <2>2. ASSUME NEW x \in 0..MaxFaults + 1
        PROVE  [caFile EXCEPT !.cert = x] \in Pairs /\ [caFile EXCEPT !.key = x] \in Pairs
    BY DEF ServerOK, Pairs
  <2>3. caFile' \in Pairs /\ ca' \in Pairs /\ server' \in {"down", "authority", "up"}
    <3>1. CASE InitCA
      BY <3>1, <2>1, <2>2 DEF InitCA, LoadAll, ServerOK
    <3>2. CASE GenerateCA
      BY <3>2, <2>1, <2>2 DEF GenerateCA, LoadAll, ServerOK
    <3> QED BY <3>1, <3>2 DEF Boot
  <2> QED BY <1>1, <2>3 DEF ServerOK
<1>3. RequestsOK' /\ NodesOK' /\ AskedOK' /\ DiskOK'
  BY <1>1, KeptParts
<1> QED BY <1>1, <1>2, <1>3

LEMMA CrashTypes ==
    ASSUME TypeOK, Crash
    PROVE  TypeOK'
<1> USE TypeParts, TypePartsNext
<1>1. ServerOK' /\ RecordsOK' /\ MembersOK' /\ DiskOK'
  <2>1. [i \in Ids |-> NoEntry] \in [Ids -> Records]
    BY NoneTypes
  <2>2. RecordsOK'
    BY <2>1 DEF Crash, RecordsOK
  <2>3. ServerOK'
    BY RegistrationAssumption DEF Crash, ServerOK
  <2> QED BY <2>2, <2>3 DEF Crash, MembersOK, DiskOK
<1>2. SpendTypes'
  <2>1. NoVouchers \in VoucherTable
    BY DEF NoVouchers, VoucherTable
  <2> QED BY <2>1 DEF Crash, SpendTypes
<1>3. RequestsOK' /\ DOMAIN request' = DOMAIN request
  <2> DEFINE g(r) == [request[r] EXCEPT !.pc = IF @ = "answered" THEN @ ELSE "failed"]
  <2>1. \A r \in DOMAIN request : request[r] \in Requests
    BY DEF RequestsOK
  <2>2. \A r \in DOMAIN request : g(r) \in Requests
    BY <2>1 DEF Requests
  <2>3. request' = [r \in 1..Len(request) |-> g(r)] /\ Len(request) \in Nat
    BY DEF Crash, RequestsOK
  <2>4. DOMAIN request = 1..Len(request)
    BY DEF RequestsOK
  <2> HIDE DEF g
  <2> QED BY <2>2, <2>3, <2>4 DEF RequestsOK
<1>4. NodesOK' /\ AskedOK'
  <2> DEFINE h(n) == IF node[n].pc = "serving" THEN [node[n] EXCEPT !.pc = "connect"] ELSE node[n]
  <2>1. node' = [n \in Nodes |-> h(n)]
    BY DEF Crash
  <2>2. ASSUME NEW n \in Nodes
        PROVE  /\ h(n) \in NodeStates /\ h(n).req = node[n].req
               /\ h(n).pc = "asked" => node[n].pc = "asked"
    <3>1. node[n] \in NodeStates
      BY DEF NodesOK
    <3>2. LET x == [node[n] EXCEPT !.pc = "connect"] IN
          x \in NodeStates /\ x.req = node[n].req /\ x.pc = "connect"
      BY <3>1 DEF NodeStates
    <3> QED BY <3>1, <3>2
  <2> HIDE DEF h
  <2> QED BY <1>3, <2>1, <2>2 DEF NodesOK, AskedOK
<1> QED BY <1>1, <1>2, <1>3, <1>4

LEMMA MemberUp ==
    ASSUME NEW ms \in [Namespaces -> [Ids -> Nat]], NEW s \in Namespaces, NEW i \in Ids
    PROVE  [ms EXCEPT ![s][i] = @ + 1] \in [Namespaces -> [Ids -> Nat]]
<1>1. ms[s] \in [Ids -> Nat] /\ ms[s][i] + 1 \in Nat
  OBVIOUS
<1>2. [ms[s] EXCEPT ![i] = @ + 1] \in [Ids -> Nat]
  BY <1>1
<1> QED BY <1>2

LEMMA UnlistTypes ==
    ASSUME NEW ms \in [Namespaces -> [Ids -> Nat]], NEW s, NEW i \in Ids
    PROVE  Unlist(ms, s, i) \in [Namespaces -> [Ids -> Nat]]
<1>1. CASE s \in Namespaces /\ ms[s][i] > 0
  <2>1. ms[s] \in [Ids -> Nat] /\ ms[s][i] - 1 \in Nat
    BY <1>1
  <2>2. [ms[s] EXCEPT ![i] = @ - 1] \in [Ids -> Nat]
    BY <2>1
  <2> QED BY <1>1, <2>2 DEF Unlist
<1>2. CASE ~(s \in Namespaces /\ ms[s][i] > 0)
  BY <1>2 DEF Unlist
<1> QED BY <1>1, <1>2

LEMMA ApproveTypes ==
    ASSUME ServerOK, RecordsOK, MembersOK, NEW i \in Ids, NEW s \in Namespaces \cup {"unknown"},
           NEW ok \in Writes, Approve(i, s, ok), UNCHANGED serverVars
    PROVE  ServerOK' /\ RecordsOK' /\ MembersOK'
<1>1. ServerOK'
  BY CountedKeeps DEF Approve
<1>2. RecordsOK'
  <2> DEFINE e == [key |-> clients[i].key, status |-> "approved", cert |-> Sign(clients[i].key),
                   ns |-> s]
  <2>1. clients[i].key \in 0..MaxKeys
    BY DEF RecordsOK, Records
  <2>2. e \in Records
    BY <2>1, SignTypes DEF Records
  <2>3. clients' = [clients EXCEPT ![i] = e]
    BY DEF Approve, Approved
  <2>4. registry' \in {registry, [clients EXCEPT ![i] = e]}
    BY <2>3 DEF Approve, SaveRegistry
  <2> QED BY <2>2, <2>3, <2>4, SavedKeeps
<1>3. MembersOK'
  BY MemberUp DEF Approve, MembersOK
<1> QED BY <1>1, <1>2, <1>3

LEMMA AssignTypes ==
    ASSUME ServerOK, RecordsOK, MembersOK, NEW i \in Ids, NEW s \in Namespaces,
           NEW ok \in Writes, SetClientNamespace(i, s, ok), UNCHANGED serverVars
    PROVE  ServerOK' /\ RecordsOK' /\ MembersOK'
<1>1. CASE UNCHANGED <<clients, members, registry, faults, booted>>
  BY <1>1, KeptParts
<1>2. CASE ~UNCHANGED <<clients, members, registry, faults, booted>>
  <2>1. /\ members' = [Unlist(members, clients[i].ns, i) EXCEPT ![s][i] = @ + 1]
        /\ clients' = [clients EXCEPT ![i].ns = s]
        /\ SaveRegistry(ok, clients')
        /\ booted' = booted \cup {i}
        /\ Counted(ok)
    BY <1>2 DEF SetClientNamespace
  <2>2. ServerOK'
    BY <2>1, CountedKeeps
  <2>3. RecordsOK'
    <3>1. clients[i] \in Records
      BY DEF RecordsOK
    <3>2. [clients[i] EXCEPT !.ns = s] \in Records
      BY <3>1 DEF Records
    <3>3. /\ clients' = [clients EXCEPT ![i] = [clients[i] EXCEPT !.ns = s]]
          /\ registry' \in {registry, [clients EXCEPT ![i] = [clients[i] EXCEPT !.ns = s]]}
      BY <2>1 DEF SaveRegistry
    <3> QED BY <3>2, <3>3, SavedKeeps
  <2>4. MembersOK'
    <3>1. Unlist(members, clients[i].ns, i) \in [Namespaces -> [Ids -> Nat]]
      BY UnlistTypes DEF MembersOK
    <3>2. members' \in [Namespaces -> [Ids -> Nat]]
      BY <2>1, <3>1, MemberUp
    <3> QED BY <2>1, <3>2 DEF MembersOK
  <2> QED BY <2>2, <2>3, <2>4
<1> QED BY <1>1, <1>2

LEMMA AdminTypes ==
    ASSUME TypeOK, SpendTypes', Admin
    PROVE  TypeOK'
<1> USE TypeParts, TypePartsNext
<1>1. ASSUME NEW v \in Vouchers, HandleCreateVoucher(v) \/ HandleDeleteVoucher(v)
      PROVE  TypeOK'
  <2>1. PICK ok \in Writes : Counted(ok)
    BY <1>1 DEF HandleCreateVoucher, HandleDeleteVoucher
  <2>2. UNCHANGED <<serverVars, recordVars, request, clientVars>>
    BY <1>1 DEF HandleCreateVoucher, HandleDeleteVoucher
  <2>3. ServerOK'
    BY <2>1, <2>2, CountedKeeps
  <2> QED BY <2>2, <2>3, KeptParts DEF recordVars, clientVars
<1>2. ASSUME NEW i \in Ids, NEW s \in Namespaces \cup {"unknown"}, AdminApprove(i, s)
      PROVE  TypeOK'
  <2>1. ServerOK' /\ RecordsOK' /\ MembersOK'
    BY <1>2, ApproveTypes DEF AdminApprove
  <2> QED BY <1>2, <2>1, KeptParts DEF AdminApprove, clientVars
<1>3. ASSUME NEW i \in Ids, NEW s \in Namespaces, AdminAssign(i, s)
      PROVE  TypeOK'
  <2>1. ServerOK' /\ RecordsOK' /\ MembersOK'
    BY <1>3, AssignTypes DEF AdminAssign
  <2> QED BY <1>3, <2>1, KeptParts DEF AdminAssign, clientVars
<1>4. ASSUME NEW i \in Ids, AdminRevoke(i)
      PROVE  TypeOK'
  <2>1. PICK ok \in Writes : Delete(i, ok) /\ Counted(ok)
    BY <1>4 DEF AdminRevoke
  <2>2. ServerOK'
    BY <1>4, <2>1, CountedKeeps DEF AdminRevoke
  <2>3. RecordsOK'
    BY <2>1, NoneTypes, SavedKeeps DEF Delete, SaveRegistry
  <2>4. MembersOK'
    BY <2>1, UnlistTypes DEF Delete, MembersOK
  <2> QED BY <1>4, <2>2, <2>3, <2>4, KeptParts DEF AdminRevoke, clientVars
<1> QED BY <1>1, <1>2, <1>3, <1>4 DEF Admin

\* The steps of a request, but for its first, change records.
LEMMA RequestTypes ==
    ASSUME TypeOK, SpendTypes', NEW r \in DOMAIN request, RequestStep(r)
    PROVE  TypeOK'
<1> USE TypeParts, TypePartsNext
<1> DEFINE i == request[r].id
<1>1. request[r] \in Requests
  BY DEF RequestsOK
<1>2. i \in Ids /\ request[r].key \in 0..MaxKeys
  BY <1>1 DEF Requests
<1> HIDE DEF i
<1>3. CASE UseVoucher(r)
  <2>1. UNCHANGED <<serverVars, recordVars, clientVars>>
    BY <1>3 DEF UseVoucher
  <2>2. \E pc \in {"add", "failed"} : Goto(r, pc)
    BY <1>3 DEF UseVoucher
  <2>3. RequestsOK' /\ AskedOK'
    BY <2>1, <2>2, GotoKeeps, AskedKeeps DEF clientVars
  <2>4. ServerOK'
    <3>1. (\E ok \in Writes : Counted(ok)) \/ faults' = faults
      BY <1>3 DEF UseVoucher
    <3> QED BY <2>1, <3>1, CountedKeeps, KeptParts
  <2> QED BY <2>1, <2>3, <2>4, KeptParts DEF recordVars, clientVars
<1>4. CASE RequestAdd(r)
  <2>1. PICK ok \in Writes :
         LET new == [clients EXCEPT ![i] = Entry(request[r].key)] IN
         \/ /\ clients' = IF ok THEN new ELSE clients
            /\ SaveRegistry(ok, new)
            /\ Counted(ok)
            /\ Goto(r, IF ok THEN "approve" ELSE "failed")
            /\ node' = IF ok THEN Overtake(r, i) ELSE node
         \/ Goto(r, "update") /\ UNCHANGED <<clients, registry, faults, node>>
    BY <1>4 DEF RequestAdd, i
  <2>2. UNCHANGED <<serverVars, members, booted, disk, keys>>
    BY <1>4 DEF RequestAdd
  <2>3. RequestsOK' /\ DOMAIN request' = DOMAIN request
    BY <2>1, GotoKeeps
  <2>4. ServerOK'
    BY <2>1, <2>2, CountedKeeps, KeptParts
  <2>5. RecordsOK'
    <3>1. Entry(request[r].key) \in Records
      BY <1>2, NoneTypes
    <3> QED BY <2>1, <3>1, SavedKeeps DEF SaveRegistry
  <2>6. NodesOK' /\ AskedOK'
    BY <2>1, <2>3, OvertakeKeeps DEF NodesOK, AskedOK
  <2> QED BY <2>2, <2>3, <2>4, <2>5, <2>6, KeptParts
<1>5. CASE UpdatePublicKey(r)
  <2> DEFINE e == Rekeyed(i, request[r].key)
  <2>1. PICK ok \in Writes :
         LET new == [clients EXCEPT ![i] = e] IN
         \/ /\ clients' = new
            /\ SaveRegistry(ok, new)
            /\ Counted(ok)
            /\ Goto(r, IF ok THEN "approve" ELSE "failed")
            /\ node' = Overtake(r, i)
         \/ Goto(r, "failed") /\ UNCHANGED <<clients, registry, faults, node>>
    BY <1>5 DEF UpdatePublicKey, i
  <2>2. UNCHANGED <<serverVars, members, booted, disk, keys>>
    BY <1>5 DEF UpdatePublicKey
  <2>3. RequestsOK' /\ DOMAIN request' = DOMAIN request
    BY <2>1, GotoKeeps
  <2>4. ServerOK'
    BY <2>1, <2>2, CountedKeeps, KeptParts
  <2>5. RecordsOK'
    <3>1. Entry(request[r].key) \in Records /\ clients[i] \in Records
      BY <1>2, NoneTypes DEF RecordsOK
    <3>2. e \in Records
      BY <3>1 DEF Rekeyed, Records
    <3> HIDE DEF e
    <3> QED BY <2>1, <3>2, SavedKeeps DEF SaveRegistry
  <2>6. NodesOK' /\ AskedOK'
    BY <2>1, <2>3, OvertakeKeeps DEF NodesOK, AskedOK
  <2> QED BY <2>2, <2>3, <2>4, <2>5, <2>6, KeptParts
<1>6. CASE RequestApprove(r)
  <2>1. UNCHANGED <<serverVars, clientVars>>
    BY <1>6 DEF RequestApprove
  <2>2. CASE \E pc \in {"failed", "reset"} : Goto(r, pc) /\ UNCHANGED <<recordVars, faults>>
    <3>1. RequestsOK' /\ AskedOK'
      BY <2>1, <2>2, GotoKeeps, AskedKeeps DEF clientVars
    <3> QED BY <2>1, <2>2, <3>1, KeptParts DEF recordVars, clientVars
  <2>3. ASSUME NEW ok \in Writes, Approve(i, "permanent", ok),
               request' = [request EXCEPT ![r].pc = IF ok THEN "done" ELSE "failed",
                                          ![r].cert = Sign(clients[i].key)]
        PROVE  TypeOK'
    <3>1. ServerOK' /\ RecordsOK' /\ MembersOK'
      BY <1>2, <2>1, <2>3, ApproveTypes, RegistrationAssumption
    <3>2. Sign(clients[i].key) \in Certs
      BY <1>2, SignTypes DEF RecordsOK, Records
    <3>3. RequestsOK' /\ DOMAIN request' = DOMAIN request
      <4> DEFINE q == [request[r] EXCEPT !.pc = IF ok THEN "done" ELSE "failed",
                                         !.cert = Sign(clients[i].key)]
      <4>1. q \in Requests
        BY <1>1, <3>2 DEF Requests
      <4>2. request' = [request EXCEPT ![r] = q]
        BY <1>1, <2>3 DEF RequestsOK
      <4> HIDE DEF q
      <4> QED BY <4>1, <4>2 DEF RequestsOK
    <3>4. AskedOK'
      BY <2>1, <3>3, AskedKeeps DEF clientVars
    <3> QED BY <2>1, <3>1, <3>3, <3>4, KeptParts DEF clientVars
  <2> QED BY <1>6, <2>2, <2>3 DEF RequestApprove, i
<1>7. CASE ResetClientStatus(r)
  <2> DEFINE e == [clients[i] EXCEPT !.status = "pending", !.cert = NoCert]
  <2>1. UNCHANGED <<serverVars, members, booted, clientVars>> /\ Goto(r, "again")
    BY <1>7 DEF ResetClientStatus
  <2>2. PICK ok \in Writes :
         \/ UNCHANGED <<clients, registry, faults>>
         \/ /\ clients' = [clients EXCEPT ![i].status = "pending", ![i].cert = NoCert]
            /\ SaveRegistry(ok, clients')
            /\ Counted(ok)
    BY <1>7 DEF ResetClientStatus, i
  <2>3. RequestsOK' /\ AskedOK'
    BY <2>1, GotoKeeps, AskedKeeps DEF clientVars
  <2>4. ServerOK'
    BY <2>1, <2>2, CountedKeeps, KeptParts
  <2>5. RecordsOK'
    <3>1. clients[i] \in Records /\ NoCert \in Certs
      BY <1>2, NoneTypes DEF RecordsOK
    <3>2. e \in Records
      BY <3>1 DEF Records
    <3>3. [clients EXCEPT ![i].status = "pending", ![i].cert = NoCert] = [clients EXCEPT ![i] = e]
      BY <1>2, <3>1 DEF RecordsOK, Records
    <3> HIDE DEF e
    <3> QED BY <2>2, <3>2, <3>3, SavedKeeps, KeptParts DEF SaveRegistry
  <2> QED BY <2>1, <2>3, <2>4, <2>5, KeptParts DEF clientVars
<1> QED BY <1>3, <1>4, <1>5, <1>6, <1>7 DEF RequestStep

\* A node replaces its files.
LEMMA DiskKeeps ==
    ASSUME DiskOK, NEW n \in Nodes, NEW d \in Files, disk' = [disk EXCEPT ![n] = d],
           keys' \in 0..MaxKeys
    PROVE  DiskOK'
BY DEF DiskOK

\* A certificate is put among the files of a node.
LEMMA CertKeeps ==
    ASSUME DiskOK, NEW n \in Nodes, NEW c \in Certs, disk' = [disk EXCEPT ![n].cert = c],
           UNCHANGED keys
    PROVE  DiskOK'
<1>1. disk[n] \in Files
  BY DEF DiskOK
<1>2. [disk[n] EXCEPT !.cert = c] \in Files
  BY <1>1 DEF Files
<1>3. disk' = [disk EXCEPT ![n] = [disk[n] EXCEPT !.cert = c]]
  OBVIOUS
<1>4. keys' \in 0..MaxKeys
  BY DEF DiskOK
<1> QED BY <1>2, <1>3, <1>4, DiskKeeps

LEMMA StartTypes ==
    ASSUME TypeOK, SpendTypes', NEW n \in Nodes, Start(n)
    PROVE  TypeOK'
<1> USE TypeParts, TypePartsNext
<1>1. UNCHANGED <<serverVars, recordVars, request, faults>>
  BY DEF Start
<1>2. ServerOK' /\ RecordsOK' /\ MembersOK' /\ RequestsOK'
  BY <1>1, KeptParts DEF recordVars
<1>3. NodesOK' /\ AskedOK' /\ DiskOK'
  <2>1. CASE /\ keys < MaxKeys /\ keys' = keys + 1
             /\ \E c \in {NoCert, disk[n].cert} :
                  disk' = [disk EXCEPT ![n] = [priv |-> keys + 1, pub |-> disk[n].pub, cert |-> c]]
             /\ node' = [node EXCEPT ![n] = [pc |-> "public", req |-> 0, causes |-> {}]]
    <3>1. disk[n] \in Files /\ keys + 1 \in 0..MaxKeys
      BY <2>1, RegistrationAssumption DEF DiskOK
    <3>2. \A c \in {NoCert, disk[n].cert} :
            [priv |-> keys + 1, pub |-> disk[n].pub, cert |-> c] \in Files
      BY <3>1, NoneTypes DEF Files
    <3>3. DiskOK'
      BY <2>1, <3>1, <3>2, DiskKeeps
    <3>4. [pc |-> "public", req |-> 0, causes |-> {}] \in NodeStates
      BY DEF NodeStates
    <3>5. NodesOK'
      BY <2>1, <3>4 DEF NodesOK
    <3>6. AskedOK'
      BY <1>1, <2>1 DEF AskedOK, NodesOK
    <3> QED BY <3>3, <3>5, <3>6
  <2>2. CASE (Step(n, "check") \/ Step(n, "connect")) /\ UNCHANGED <<disk, keys>>
    BY <1>1, <2>2, StepKeeps, KeptParts
  <2> QED BY <2>1, <2>2 DEF Start
<1> QED BY <1>2, <1>3

LEMMA VoucherTypes ==
    ASSUME TypeOK, SpendTypes', NEW n \in Nodes, SubmitVoucher(n) \/ VoucherAnswer(n)
    PROVE  TypeOK'
<1> USE TypeParts, TypePartsNext
<1>1. UNCHANGED <<serverVars, recordVars, keys, faults>>
  BY DEF SubmitVoucher, VoucherAnswer
<1>2. ServerOK' /\ RecordsOK' /\ MembersOK'
  BY <1>1, KeptParts DEF recordVars
<1>3. node[n] \in NodeStates /\ disk[n] \in Files /\ Id[n] \in Ids
  BY RegistrationAssumption DEF NodesOK, DiskOK
<1>4. CASE SubmitVoucher(n)
  <2> DEFINE q == [pc |-> "use", node |-> n, id |-> Id[n], voucher |-> VoucherOf[n],
                   key |-> disk[n].pub, cert |-> NoCert]
             x == [pc |-> "asked", req |-> Len(request) + 1, causes |-> node[n].causes \cup Causes(n)]
  <2>1. request' = Append(request, q) /\ node' = [node EXCEPT ![n] = x] /\ UNCHANGED disk
    BY <1>4 DEF SubmitVoucher
  <2>2. VoucherOf[n] \in Vouchers
    BY <1>4, RegistrationAssumption DEF SubmitVoucher
  <2>3. q \in Requests
    BY <1>3, <2>2, NoneTypes DEF Requests, Files
  <2>4. Len(request) \in Nat /\ DOMAIN request = 1..Len(request)
    BY DEF RequestsOK
  <2>5. x \in NodeStates
    BY <1>3, <2>4 DEF NodeStates, Causes
  <2>6. x.req = Len(request) + 1
    OBVIOUS
  <2> HIDE DEF q, x
  <2>7. RequestsOK' /\ DOMAIN request' = 1..Len(request) + 1
    BY <2>1, <2>3, <2>4 DEF RequestsOK
  <2>8. NodesOK'
    BY <2>1, <2>5 DEF NodesOK
  <2>9. AskedOK'
    BY <2>1, <2>4, <2>6, <2>7 DEF AskedOK, NodesOK
  <2> QED BY <1>1, <1>2, <2>1, <2>7, <2>8, <2>9, KeptParts
<1>5. CASE VoucherAnswer(n)
  <2> DEFINE r == node[n].req
             q == [request[r] EXCEPT !.pc = "answered", !.key = 0, !.cert = NoCert]
  <2>1. r \in DOMAIN request /\ request[r] \in Requests
    BY <1>5 DEF VoucherAnswer, AskedOK, RequestsOK
  <2>2. q \in Requests
    <3>1. 0 \in 0..MaxKeys /\ NoCert \in Certs
      BY NoneTypes, RegistrationAssumption
    <3> QED BY <2>1, <3>1 DEF Requests
  <2>3. request' = [request EXCEPT ![r] = q]
    <3>1. request' = [request EXCEPT ![r].pc = "answered", ![r].key = 0, ![r].cert = NoCert]
      BY <1>5 DEF VoucherAnswer
    <3> QED BY <2>1, <3>1 DEF RequestsOK
  <2>4. request[r].cert \in Certs
    BY <2>1 DEF Requests
  <2>5. \/ Step(n, "connect") /\ disk' = [disk EXCEPT ![n].cert = request[r].cert]
        \/ Step(n, "down") /\ UNCHANGED disk
    BY <1>5 DEF VoucherAnswer
  <2> HIDE DEF q, r
  <2>6. RequestsOK' /\ DOMAIN request' = DOMAIN request
    BY <2>1, <2>2, <2>3 DEF RequestsOK
  <2>7. DiskOK'
    BY <1>1, <2>4, <2>5, CertKeeps, KeptParts
  <2>8. NodesOK' /\ AskedOK'
    <3>1. PICK pc \in {"connect", "down"} : node' = [node EXCEPT ![n] = [node[n] EXCEPT !.pc = pc]]
      BY <2>5 DEF Step
    <3>2. LET y == [node[n] EXCEPT !.pc = pc] IN y \in NodeStates /\ y.pc # "asked"
      BY <1>3 DEF NodeStates
    <3> QED BY <2>6, <3>1, <3>2 DEF NodesOK, AskedOK
  <2> QED BY <1>2, <2>6, <2>7, <2>8
<1> QED BY <1>4, <1>5

\* The other steps of a node.
LEMMA NodeTypes ==
    ASSUME TypeOK, SpendTypes', NEW n \in Nodes, Progress(n) \/ NodeCrash(n)
    PROVE  TypeOK'
<1> USE TypeParts, TypePartsNext
<1>1. node[n] \in NodeStates /\ disk[n] \in Files /\ clients[Id[n]] \in Records /\ Id[n] \in Ids
  BY RegistrationAssumption DEF NodesOK, DiskOK, RecordsOK
<1>2. clients[Id[n]].cert \in Certs /\ disk[n].pub \in 0..MaxKeys
  BY <1>1 DEF Records, Files
<1>3. CASE GenerateKeyPair(n)
  <2>1. UNCHANGED <<serverVars, recordVars, request, keys, faults>>
    BY <1>3 DEF GenerateKeyPair
  <2>2. disk' = [disk EXCEPT ![n] = [disk[n] EXCEPT !.pub = disk[n].priv]]
    BY <1>3 DEF GenerateKeyPair
  <2>3. [disk[n] EXCEPT !.pub = disk[n].priv] \in Files
    BY <1>1 DEF Files
  <2>4. DiskOK'
    BY <2>1, <2>2, <2>3, DiskKeeps DEF DiskOK
  <2>5. Step(n, "register") \/ Step(n, "connect")
    BY <1>3 DEF GenerateKeyPair
  <2>6. NodesOK' /\ AskedOK'
    BY <2>1, <2>5, StepKeeps
  <2> QED BY <2>1, <2>4, <2>6, KeptParts DEF recordVars
<1>4. CASE CheckApproval(n) \/ Download(n)
  <2>1. UNCHANGED <<serverVars, recordVars, request, keys, faults>>
    BY <1>4 DEF CheckApproval, Download
  <2>2. disk' = [disk EXCEPT ![n].cert = clients[Id[n]].cert] \/ UNCHANGED disk
    BY <1>4 DEF CheckApproval, Download
  <2>3. DiskOK'
    BY <1>2, <2>1, <2>2, CertKeeps, KeptParts
  <2>4. Step(n, "register") \/ Step(n, "connect")
    BY <1>4 DEF CheckApproval, Download
  <2>5. NodesOK' /\ AskedOK'
    BY <2>1, <2>4, StepKeeps
  <2> QED BY <2>1, <2>3, <2>5, KeptParts DEF recordVars
<1>5. CASE Apply(n)
  <2> DEFINE new == [clients EXCEPT ![Id[n]] = Entry(disk[n].pub)]
             base(ok) == IF clients[Id[n]].status # "none" \/ ~ok THEN node ELSE Overtake(0, Id[n])
             more == Causes(n) \cup (IF clients[Id[n]].status # "none" THEN {"taken"} ELSE {})
  <2>1. PICK ok \in Writes :
          /\ \/ UNCHANGED <<clients, registry, faults>>
             \/ /\ clients' = IF ok THEN new ELSE clients
                /\ SaveRegistry(ok, new)
                /\ Counted(ok)
          /\ \E pc \in {"wait", "down"} :
               node' = [base(ok) EXCEPT ![n].pc = pc, ![n].causes = @ \cup more]
    <3>1. PICK ok \in Writes :
            /\ IF clients[Id[n]].status # "none" THEN ok /\ UNCHANGED <<clients, registry, faults>>
               ELSE /\ clients' = IF ok THEN new ELSE clients
                    /\ SaveRegistry(ok, new)
                    /\ Counted(ok)
            /\ node' = [base(ok) EXCEPT
                           ![n].pc = IF clients[Id[n]].status # "none" \/ ok THEN "wait" ELSE "down",
                           ![n].causes = @ \cup Causes(n)
                               \cup (IF clients[Id[n]].status # "none" THEN {"taken"} ELSE {})]
      BY <1>5 DEF Apply
    <3>2. \A c : (c \cup Causes(n)) \cup (IF clients[Id[n]].status # "none" THEN {"taken"} ELSE {})
                  = c \cup more
      OBVIOUS
    <3> HIDE DEF base, new, more
    <3>3. node' = [base(ok) EXCEPT
                     ![n].pc = IF clients[Id[n]].status # "none" \/ ok THEN "wait" ELSE "down",
                     ![n].causes = @ \cup more]
      BY <3>1, <3>2
    <3> QED BY <3>1, <3>3
  <2>2. UNCHANGED <<serverVars, members, booted, request, disk, keys>>
    BY <1>5 DEF Apply
  <2>3. more \subseteq {"half_pair", "taken", "overtaken"}
    BY DEF Causes
  <2>4. /\ base(ok) \in [Nodes -> NodeStates]
        /\ \A m \in Nodes : base(ok)[m].pc = node[m].pc /\ base(ok)[m].req = node[m].req
    BY OvertakeKeeps DEF NodesOK
  <2>5. RecordsOK'
    <3>1. Entry(disk[n].pub) \in Records
      BY <1>2, NoneTypes
    <3> QED BY <2>1, <3>1, SavedKeeps, KeptParts DEF SaveRegistry
  <2>6. ServerOK'
    BY <2>1, <2>2, CountedKeeps, KeptParts
  <2> HIDE DEF new, base, more
  <2>7. NodesOK' /\ AskedOK'
    <3>1. PICK pc \in {"wait", "down"} :
            node' = [base(ok) EXCEPT ![n].pc = pc, ![n].causes = @ \cup more]
      BY <2>1
    <3> DEFINE y == [base(ok)[n] EXCEPT !.pc = pc, !.causes = @ \cup more]
    <3>2. base(ok)[n] \in NodeStates
      BY <2>4
    <3>3. y \in NodeStates /\ y.pc # "asked"
      BY <2>3, <3>2 DEF NodeStates
    <3>4. node' = [base(ok) EXCEPT ![n] = y]
      BY <2>4, <3>1, <3>2 DEF NodeStates
    <3> HIDE DEF y
    <3>5. NodesOK'
      BY <2>4, <3>3, <3>4 DEF NodesOK
    <3>6. AskedOK'
      BY <2>2, <2>4, <3>3, <3>4 DEF AskedOK
    <3> QED BY <3>5, <3>6
  <2> QED BY <2>2, <2>5, <2>6, <2>7, KeptParts
<1>6. CASE RegisterFails(n)
  <2>1. UNCHANGED <<serverVars, recordVars, request, disk, keys, faults>> /\ Step(n, "down")
    BY <1>6 DEF RegisterFails
  <2>2. NodesOK' /\ AskedOK'
    BY <2>1, StepKeeps
  <2> QED BY <2>1, <2>2, KeptParts DEF recordVars
<1>7. CASE Connect(n)
  <2>1. UNCHANGED <<serverVars, request, disk, keys>> /\ Step(n, "serving")
    BY <1>7 DEF Connect
  <2>2. ServerOK' /\ RecordsOK' /\ MembersOK'
    BY <1>1, <1>7, <2>1, AssignTypes, RegistrationAssumption DEF Connect
  <2>3. NodesOK' /\ AskedOK'
    BY <2>1, StepKeeps
  <2> QED BY <2>1, <2>2, <2>3, KeptParts
<1>8. CASE NodeCrash(n)
  <2>1. UNCHANGED <<serverVars, recordVars, request, disk, keys>> /\ Step(n, "down")
    BY <1>8 DEF NodeCrash
  <2>2. ServerOK'
    BY <1>8, RegistrationAssumption DEF NodeCrash, ServerOK, serverVars
  <2>3. NodesOK' /\ AskedOK'
    BY <2>1, StepKeeps
  <2> QED BY <2>1, <2>2, <2>3, KeptParts DEF recordVars
<1> QED BY <1>3, <1>4, <1>5, <1>6, <1>7, <1>8, VoucherTypes DEF Progress

LEMMA TypesStep ==
    ASSUME TypeOK, SpendInv, [Next]_vars
    PROVE  TypeOK'
<1>1. SpendTypes'
  BY SpendStep DEF SpendInv
<1>2. CASE UNCHANGED vars
  BY <1>1, <1>2, TypeParts, TypePartsNext, KeptParts DEF vars, serverVars
<1>3. CASE Next
  BY <1>1, <1>3, BootTypes, CrashTypes, AdminTypes, RequestTypes, StartTypes, NodeTypes DEF Next
<1> QED BY <1>2, <1>3

\* Every variable keeps its type, and a node that waits for an answer waits for
\* a request there is.
THEOREM RegistrationTypes == Spec => []TypeOK
<1>1. ASSUME Init PROVE TypeOK
  <2> USE DEF Init
  <2>1. ServerOK
    BY <1>1, RegistrationAssumption DEF ServerOK, Pairs
  <2>2. RecordsOK
    BY <1>1, NoneTypes DEF RecordsOK
  <2>3. MembersOK /\ RequestsOK
    BY <1>1 DEF MembersOK, RequestsOK, Unlisted
  <2>4. NodesOK /\ AskedOK
    BY <1>1 DEF NodesOK, NodeStates, AskedOK
  <2>5. DiskOK
    BY <1>1, NoneTypes, RegistrationAssumption DEF DiskOK, Files
  <2>6. SpendTypes
    BY <1>1 DEF SpendTypes, NoVouchers, VoucherTable
  <2> QED BY <2>1, <2>2, <2>3, <2>4, <2>5, <2>6, TypeParts
<1>2. TypeOK /\ SpendInv /\ [Next]_vars => TypeOK'
  BY TypesStep
<1> QED BY <1>1, <1>2, SpendInvariant, PTL DEF Spec

-----------------------------------------------------------------------------
(* The authority.  AuthorityAccounted is taken apart in the same way. *)

FilesAgree ==
    /\ caFile.key # 0 => caFile.cert = caFile.key
    /\ server = "authority" => caFile.cert = crashes + 1 /\ caFile.key = 0
    /\ server = "up" => ca = caFile /\ caFile.key # 0
RecordsSigned == SignedRecords(clients) /\ SignedRecords(registry)
DisksSigned == \A n \in Nodes : Signed(disk[n].cert)
RequestsSigned == \A r \in DOMAIN request : Signed(request[r].cert)

LEMMA AuthorityParts ==
    /\ AuthorityAccounted <=> FilesAgree /\ RecordsSigned /\ DisksSigned /\ RequestsSigned
    /\ AuthorityAccounted' <=> FilesAgree' /\ RecordsSigned' /\ DisksSigned' /\ RequestsSigned'
BY DEF AuthorityAccounted, FilesAgree, RecordsSigned, DisksSigned, RequestsSigned

\* The parts that a step leaves alone, when it leaves the authority alone.
LEMMA AuthorityKeptParts ==
    ASSUME UNCHANGED serverVars
    PROVE  /\ FilesAgree => FilesAgree'
           /\ RecordsSigned /\ UNCHANGED <<clients, registry>> => RecordsSigned'
           /\ DisksSigned /\ UNCHANGED disk => DisksSigned'
           /\ RequestsSigned /\ UNCHANGED request => RequestsSigned'
BY DEF FilesAgree, RecordsSigned, DisksSigned, RequestsSigned, SignedRecords, Signed, serverVars

\* What a running server signs is signed by the authority of the files.
LEMMA SignSigned ==
    ASSUME FilesAgree, server = "up", NEW k
    PROVE  Signed(Sign(k)) /\ Sign(k) # NoCert
<1>1. ca.key = caFile.key /\ caFile.key # 0
  BY DEF FilesAgree
<1>2. Sign(k).ca = caFile.key /\ NoCert.ca = 0
  BY <1>1 DEF Sign, NoCert
<1> QED BY <1>1, <1>2 DEF Signed

\* A record is replaced by one that is accounted for.
LEMMA SavedSigned ==
    ASSUME RecordsOK, RecordsSigned, UNCHANGED serverVars, NEW i, NEW e,
           Signed(e.cert), e.status = "approved" => e.cert # NoCert,
           clients' \in {clients, [clients EXCEPT ![i] = e]},
           registry' \in {registry, [clients EXCEPT ![i] = e]}
    PROVE  RecordsSigned'
<1> DEFINE new == [clients EXCEPT ![i] = e]
<1>1. ASSUME NEW j \in Ids
      PROVE  new[j] \in {e, clients[j]}
  BY DEF RecordsOK
<1>2. SignedRecords(new) /\ SignedRecords(clients) /\ SignedRecords(registry)
  BY <1>1 DEF RecordsSigned, SignedRecords
<1>3. caFile' = caFile
  BY DEF serverVars
<1>4. clients' \in {clients, new} /\ registry' \in {registry, new}
  OBVIOUS
<1> HIDE DEF new
<1>5. SignedRecords(clients')
  BY <1>2, <1>4
<1>6. SignedRecords(registry')
  BY <1>2, <1>4
<1> QED BY <1>3, <1>5, <1>6 DEF RecordsSigned, SignedRecords, Signed

\* A certificate is put among the files of a node.
LEMMA CertSigned ==
    ASSUME DiskOK, DisksSigned, UNCHANGED serverVars, NEW n \in Nodes, NEW c, Signed(c),
           disk' = [disk EXCEPT ![n].cert = c]
    PROVE  DisksSigned'
<1>1. \A m \in Nodes : disk'[m].cert \in {c, disk[m].cert}
  BY DEF DiskOK, Files
<1> QED BY <1>1 DEF DisksSigned, Signed, serverVars

\* A request is replaced by one that is accounted for.
LEMMA RequestSigned ==
    ASSUME RequestsOK, RequestsSigned, UNCHANGED serverVars, NEW r \in DOMAIN request, NEW q,
           Signed(q.cert), request' = [request EXCEPT ![r] = q]
    PROVE  RequestsSigned'
<1>1. DOMAIN request' = DOMAIN request
  BY DEF RequestsOK
<1>2. \A x \in DOMAIN request : request'[x] \in {q, request[x]}
  BY DEF RequestsOK
<1> QED BY <1>1, <1>2 DEF RequestsSigned, Signed, serverVars

LEMMA GotoSigned ==
    ASSUME RequestsOK, RequestsSigned, UNCHANGED serverVars, NEW r \in DOMAIN request, NEW pc,
           Goto(r, pc)
    PROVE  RequestsSigned'
<1>1. request[r] \in Requests
  BY DEF RequestsOK
<1>2. [request[r] EXCEPT !.pc = pc].cert = request[r].cert
  BY <1>1 DEF Requests
<1>3. request' = [request EXCEPT ![r] = [request[r] EXCEPT !.pc = pc]]
  BY DEF Goto
<1> QED BY <1>2, <1>3, RequestSigned DEF RequestsSigned

\* NoCert needs no signature, and neither does a record that is pending or none.
LEMMA NoneSigned ==
    /\ Signed(NoCert)
    /\ NoEntry.cert = NoCert /\ NoEntry.status # "approved"
    /\ \A k : Entry(k).cert = NoCert /\ Entry(k).status # "approved"
    /\ [cert |-> 0, key |-> 0].key = 0
BY DEF Signed, NoEntry, Entry

\* Start and crash of the server.  A half-written authority has signed nothing.
LEMMA BootSigned ==
    ASSUME TypeOK, AuthorityAccounted, Boot \/ Crash
    PROVE  AuthorityAccounted'
<1> USE AuthorityParts, TypeParts
<1>1. CASE InitCA /\ CAExists
  BY <1>1 DEF InitCA, CAExists, LoadAll, clientVars, FilesAgree, RecordsSigned, SignedRecords,
     DisksSigned, RequestsSigned, Signed
<1>2. CASE InitCA /\ ~CAExists
  <2>1. caFile.key = 0
    BY <1>2 DEF CAExists, FilesAgree
  <2>2. /\ caFile' = [caFile EXCEPT !.cert = crashes + 1] /\ server' = "authority"
        /\ UNCHANGED <<clients, registry, disk, request, crashes>>
    BY <1>2 DEF InitCA, clientVars
  <2>3. caFile'.cert = crashes + 1 /\ caFile'.key = caFile.key
    BY <2>2 DEF ServerOK, Pairs
  <2> QED BY <2>1, <2>2, <2>3
          DEF FilesAgree, RecordsSigned, SignedRecords, DisksSigned, RequestsSigned, Signed
<1>3. CASE GenerateCA
  <2>1. caFile.cert = crashes + 1 /\ caFile.key = 0 /\ crashes + 1 # 0
    BY <1>3 DEF GenerateCA, FilesAgree, ServerOK
  <2>2. /\ caFile' = [caFile EXCEPT !.key = crashes + 1] /\ server' = "up" /\ ca' = caFile'
        /\ clients' = registry
        /\ UNCHANGED <<registry, disk, request, crashes>>
    BY <1>3 DEF GenerateCA, LoadAll, clientVars
  <2>3. caFile'.cert = crashes + 1 /\ caFile'.key = crashes + 1
    BY <2>1, <2>2 DEF ServerOK, Pairs
  <2>4. FilesAgree'
    BY <2>1, <2>2, <2>3 DEF FilesAgree
  <2> QED BY <2>1, <2>2, <2>4
          DEF RecordsSigned, SignedRecords, DisksSigned, RequestsSigned, Signed
<1>4. CASE Crash
  <2>1. UNCHANGED <<ca, caFile, clients, disk>> /\ server' = "down"
    BY <1>4 DEF Crash
  <2>2. FilesAgree' /\ DisksSigned'
    BY <2>1 DEF FilesAgree, DisksSigned, Signed
  <2>3. RecordsSigned'
    <3>1. SignedRecords([i \in Ids |-> NoEntry])
      BY NoneSigned DEF SignedRecords
    <3>2. registry' \in {registry, [i \in Ids |-> NoEntry]}
      BY <1>4 DEF Crash
    <3> QED BY <2>1, <3>1, <3>2 DEF RecordsSigned, SignedRecords, Signed
  <2>4. RequestsSigned'
    <3>1. \A r \in DOMAIN request : request[r] \in Requests
      BY DEF RequestsOK
    <3>2. DOMAIN request' = DOMAIN request
          /\ \A r \in DOMAIN request : request'[r].cert = request[r].cert
      BY <1>4, <3>1 DEF Crash, Requests
    <3> QED BY <2>1, <3>2 DEF RequestsSigned, Signed
  <2> QED BY <2>2, <2>3, <2>4
<1> QED BY <1>1, <1>2, <1>3, <1>4 DEF Boot

\* Approve signs with the authority; an assignment keeps the certificate.
LEMMA ApproveSigned ==
    ASSUME RecordsOK, FilesAgree, RecordsSigned, server = "up", UNCHANGED serverVars,
           NEW i, NEW s, NEW ok, Approve(i, s, ok)
    PROVE  RecordsSigned'
<1> DEFINE e == [key |-> clients[i].key, status |-> "approved", cert |-> Sign(clients[i].key),
                 ns |-> s]
<1>1. e.cert = Sign(clients[i].key)
  OBVIOUS
<1>2. clients' = [clients EXCEPT ![i] = e] /\ registry' \in {registry, [clients EXCEPT ![i] = e]}
  BY DEF Approve, Approved, SaveRegistry
<1>3. Signed(e.cert) /\ e.cert # NoCert
  BY <1>1, SignSigned
<1> HIDE DEF e
<1> QED BY <1>2, <1>3, SavedSigned

LEMMA AssignSigned ==
    ASSUME RecordsOK, RecordsSigned, UNCHANGED serverVars,
           NEW i \in Ids, NEW s, NEW ok, SetClientNamespace(i, s, ok)
    PROVE  RecordsSigned'
<1> DEFINE e == [clients[i] EXCEPT !.ns = s]
<1>1. CASE UNCHANGED <<clients, registry>>
  BY <1>1, AuthorityKeptParts
<1>2. CASE ~UNCHANGED <<clients, registry>>
  <2>1. clients' = [clients EXCEPT ![i] = e] /\ registry' \in {registry, [clients EXCEPT ![i] = e]}
    BY <1>2 DEF SetClientNamespace, SaveRegistry
  <2>2. e.cert = clients[i].cert /\ e.status = clients[i].status
    BY DEF RecordsOK, Records
  <2>3. Signed(e.cert) /\ (e.status = "approved" => e.cert # NoCert)
    BY <2>2 DEF RecordsSigned, SignedRecords
  <2> HIDE DEF e
  <2> QED BY <2>1, <2>3, SavedSigned
<1> QED BY <1>1, <1>2

LEMMA AdminSigned ==
    ASSUME TypeOK, AuthorityAccounted, Admin
    PROVE  AuthorityAccounted'
<1> USE AuthorityParts, TypeParts
<1>1. UNCHANGED <<serverVars, request, disk>>
  BY DEF Admin, HandleCreateVoucher, HandleDeleteVoucher, AdminApprove, AdminAssign, AdminRevoke,
     clientVars
<1>2. RecordsSigned'
  <2>1. ASSUME NEW v \in Vouchers, HandleCreateVoucher(v) \/ HandleDeleteVoucher(v)
        PROVE  RecordsSigned'
    BY <1>1, <2>1, AuthorityKeptParts DEF HandleCreateVoucher, HandleDeleteVoucher, recordVars
  <2>2. ASSUME NEW i \in Ids, NEW s, AdminApprove(i, s)
        PROVE  RecordsSigned'
    BY <1>1, <2>2, ApproveSigned DEF AdminApprove
  <2>3. ASSUME NEW i \in Ids, NEW s, AdminAssign(i, s)
        PROVE  RecordsSigned'
    BY <1>1, <2>3, AssignSigned DEF AdminAssign
  <2>4. ASSUME NEW i \in Ids, AdminRevoke(i)
        PROVE  RecordsSigned'
    BY <1>1, <2>4, NoneSigned, SavedSigned DEF AdminRevoke, Delete, SaveRegistry
  <2> QED BY <2>1, <2>2, <2>3, <2>4 DEF Admin
<1> QED BY <1>1, <1>2, AuthorityKeptParts

LEMMA RequestStepSigned ==
    ASSUME TypeOK, AuthorityAccounted, NEW r \in DOMAIN request, RequestStep(r)
    PROVE  AuthorityAccounted'
<1> USE AuthorityParts, TypeParts
<1> DEFINE i == request[r].id
<1>1. request[r] \in Requests
  BY DEF RequestsOK
<1>2. i \in Ids
  BY <1>1 DEF Requests
<1>3. UNCHANGED <<serverVars, disk>> /\ server = "up"
  BY DEF RequestStep, UseVoucher, RequestAdd, UpdatePublicKey, RequestApprove, ResetClientStatus,
     At, clientVars
<1>4. FilesAgree' /\ DisksSigned'
  BY <1>3, AuthorityKeptParts
<1> HIDE DEF i
<1>5. CASE UseVoucher(r)
  <2>1. UNCHANGED recordVars /\ \E pc : Goto(r, pc)
    BY <1>5 DEF UseVoucher
  <2>2. RequestsSigned'
    BY <1>3, <2>1, GotoSigned
  <2> QED BY <1>3, <1>4, <2>1, <2>2, AuthorityKeptParts DEF recordVars
<1>6. CASE RequestAdd(r) \/ UpdatePublicKey(r)
  <2> DEFINE k == request[r].key
  <2>1. \E pc : Goto(r, pc)
    BY <1>6 DEF RequestAdd, UpdatePublicKey
  <2>2. RequestsSigned'
    BY <1>3, <2>1, GotoSigned
  <2>3. PICK e \in {Entry(k), Rekeyed(i, k)} :
          \/ UNCHANGED <<clients, registry>>
          \/ /\ clients' \in {clients, [clients EXCEPT ![i] = e]}
             /\ registry' \in {registry, [clients EXCEPT ![i] = e]}
    <3>1. CASE RequestAdd(r)
      BY <3>1 DEF RequestAdd, SaveRegistry, i
    <3>2. CASE UpdatePublicKey(r)
      BY <3>2 DEF UpdatePublicKey, SaveRegistry, i
    <3> QED BY <1>6, <3>1, <3>2
  <2>4. e.cert = NoCert /\ e.status # "approved"
    <3>1. Rekeyed(i, k).cert = Entry(k).cert /\ Rekeyed(i, k).status = Entry(k).status
      BY DEF Rekeyed, Entry
    <3> QED BY <2>3, <3>1, NoneSigned
  <2>5. Signed(e.cert)
    BY <2>4, NoneSigned
  <2> HIDE DEF k
  <2>6. CASE UNCHANGED <<clients, registry>>
    BY <1>3, <1>4, <2>2, <2>6, AuthorityKeptParts
  <2>7. CASE /\ clients' \in {clients, [clients EXCEPT ![i] = e]}
             /\ registry' \in {registry, [clients EXCEPT ![i] = e]}
    <3>1. RecordsSigned'
      BY <1>3, <2>4, <2>5, <2>7, SavedSigned
    <3> QED BY <1>4, <2>2, <3>1
  <2> QED BY <2>3, <2>6, <2>7
<1>7. CASE RequestApprove(r)
  <2>1. CASE (\E pc : Goto(r, pc)) /\ UNCHANGED recordVars
    <3>1. RequestsSigned'
      BY <1>3, <2>1, GotoSigned
    <3> QED BY <1>3, <1>4, <2>1, <3>1, AuthorityKeptParts DEF recordVars
  <2>2. ASSUME NEW ok \in Writes, Approve(i, "permanent", ok),
               request' = [request EXCEPT ![r].pc = IF ok THEN "done" ELSE "failed",
                                          ![r].cert = Sign(clients[i].key)]
        PROVE  AuthorityAccounted'
    <3> DEFINE q == [request[r] EXCEPT !.pc = IF ok THEN "done" ELSE "failed",
                                       !.cert = Sign(clients[i].key)]
    <3>1. RecordsSigned'
      BY <1>3, <2>2, ApproveSigned
    <3>2. q.cert = Sign(clients[i].key)
      BY <1>1 DEF Requests
    <3>3. Signed(q.cert)
      BY <1>3, <3>2, SignSigned
    <3>4. request' = [request EXCEPT ![r] = q]
      BY <1>1, <2>2 DEF RequestsOK
    <3> HIDE DEF q
    <3>5. RequestsSigned'
      BY <1>3, <3>3, <3>4, RequestSigned
    <3> QED BY <1>4, <3>1, <3>5
  <2> QED BY <1>7, <2>1, <2>2 DEF RequestApprove, i
<1>8. CASE ResetClientStatus(r)
  <2> DEFINE e == [clients[i] EXCEPT !.status = "pending", !.cert = NoCert]
  <2>1. RequestsSigned'
    BY <1>3, <1>8, GotoSigned DEF ResetClientStatus
  <2>2. clients[i] \in Records
    BY <1>2 DEF RecordsOK
  <2>3. e.cert = NoCert /\ e.status # "approved"
    BY <2>2 DEF Records
  <2>4. Signed(e.cert)
    BY <2>3, NoneSigned
  <2>5. [clients EXCEPT ![i].status = "pending", ![i].cert = NoCert] = [clients EXCEPT ![i] = e]
    BY <1>2, <2>2 DEF RecordsOK, Records
  <2> HIDE DEF e
  <2>6. \/ UNCHANGED <<clients, registry>>
        \/ /\ clients' \in {clients, [clients EXCEPT ![i] = e]}
           /\ registry' \in {registry, [clients EXCEPT ![i] = e]}
    BY <1>8, <2>5 DEF ResetClientStatus, SaveRegistry, i
  <2>7. RecordsSigned'
    <3>1. CASE UNCHANGED <<clients, registry>>
      BY <1>3, <3>1, AuthorityKeptParts
    <3>2. CASE ~UNCHANGED <<clients, registry>>
      BY <1>3, <2>3, <2>4, <2>6, <3>2, SavedSigned
    <3> QED BY <3>1, <3>2
  <2> QED BY <1>4, <2>1, <2>7
<1> QED BY <1>5, <1>6, <1>7, <1>8 DEF RequestStep

LEMMA NodeSigned ==
    ASSUME TypeOK, AuthorityAccounted, NEW n \in Nodes, Start(n) \/ Progress(n) \/ NodeCrash(n)
    PROVE  AuthorityAccounted'
<1> USE AuthorityParts, TypeParts
<1>1. UNCHANGED serverVars
  BY DEF Start, Progress, GenerateKeyPair, CheckApproval, SubmitVoucher, VoucherAnswer, Apply,
     RegisterFails, Download, Connect, NodeCrash
<1>2. FilesAgree'
  BY <1>1, AuthorityKeptParts
<1>3. Id[n] \in Ids /\ disk[n] \in Files /\ Signed(disk[n].cert) /\ Signed(clients[Id[n]].cert)
  BY RegistrationAssumption DEF DiskOK, DisksSigned, RecordsSigned, SignedRecords
<1>4. CASE Start(n) \/ GenerateKeyPair(n)
  <2>1. UNCHANGED <<recordVars, request>>
    BY <1>4 DEF Start, GenerateKeyPair
  <2>2. \A m \in Nodes : disk'[m].cert \in {NoCert, disk[m].cert}
    <3>1. CASE Start(n)
      BY <3>1 DEF Start, DiskOK, Files
    <3>2. CASE GenerateKeyPair(n)
      BY <3>2 DEF GenerateKeyPair, DiskOK, Files
    <3> QED BY <1>4, <3>1, <3>2
  <2>3. DisksSigned'
    BY <1>1, <2>2 DEF DisksSigned, Signed, serverVars
  <2> QED BY <1>1, <1>2, <2>1, <2>3, AuthorityKeptParts DEF recordVars
<1>5. CASE CheckApproval(n) \/ Download(n)
  <2>1. UNCHANGED <<recordVars, request>>
    BY <1>5 DEF CheckApproval, Download
  <2>2. UNCHANGED disk \/ disk' = [disk EXCEPT ![n].cert = clients[Id[n]].cert]
    BY <1>5 DEF CheckApproval, Download
  <2>3. DisksSigned'
    BY <1>1, <1>3, <2>2, CertSigned, AuthorityKeptParts
  <2> QED BY <1>1, <1>2, <2>1, <2>3, AuthorityKeptParts DEF recordVars
<1>6. CASE SubmitVoucher(n)
  <2> DEFINE q == [pc |-> "use", node |-> n, id |-> Id[n], voucher |-> VoucherOf[n],
                   key |-> disk[n].pub, cert |-> NoCert]
  <2>1. UNCHANGED <<recordVars, disk>> /\ request' = Append(request, q)
    BY <1>6 DEF SubmitVoucher
  <2>2. q.cert = NoCert
    OBVIOUS
  <2> HIDE DEF q
  <2>3. \A r \in DOMAIN request' : request'[r] = q \/ (r \in DOMAIN request /\ request'[r] = request[r])
    BY <2>1 DEF RequestsOK
  <2>4. RequestsSigned'
    BY <1>1, <2>2, <2>3 DEF RequestsSigned, Signed, serverVars
  <2> QED BY <1>1, <1>2, <2>1, <2>4, AuthorityKeptParts DEF recordVars
<1>7. CASE VoucherAnswer(n)
  <2> DEFINE r == node[n].req
             q == [request[r] EXCEPT !.pc = "answered", !.key = 0, !.cert = NoCert]
  <2>1. r \in DOMAIN request /\ request[r] \in Requests
    BY <1>7 DEF VoucherAnswer, AskedOK, RequestsOK
  <2>2. q.cert = NoCert
    BY <2>1 DEF Requests
  <2>3. request' = [request EXCEPT ![r] = q]
    <3>1. request' = [request EXCEPT ![r].pc = "answered", ![r].key = 0, ![r].cert = NoCert]
      BY <1>7 DEF VoucherAnswer
    <3> QED BY <2>1, <3>1 DEF RequestsOK
  <2>4. UNCHANGED recordVars /\ (UNCHANGED disk \/ disk' = [disk EXCEPT ![n].cert = request[r].cert])
    BY <1>7 DEF VoucherAnswer
  <2>5. Signed(request[r].cert) /\ Signed(q.cert)
    BY <2>1, <2>2, NoneSigned DEF RequestsSigned
  <2> HIDE DEF q, r
  <2>6. RequestsSigned'
    BY <1>1, <2>1, <2>3, <2>5, RequestSigned
  <2>7. DisksSigned'
    BY <1>1, <2>4, <2>5, CertSigned, AuthorityKeptParts
  <2> QED BY <1>1, <1>2, <2>4, <2>6, <2>7, AuthorityKeptParts DEF recordVars
<1>8. CASE Apply(n)
  <2> DEFINE e == Entry(disk[n].pub)
  <2>1. UNCHANGED <<request, disk>>
    BY <1>8 DEF Apply
  <2>2. /\ clients' \in {clients, [clients EXCEPT ![Id[n]] = e]}
        /\ registry' \in {registry, [clients EXCEPT ![Id[n]] = e]}
    BY <1>8 DEF Apply, SaveRegistry
  <2>3. e.cert = NoCert /\ e.status # "approved" /\ Signed(NoCert)
    BY NoneSigned
  <2> HIDE DEF e
  <2>4. RecordsSigned'
    BY <1>1, <2>2, <2>3, SavedSigned
  <2> QED BY <1>1, <1>2, <2>1, <2>4, AuthorityKeptParts
<1>9. CASE RegisterFails(n) \/ NodeCrash(n)
  BY <1>1, <1>2, <1>9, AuthorityKeptParts DEF RegisterFails, NodeCrash, recordVars
<1>10. CASE Connect(n)
  <2>1. UNCHANGED <<request, disk>>
    BY <1>10 DEF Connect
  <2>2. RecordsSigned'
    BY <1>1, <1>3, <1>10, AssignSigned DEF Connect
  <2> QED BY <1>1, <1>2, <2>1, <2>2, AuthorityKeptParts
<1> QED BY <1>4, <1>5, <1>6, <1>7, <1>8, <1>9, <1>10 DEF Progress

\* The inductive invariant of the authority: the two files belong together, a
\* running server has loaded them (auth.go, Init), and every certificate in a
\* record, in the registry file, in a request or on a client is theirs.
THEOREM AuthorityInvariant == Spec => []AuthorityAccounted
<1>1. ASSUME Init PROVE AuthorityAccounted
  <2>1. FilesAgree
    BY <1>1 DEF Init, FilesAgree
  <2>2. RecordsSigned /\ DisksSigned /\ RequestsSigned
    BY <1>1, NoneSigned DEF Init, RecordsSigned, SignedRecords, DisksSigned, RequestsSigned
  <2> QED BY <2>1, <2>2, AuthorityParts
<1>2. ASSUME TypeOK, AuthorityAccounted, [Next]_vars PROVE AuthorityAccounted'
  <2>1. CASE UNCHANGED vars
    BY <1>2, <2>1, AuthorityParts, AuthorityKeptParts DEF vars, serverVars
  <2>2. CASE Next
    BY <1>2, <2>2, BootSigned, AdminSigned, RequestStepSigned, NodeSigned DEF Next
  <2> QED BY <1>2, <2>1, <2>2
<1> QED BY <1>1, <1>2, RegistrationTypes, PTL DEF Spec

\* A running server signs with the key of its authority, and every certificate
\* of an approved record or on a client was signed by it, across any number of
\* crashes, also between the two files of the authority.
THEOREM AuthorityIsKept == Spec => []AuthorityKept
<1>1. AuthorityAccounted => AuthorityKept
  BY DEF AuthorityAccounted, AuthorityKept, SignedRecords, Signed
<1> QED BY <1>1, AuthorityInvariant, PTL

-----------------------------------------------------------------------------
(* The member lists. *)

LEMMA UnlistOthers ==
    ASSUME NEW ms \in [Namespaces -> [Ids -> Nat]], NEW s, NEW i \in Ids
    PROVE  \A t \in Namespaces, j \in Ids : j # i => Unlist(ms, s, i)[t][j] = ms[t][j]
<1>1. \A t \in Namespaces : ms[t] \in [Ids -> Nat]
  OBVIOUS
<1> QED BY <1>1 DEF Unlist

LEMMA MembersOfOthers ==
    ASSUME NEW ms \in [Namespaces -> [Ids -> Nat]], NEW s, NEW t \in Namespaces,
           NEW i \in Ids, NEW j \in Ids
    PROVE  /\ j # i => [ms EXCEPT ![s][i] = @ + 1][t][j] = ms[t][j]
           /\ [ms EXCEPT ![t][i] = @ + 1][t][i] > 0
<1>1. ms[t] \in [Ids -> Nat] /\ ms[t][i] \in Nat
  OBVIOUS
<1>2. j # i => [ms EXCEPT ![s][i] = @ + 1][t][j] = ms[t][j]
  BY <1>1
<1>3. [ms EXCEPT ![t][i] = @ + 1][t][i] = ms[t][i] + 1
  BY <1>1
<1> QED BY <1>1, <1>2, <1>3

\* No client is approved or moved.
LEMMA ListedKept ==
    ASSUME TypeOK, ListedSinceBoot, UNCHANGED <<server, members, booted>>,
           \A j \in Ids : clients'[j].status = "approved" =>
               clients[j].status = "approved" /\ clients'[j].ns = clients[j].ns
    PROVE  ListedSinceBoot'
BY DEF TypeOK, ListedSinceBoot

\* A client joins the namespace of its record, and others stay in theirs.
LEMMA ListedJoins ==
    ASSUME TypeOK, ListedSinceBoot, UNCHANGED server, NEW i \in Ids, NEW s, NEW e,
           NEW ms \in [Namespaces -> [Ids -> Nat]],
           \A t \in Namespaces, j \in Ids : j # i => ms[t][j] = members[t][j],
           clients' = [clients EXCEPT ![i] = e], e.ns = s,
           booted' = booted \cup {i},
           members' = IF s \in Namespaces THEN [ms EXCEPT ![s][i] = @ + 1] ELSE ms
    PROVE  ListedSinceBoot'
<1> SUFFICES ASSUME NEW j \in booted', server' = "up", clients'[j].status = "approved",
                    clients'[j].ns \in Namespaces
             PROVE  members'[clients'[j].ns][j] > 0
  BY DEF ListedSinceBoot
<1>1. j \in Ids
  BY DEF TypeOK
<1>2. CASE j = i
  <2>1. clients'[j].ns = s
    BY <1>1, <1>2 DEF TypeOK
  <2> QED BY <1>2, <2>1, MembersOfOthers
<1>3. CASE j # i
  <2> DEFINE t == clients[j].ns
  <2>1. clients'[j] = clients[j] /\ j \in booted
    BY <1>1, <1>3 DEF TypeOK
  <2>2. t \in Namespaces /\ members[t][j] > 0
    BY <2>1 DEF ListedSinceBoot
  <2>3. members'[t][j] = members[t][j]
    BY <1>1, <1>3, <2>2, MembersOfOthers
  <2> QED BY <2>1, <2>2, <2>3
<1> QED BY <1>2, <1>3

LEMMA ListedApprove ==
    ASSUME TypeOK, ListedSinceBoot, UNCHANGED server, NEW i \in Ids, NEW s, NEW ok, Approve(i, s, ok)
    PROVE  ListedSinceBoot'
<1> DEFINE e == [key |-> clients[i].key, status |-> "approved", cert |-> Sign(clients[i].key),
                 ns |-> s]
<1>1. e.ns = s
  OBVIOUS
<1>2. /\ clients' = [clients EXCEPT ![i] = e] /\ booted' = booted \cup {i}
      /\ members' = IF s \in Namespaces THEN [members EXCEPT ![s][i] = @ + 1] ELSE members
  BY DEF Approve, Approved
<1>3. members \in [Namespaces -> [Ids -> Nat]]
  BY DEF TypeOK
<1> HIDE DEF e
<1> QED BY <1>1, <1>2, <1>3, ListedJoins

LEMMA ListedAssign ==
    ASSUME TypeOK, ListedSinceBoot, UNCHANGED server, NEW i \in Ids, NEW s, NEW ok,
           SetClientNamespace(i, s, ok)
    PROVE  ListedSinceBoot'
<1> DEFINE e == [clients[i] EXCEPT !.ns = s]
           ms == Unlist(members, clients[i].ns, i)
<1>1. CASE UNCHANGED <<clients, members, booted>>
  BY <1>1, ListedKept
<1>2. CASE ~UNCHANGED <<clients, members, booted>>
  <2>1. /\ s \in Namespaces
        /\ members' = [ms EXCEPT ![s][i] = @ + 1]
        /\ clients' = [clients EXCEPT ![i] = e]
        /\ booted' = booted \cup {i}
    BY <1>2 DEF SetClientNamespace
  <2>2. members \in [Namespaces -> [Ids -> Nat]] /\ clients[i] \in Records
    BY DEF TypeOK
  <2>3. e.ns = s
    BY <2>2 DEF Records
  <2>4. ms \in [Namespaces -> [Ids -> Nat]]
    BY <2>2, UnlistTypes
  <2>5. \A t \in Namespaces, j \in Ids : j # i => ms[t][j] = members[t][j]
    BY <2>2, UnlistOthers
  <2> HIDE DEF e, ms
  <2> QED BY <2>1, <2>3, <2>4, <2>5, ListedJoins
<1> QED BY <1>1, <1>2

LEMMA ListedStep ==
    ASSUME TypeOK, ListedSinceBoot, [Next]_vars
    PROVE  ListedSinceBoot'
<1>1. CASE UNCHANGED vars
  BY <1>1, ListedKept DEF vars
<1>2. CASE Boot \/ Crash
  <2>1. CASE UNCHANGED <<clients, members, booted>> /\ server' # "up"
    BY <2>1 DEF ListedSinceBoot
  <2>2. CASE booted' = {}
    BY <2>2 DEF ListedSinceBoot
  <2> QED BY <1>2, <2>1, <2>2 DEF Boot, InitCA, GenerateCA, LoadAll, Crash
<1>3. CASE Admin
  <2>1. ASSUME NEW v \in Vouchers, HandleCreateVoucher(v) \/ HandleDeleteVoucher(v)
        PROVE  ListedSinceBoot'
    BY <2>1, ListedKept DEF HandleCreateVoucher, HandleDeleteVoucher, serverVars, recordVars
  <2>2. ASSUME NEW i \in Ids, NEW s, AdminApprove(i, s) \/ AdminAssign(i, s)
        PROVE  ListedSinceBoot'
    BY <2>2, ListedApprove, ListedAssign DEF AdminApprove, AdminAssign, serverVars
  <2>3. ASSUME NEW i \in Ids, AdminRevoke(i)
        PROVE  ListedSinceBoot'
    <3>1. /\ clients' = [clients EXCEPT ![i] = NoEntry] /\ booted' = booted \ {i}
          /\ members' = Unlist(members, clients[i].ns, i) /\ UNCHANGED server
      BY <2>3 DEF AdminRevoke, Delete, serverVars
    <3>2. \A j \in Ids, t \in Namespaces : j # i => members'[t][j] = members[t][j]
      <4>1. members \in [Namespaces -> [Ids -> Nat]]
        BY DEF TypeOK
      <4> QED BY <3>1, <4>1, UnlistOthers
    <3>3. \A j \in booted' : j \in booted /\ j # i /\ j \in Ids /\ clients'[j] = clients[j]
      BY <3>1 DEF TypeOK
    <3> QED BY <3>1, <3>2, <3>3 DEF ListedSinceBoot
  <2> QED BY <1>3, <2>1, <2>2, <2>3 DEF Admin
<1>4. ASSUME NEW r \in DOMAIN request, RequestStep(r)
      PROVE  ListedSinceBoot'
  <2>1. request[r].id \in Ids /\ UNCHANGED server
    <3>1. request[r] \in Requests
      BY DEF TypeOK
    <3>2. request[r].id \in Ids
      BY <3>1 DEF Requests
    <3> QED BY <1>4, <3>2 DEF RequestStep, UseVoucher, RequestAdd, UpdatePublicKey, RequestApprove,
               ResetClientStatus, serverVars
  <2>2. CASE UseVoucher(r)
    BY <2>2, ListedKept DEF UseVoucher, serverVars, recordVars
  <2>3. CASE RequestAdd(r) \/ UpdatePublicKey(r) \/ ResetClientStatus(r)
    <3>1. UNCHANGED <<members, booted>>
      BY <2>3 DEF RequestAdd, UpdatePublicKey, ResetClientStatus
    <3>2. \A k : Entry(k).status # "approved" /\ Rekeyed(request[r].id, k).status # "approved"
      BY DEF Entry, Rekeyed
    <3>3. \A j \in Ids : clients'[j].status = "approved" => clients'[j] = clients[j]
      <4>1. CASE RequestAdd(r)
        BY <2>1, <3>2, <4>1 DEF RequestAdd, TypeOK
      <4>2. CASE UpdatePublicKey(r)
        BY <2>1, <3>2, <4>2 DEF UpdatePublicKey, TypeOK
      <4>3. CASE ResetClientStatus(r)
        <5>1. \A j \in Ids : clients[j] \in Records
          BY DEF TypeOK
        <5>2. \/ UNCHANGED clients
              \/ clients' = [clients EXCEPT ![request[r].id].status = "pending",
                                           ![request[r].id].cert = NoCert]
          BY <4>3 DEF ResetClientStatus
        <5> QED BY <2>1, <5>1, <5>2 DEF TypeOK, Records
      <4> QED BY <2>3, <4>1, <4>2, <4>3
    <3> QED BY <2>1, <3>1, <3>3, ListedKept
  <2>4. CASE RequestApprove(r)
    <3>1. CASE UNCHANGED recordVars
      BY <2>1, <3>1, ListedKept DEF recordVars
    <3>2. CASE ~UNCHANGED recordVars
      BY <2>1, <2>4, <3>2, ListedApprove DEF RequestApprove
    <3> QED BY <3>1, <3>2
  <2> QED BY <1>4, <2>2, <2>3, <2>4 DEF RequestStep
<1>5. ASSUME NEW n \in Nodes, Start(n) \/ Progress(n) \/ NodeCrash(n)
      PROVE  ListedSinceBoot'
  <2>1. CASE Apply(n)
    <3>1. UNCHANGED <<server, members, booted>>
      BY <2>1 DEF Apply, serverVars
    <3>2. \A j \in Ids : clients'[j].status = "approved" => clients'[j] = clients[j]
      BY <2>1 DEF Apply, TypeOK, Entry
    <3> QED BY <3>1, <3>2, ListedKept
  <2>2. CASE Connect(n)
    BY <2>2, ListedAssign, RegistrationAssumption DEF Connect, serverVars
  <2>3. CASE ~Apply(n) /\ ~Connect(n)
    <3>1. UNCHANGED <<serverVars, recordVars>>
      BY <1>5, <2>3 DEF Start, Progress, GenerateKeyPair, CheckApproval, SubmitVoucher,
         VoucherAnswer, RegisterFails, Download, NodeCrash
    <3> QED BY <3>1, ListedKept DEF serverVars, recordVars
  <2> QED BY <2>1, <2>2, <2>3
<1> QED BY <1>1, <1>2, <1>3, <1>4, <1>5 DEF Next

-----------------------------------------------------------------------------
(* Keys: of the records, of the requests and of the clients that wait. *)

RecordsKeyed == RecordsFit(clients) /\ RecordsFit(registry)
RequestsKeyed == \A r \in DOMAIN request : request[r].pc # "answered" => request[r].key # 0
DisksKeyed == \A n \in Nodes :
                /\ disk[n].priv = 0 => disk[n].cert = NoCert
                /\ node[n].pc # "down" => disk[n].priv # 0
                /\ node[n].pc = "public" => disk[n].cert = NoCert
FitInv == KeysHeld /\ RequestsOwned /\ WaitersFit

LEMMA FitParts ==
    /\ FitInv <=> RecordsKeyed /\ RequestsKeyed /\ DisksKeyed /\ RequestsOwned /\ WaitersFit
    /\ FitInv' <=> RecordsKeyed' /\ RequestsKeyed' /\ DisksKeyed' /\ RequestsOwned' /\ WaitersFit'
BY DEF FitInv, KeysHeld, RecordsKeyed, RequestsKeyed, DisksKeyed

\* A step that puts no other key on record.
KeysStay ==
    \A j \in Ids :
        /\ clients'[j].status # "none" =>
             clients[j].status # "none" /\ clients'[j].key = clients[j].key
        /\ registry'[j].status # "none" =>
             \/ registry[j].status # "none" /\ registry'[j].key = registry[j].key
             \/ clients[j].status # "none" /\ registry'[j].key = clients[j].key

LEMMA UnchangedStay ==
    ASSUME UNCHANGED <<clients, registry>>
    PROVE  KeysStay /\ (RecordsKeyed => RecordsKeyed')
BY DEF KeysStay, RecordsKeyed, RecordsFit

LEMMA SavedKeyed ==
    ASSUME RecordsOK, RecordsKeyed, NEW i, NEW e,
           e.status # "none" => e.key # 0, e.status = "approved" => e.cert.key = e.key,
           clients' \in {clients, [clients EXCEPT ![i] = e]},
           registry' \in {registry, [clients EXCEPT ![i] = e]}
    PROVE  RecordsKeyed'
<1> DEFINE new == [clients EXCEPT ![i] = e]
<1>1. \A j \in Ids : new[j] \in {e, clients[j]}
  BY DEF RecordsOK
<1>2. RecordsFit(new) /\ RecordsFit(clients) /\ RecordsFit(registry)
  BY <1>1 DEF RecordsKeyed, RecordsFit
<1>3. clients' \in {clients, new} /\ registry' \in {registry, new}
  OBVIOUS
<1> HIDE DEF new
<1>4. RecordsFit(clients')
  BY <1>2, <1>3
<1>5. RecordsFit(registry')
  BY <1>2, <1>3
<1> QED BY <1>4, <1>5 DEF RecordsKeyed, RecordsFit

LEMMA RecordKeyed ==
    ASSUME RecordsKeyed, NEW i \in Ids
    PROVE  /\ clients[i].status # "none" => clients[i].key # 0
           /\ clients[i].status = "approved" => clients[i].cert.key = clients[i].key
BY DEF RecordsKeyed, RecordsFit

LEMMA SavedStay ==
    ASSUME RecordsOK, NEW i \in Ids, NEW e,
           e.status # "none" => clients[i].status # "none" /\ e.key = clients[i].key,
           clients' \in {clients, [clients EXCEPT ![i] = e]},
           registry' \in {registry, [clients EXCEPT ![i] = e]}
    PROVE  KeysStay
<1> DEFINE new == [clients EXCEPT ![i] = e]
<1>1. \A j \in Ids : new[j].status # "none" =>
        clients[j].status # "none" /\ new[j].key = clients[j].key
  BY DEF RecordsOK
<1>2. clients' \in {clients, new} /\ registry' \in {registry, new}
  OBVIOUS
<1> HIDE DEF new
<1> QED BY <1>1, <1>2 DEF KeysStay

\* Approve, SetClientNamespace, Delete and ResetClientStatus keep the key.
LEMMA ApproveStays ==
    ASSUME RecordsOK, RecordsKeyed, NEW i \in Ids, NEW s, NEW ok, Approve(i, s, ok)
    PROVE  KeysStay /\ RecordsKeyed'
<1> DEFINE e == [key |-> clients[i].key, status |-> "approved", cert |-> Sign(clients[i].key),
                 ns |-> s]
<1>1. e.key = clients[i].key /\ e.cert.key = clients[i].key /\ clients[i].status = "pending"
  BY DEF Sign, Approve
<1>2. clients' = [clients EXCEPT ![i] = e] /\ registry' \in {registry, [clients EXCEPT ![i] = e]}
  BY DEF Approve, Approved, SaveRegistry
<1> HIDE DEF e
<1>3. clients[i].key # 0
  BY <1>1, RecordKeyed
<1>4. KeysStay
  BY <1>1, <1>2, SavedStay
<1>5. RecordsKeyed'
  BY <1>1, <1>2, <1>3, SavedKeyed
<1> QED BY <1>4, <1>5

LEMMA AssignStays ==
    ASSUME RecordsOK, RecordsKeyed, NEW i \in Ids, NEW s, NEW ok, SetClientNamespace(i, s, ok)
    PROVE  KeysStay /\ RecordsKeyed'
<1> DEFINE e == [clients[i] EXCEPT !.ns = s]
<1>1. CASE UNCHANGED <<clients, registry>>
  BY <1>1, UnchangedStay
<1>2. CASE ~UNCHANGED <<clients, registry>>
  <2>1. clients' = [clients EXCEPT ![i] = e] /\ registry' \in {registry, [clients EXCEPT ![i] = e]}
    BY <1>2 DEF SetClientNamespace, SaveRegistry
  <2>2. e.key = clients[i].key /\ e.cert = clients[i].cert /\ e.status = clients[i].status
    BY DEF RecordsOK, Records
  <2> HIDE DEF e
  <2>3. /\ e.status # "none" => e.key # 0 /\ clients[i].status # "none"
        /\ e.status = "approved" => e.cert.key = e.key
    BY <2>2, RecordKeyed
  <2>4. KeysStay
    BY <2>1, <2>2, <2>3, SavedStay
  <2>5. RecordsKeyed'
    BY <2>1, <2>3, SavedKeyed
  <2> QED BY <2>4, <2>5
<1> QED BY <1>1, <1>2

\* A client whose request and files stay as they are, and whose key does.
LEMMA OwnKept ==
    ASSUME NEW n \in Nodes, Id[n] \in Ids, KeysStay, OwnKeyKept(n),
           node'[n].pc = node[n].pc, node'[n].req = node[n].req, disk'[n] = disk[n],
           node[n].pc = "asked" => request'[node[n].req] = request[node[n].req]
    PROVE  OwnKeyKept(n)'
BY DEF OwnKeyKept, OnRecord, KeysStay

\* Other steps of a node, those after which it waits for nothing.
LEMMA OwnEnds ==
    ASSUME NEW n, node'[n].pc \in {"down", "public", "check", "register"}
    PROVE  OwnKeyKept(n)'
BY DEF OwnKeyKept

\* One request changes, but not whose it is and which key it has.
LEMMA RequestFrame ==
    ASSUME TypeOK, FitInv, NEW r \in DOMAIN request, NEW q,
           server = "up", UNCHANGED <<server, disk>>,
           \A n \in Nodes : node'[n].pc = node[n].pc /\ node'[n].req = node[n].req,
           request[r].pc # "answered", q.pc # "answered",
           q.node = request[r].node, q.id = request[r].id, q.key = request[r].key,
           request' = [request EXCEPT ![r] = q]
    PROVE  /\ RequestsKeyed' /\ DisksKeyed' /\ RequestsOwned'
           /\ request'[r] = q
           /\ \A x \in DOMAIN request : x # r => request'[x] = request[x]
<1> USE TypeParts, FitParts
<1>1. /\ DOMAIN request' = DOMAIN request /\ request'[r] = q
      /\ \A x \in DOMAIN request : x # r => request'[x] = request[x]
  BY DEF RequestsOK
<1>2. RequestsKeyed'
  BY <1>1 DEF RequestsKeyed
<1>3. DisksKeyed'
  BY DEF DisksKeyed
<1>4. \A x \in DOMAIN request : /\ request'[x].node = request[x].node /\ request'[x].id = request[x].id
                                /\ request[x].pc # "answered" => request'[x].pc # "answered"
  BY <1>1
<1>5. RequestsOwned'
  BY <1>4 DEF RequestsOwned, AskedOK
<1> QED BY <1>1, <1>2, <1>3, <1>5

LEMMA GotoFields ==
    ASSUME RequestsOK, NEW r \in DOMAIN request, NEW pc, Goto(r, pc)
    PROVE  \E q : /\ q.pc = pc /\ q.node = request[r].node /\ q.id = request[r].id
                  /\ q.key = request[r].key /\ q.cert = request[r].cert
                  /\ request' = [request EXCEPT ![r] = q]
<1> DEFINE q == [request[r] EXCEPT !.pc = pc]
<1>1. request[r] \in Requests
  BY DEF RequestsOK
<1>2. /\ q.pc = pc /\ q.node = request[r].node /\ q.id = request[r].id
      /\ q.key = request[r].key /\ q.cert = request[r].cert
  BY <1>1 DEF Requests
<1>3. request' = [request EXCEPT ![r] = q]
  BY DEF Goto
<1> HIDE DEF q
<1> QED BY <1>2, <1>3

LEMMA FitRestart ==
    ASSUME TypeOK, FitInv, Boot \/ Crash
    PROVE  FitInv'
<1> USE TypeParts, FitParts
<1>1. \A n \in Nodes : Id[n] \in Ids
  BY RegistrationAssumption
<1>2. CASE Boot
  <2>1. /\ UNCHANGED <<registry, request, node, disk>> /\ server # "up"
        /\ clients' \in {clients, registry}
    BY <1>2 DEF Boot, InitCA, GenerateCA, LoadAll, clientVars
  <2>2. RecordsKeyed' /\ RequestsKeyed' /\ DisksKeyed'
    BY <2>1 DEF RecordsKeyed, RecordsFit, RequestsKeyed, DisksKeyed
  <2>3. RequestsOwned'
    BY <2>1 DEF RequestsOwned
  <2>4. ASSUME NEW n \in Nodes, node[n].causes = {}
        PROVE  OwnKeyKept(n)'
    <3>1. OwnKeyKept(n)
      BY <2>4 DEF WaitersFit
    <3>2. node[n].pc = "asked" => request[node[n].req].pc \in {"failed", "answered"}
      BY <2>1 DEF RequestsOwned, AskedOK
    <3> QED BY <2>1, <3>1, <3>2 DEF OwnKeyKept, OnRecord
  <2>5. WaitersFit'
    BY <2>1, <2>4 DEF WaitersFit
  <2> QED BY <2>2, <2>3, <2>5
<1>3. CASE Crash
  <2>1. /\ UNCHANGED <<clients, disk>> /\ server' = "down"
        /\ registry' \in {registry, [i \in Ids |-> NoEntry]}
    BY <1>3 DEF Crash
  <2>2. ASSUME NEW r \in DOMAIN request
        PROVE  /\ request'[r].key = request[r].key /\ request'[r].node = request[r].node
               /\ request'[r].id = request[r].id
               /\ request'[r].pc = IF request[r].pc = "answered" THEN "answered" ELSE "failed"
    <3>1. request[r] \in Requests
      BY DEF RequestsOK
    <3>2. request'[r] = [request[r] EXCEPT !.pc = IF @ = "answered" THEN @ ELSE "failed"]
      BY <1>3 DEF Crash
    <3> QED BY <3>1, <3>2 DEF Requests
  <2>3. DOMAIN request' = DOMAIN request
    BY <1>3 DEF Crash
  <2>4. ASSUME NEW n \in Nodes
        PROVE  /\ node'[n].req = node[n].req /\ node'[n].causes = node[n].causes
               /\ node'[n].pc = IF node[n].pc = "serving" THEN "connect" ELSE node[n].pc
    <3>1. node[n] \in NodeStates
      BY DEF NodesOK
    <3>2. node'[n] = IF node[n].pc = "serving" THEN [node[n] EXCEPT !.pc = "connect"] ELSE node[n]
      BY <1>3 DEF Crash
    <3> QED BY <3>1, <3>2 DEF NodeStates
  <2>5. RecordsKeyed'
    BY <2>1, NoneSigned DEF RecordsKeyed, RecordsFit, NoEntry
  <2>6. RequestsKeyed' /\ DisksKeyed'
    BY <2>1, <2>2, <2>3, <2>4 DEF RequestsKeyed, DisksKeyed
  <2>7. RequestsOwned'
    BY <2>1, <2>2, <2>3, <2>4 DEF RequestsOwned, AskedOK
  <2>8. ASSUME NEW n \in Nodes, node'[n].causes = {}
        PROVE  OwnKeyKept(n)'
    <3>1. OwnKeyKept(n)
      BY <2>4, <2>8 DEF WaitersFit
    <3>2. node[n].pc = "asked" =>
            /\ request'[node[n].req].key = request[node[n].req].key
            /\ request'[node[n].req].pc \in {"failed", "answered"}
      BY <2>2 DEF AskedOK
    <3>3. OnRecord(registry, Id[n], disk[n].priv) => OnRecord(registry', Id[n], disk[n].priv)
      BY <1>1, <2>1 DEF OnRecord, NoEntry
    <3> QED BY <2>1, <2>4, <3>1, <3>2, <3>3 DEF OwnKeyKept, OnRecord
  <2>9. WaitersFit'
    BY <2>8 DEF WaitersFit
  <2> QED BY <2>5, <2>6, <2>7, <2>9
<1> QED BY <1>2, <1>3

\* A step that changes neither clients nor requests, and no key on record.
LEMMA FitStays ==
    ASSUME TypeOK, FitInv, KeysStay, RecordsKeyed', UNCHANGED <<server, request, node, disk>>
    PROVE  FitInv'
<1> USE TypeParts, FitParts
<1>1. RequestsKeyed' /\ DisksKeyed' /\ RequestsOwned'
  BY DEF RequestsKeyed, DisksKeyed, RequestsOwned
<1>2. ASSUME NEW n \in Nodes, node[n].causes = {}
      PROVE  OwnKeyKept(n)'
  BY <1>2, OwnKept, RegistrationAssumption DEF WaitersFit
<1>3. WaitersFit'
  BY <1>2 DEF WaitersFit
<1> QED BY <1>1, <1>3

LEMMA FitAdmin ==
    ASSUME TypeOK, FitInv, Admin
    PROVE  FitInv'
<1> USE TypeParts, FitParts
<1>1. UNCHANGED <<server, request, node, disk>>
  BY DEF Admin, HandleCreateVoucher, HandleDeleteVoucher, AdminApprove, AdminAssign, AdminRevoke,
     clientVars, serverVars
<1>2. ASSUME NEW v \in Vouchers, HandleCreateVoucher(v) \/ HandleDeleteVoucher(v)
      PROVE  KeysStay /\ RecordsKeyed'
  BY <1>2, UnchangedStay DEF HandleCreateVoucher, HandleDeleteVoucher, recordVars
<1>3. ASSUME NEW i \in Ids, NEW s, AdminApprove(i, s) \/ AdminAssign(i, s)
      PROVE  KeysStay /\ RecordsKeyed'
  BY <1>3, ApproveStays, AssignStays DEF AdminApprove, AdminAssign
<1>4. ASSUME NEW i \in Ids, AdminRevoke(i)
      PROVE  KeysStay /\ RecordsKeyed'
  <2>1. clients' = [clients EXCEPT ![i] = NoEntry]
        /\ registry' \in {registry, [clients EXCEPT ![i] = NoEntry]}
    BY <1>4 DEF AdminRevoke, Delete, SaveRegistry
  <2>2. NoEntry.status = "none"
    BY DEF NoEntry
  <2> QED BY <2>1, <2>2, SavedStay, SavedKeyed
<1>5. KeysStay /\ RecordsKeyed'
  BY <1>2, <1>3, <1>4 DEF Admin
<1> QED BY <1>1, <1>5, FitStays

\* A request moves on without a new key on record: UseVoucher, RequestApprove
\* and ResetClientStatus.  Its own client must be looked at.
LEMMA FitMoves ==
    ASSUME TypeOK, FitInv, NEW r \in DOMAIN request, NEW q,
           server = "up", UNCHANGED <<server, disk, node>>, KeysStay, RecordsKeyed',
           request[r].pc # "answered", q.pc # "answered",
           q.node = request[r].node, q.id = request[r].id, q.key = request[r].key,
           request' = [request EXCEPT ![r] = q],
           q.pc \in {"approve", "reset", "again"} => request[r].pc \in {"approve", "reset", "again"},
           q.pc = "done" => \/ request[r].pc = "done" /\ q.cert = request[r].cert
                            \/ /\ request[r].pc \in {"approve", "again"}
                               /\ clients[q.id].status # "none" /\ q.cert.key = clients[q.id].key
    PROVE  FitInv'
<1> USE TypeParts, FitParts
<1>1. /\ RequestsKeyed' /\ DisksKeyed' /\ RequestsOwned'
      /\ request'[r] = q
      /\ \A x \in DOMAIN request : x # r => request'[x] = request[x]
  BY RequestFrame
<1>2. ASSUME NEW n \in Nodes, node[n].causes = {}
      PROVE  OwnKeyKept(n)'
  <2>1. OwnKeyKept(n) /\ Id[n] \in Ids
    BY <1>2, RegistrationAssumption DEF WaitersFit
  <2>2. CASE node[n].pc = "asked" /\ node[n].req = r
    <3>1. q.id = Id[n] /\ q.key = disk[n].priv
      BY <2>1, <2>2 DEF RequestsOwned, OwnKeyKept
    <3>2. q.pc \in {"approve", "reset", "again"} => OnRecord(clients', Id[n], disk[n].priv)
      BY <2>1, <2>2 DEF OwnKeyKept, OnRecord, KeysStay
    <3>3. q.pc = "done" => q.cert.key = disk[n].priv
      BY <2>1, <2>2, <3>1 DEF OwnKeyKept, OnRecord
    <3> QED BY <1>1, <2>2, <3>1, <3>2, <3>3 DEF OwnKeyKept, OnRecord
  <2>3. CASE ~(node[n].pc = "asked" /\ node[n].req = r)
    BY <1>1, <2>1, <2>3, OwnKept DEF AskedOK
  <2> QED BY <2>2, <2>3
<1>3. WaitersFit'
  BY <1>2 DEF WaitersFit
<1> QED BY <1>1, <1>3

\* Overtake gives a cause to everybody who waits for another key of the id.
LEMMA OvertakeCauses ==
    ASSUME NodesOK, NEW r, NEW i, NEW n \in Nodes
    PROVE  /\ Overtake(r, i)[n].causes = {} =>
                /\ node[n].causes = {}
                /\ Id[n] = i /\ node[n].pc = "asked" => node[n].req = r
                /\ Id[n] = i => node[n].pc # "wait"
<1>1. [node[n] EXCEPT !.causes = @ \cup {"overtaken"}].causes # {}
  BY DEF NodesOK, NodeStates
<1> QED BY <1>1 DEF Overtake

\* The records of other ids, when the one of i is replaced.
LEMMA SavedOthers ==
    ASSUME RecordsOK, NEW i, NEW e,
           clients' \in {clients, [clients EXCEPT ![i] = e]},
           registry' \in {registry, [clients EXCEPT ![i] = e]},
           NEW j \in Ids, j # i
    PROVE  clients'[j] = clients[j] /\ registry'[j] \in {registry[j], clients[j]}
BY DEF RecordsOK

\* Request r puts its key on record, and overtakes the others.
LEMMA FitPuts ==
    ASSUME TypeOK, FitInv, NEW r \in DOMAIN request, NEW q, NEW e,
           server = "up", UNCHANGED <<server, disk>>,
           node' = Overtake(r, request[r].id),
           request[r].pc # "answered", q.pc \in {"approve", "failed"},
           q.node = request[r].node, q.id = request[r].id, q.key = request[r].key,
           request' = [request EXCEPT ![r] = q],
           e.key = request[r].key, e.status = "pending",
           clients' = [clients EXCEPT ![request[r].id] = e],
           registry' \in {registry, [clients EXCEPT ![request[r].id] = e]}
    PROVE  FitInv'
<1> USE TypeParts, FitParts
<1>1. request[r] \in Requests
  BY DEF RequestsOK
<1>2. request[r].id \in Ids /\ request[r].key # 0
  BY <1>1 DEF Requests, RequestsKeyed
<1>3. \A n \in Nodes : node'[n].pc = node[n].pc /\ node'[n].req = node[n].req
  BY OvertakeKeeps
<1>4. /\ RequestsKeyed' /\ DisksKeyed' /\ RequestsOwned'
      /\ request'[r] = q
      /\ \A x \in DOMAIN request : x # r => request'[x] = request[x]
  BY <1>3, RequestFrame
<1>5. RecordsKeyed'
  BY <1>2, SavedKeyed
<1>6. ASSUME NEW n \in Nodes, node'[n].causes = {}
      PROVE  OwnKeyKept(n)'
  <2>1. /\ node[n].causes = {}
        /\ Id[n] = request[r].id /\ node[n].pc = "asked" => node[n].req = r
        /\ Id[n] = request[r].id => node[n].pc # "wait"
    BY <1>6, OvertakeCauses
  <2>2. OwnKeyKept(n) /\ Id[n] \in Ids
    BY <2>1, RegistrationAssumption DEF WaitersFit
  <2>3. CASE node[n].pc = "asked" /\ node[n].req = r
    <3>1. q.id = Id[n] /\ q.key = disk[n].priv
      BY <2>2, <2>3 DEF RequestsOwned, OwnKeyKept
    <3>2. clients'[Id[n]] = e
      BY <1>2, <3>1 DEF RecordsOK
    <3>3. OnRecord(clients', Id[n], disk[n].priv)
      BY <3>1, <3>2 DEF OnRecord
    <3> QED BY <1>3, <1>4, <2>3, <3>1, <3>3 DEF OwnKeyKept, OnRecord
  <2>4. CASE node[n].pc \in {"asked", "wait"} /\ ~(node[n].pc = "asked" /\ node[n].req = r)
    <3>1. Id[n] # request[r].id
      BY <2>1, <2>4
    <3>2. clients'[Id[n]] = clients[Id[n]] /\ registry'[Id[n]] \in {registry[Id[n]], clients[Id[n]]}
      <4>1. RecordsOK /\ clients' \in {clients, [clients EXCEPT ![request[r].id] = e]}
        OBVIOUS
      <4> QED BY ONLY <2>2, <3>1, <4>1, SavedOthers,
                      registry' \in {registry, [clients EXCEPT ![request[r].id] = e]}
    <3>3. node[n].pc = "asked" => request'[node[n].req] = request[node[n].req]
      BY <1>4, <2>4 DEF AskedOK
    <3> QED BY <1>3, <2>2, <2>4, <3>2, <3>3 DEF OwnKeyKept, OnRecord
  <2>5. CASE node[n].pc \notin {"asked", "wait"}
    BY <1>3, <2>2, <2>5 DEF OwnKeyKept
  <2> QED BY <2>3, <2>4, <2>5
<1>7. WaitersFit'
  BY <1>6 DEF WaitersFit
<1> QED BY <1>4, <1>5, <1>7

LEMMA FitRequest ==
    ASSUME TypeOK, FitInv, NEW r \in DOMAIN request, RequestStep(r)
    PROVE  FitInv'
<1> USE TypeParts, FitParts
<1> DEFINE i == request[r].id
<1>1. request[r] \in Requests
  BY DEF RequestsOK
<1>2. i \in Ids
  BY <1>1 DEF Requests
<1>3. UNCHANGED <<server, disk>> /\ server = "up"
  BY DEF RequestStep, UseVoucher, RequestAdd, UpdatePublicKey, RequestApprove, ResetClientStatus,
     At, clientVars, serverVars
<1> HIDE DEF i
<1>4. CASE UseVoucher(r)
  <2>1. PICK pc \in {"add", "failed"} : Goto(r, pc)
    BY <1>4 DEF UseVoucher
  <2>2. PICK q : /\ q.pc = pc /\ q.node = request[r].node /\ q.id = request[r].id
                 /\ q.key = request[r].key /\ q.cert = request[r].cert
                 /\ request' = [request EXCEPT ![r] = q]
    BY <2>1, GotoFields
  <2>3. UNCHANGED <<clients, registry, node>> /\ request[r].pc = "use"
    BY <1>4 DEF UseVoucher, recordVars, clientVars, At
  <2>4. KeysStay /\ RecordsKeyed'
    BY <2>3, UnchangedStay
  <2> QED BY <1>3, <2>2, <2>3, <2>4, FitMoves
<1>5. CASE RequestAdd(r) \/ UpdatePublicKey(r)
  <2> DEFINE e == IF request[r].pc = "add" THEN Entry(request[r].key) ELSE Rekeyed(i, request[r].key)
  <2>1. e.key = request[r].key /\ e.status = "pending"
    BY DEF Entry, Rekeyed
  <2>2. request[r].pc \in {"add", "update"}
    BY <1>5 DEF RequestAdd, UpdatePublicKey, At
  <2>3. \E pc \in {"approve", "failed", "update"} :
          /\ Goto(r, pc)
          /\ \/ UNCHANGED <<clients, registry, node>> /\ pc \in {"failed", "update"}
             \/ /\ pc \in {"approve", "failed"}
                /\ node' = Overtake(r, i)
                /\ clients' = [clients EXCEPT ![i] = e]
                /\ registry' \in {registry, [clients EXCEPT ![i] = e]}
    <3>1. CASE RequestAdd(r)
      <4>1. e = Entry(request[r].key)
        BY <3>1 DEF RequestAdd, At
      <4> HIDE DEF e
      <4> QED BY <3>1, <4>1 DEF RequestAdd, SaveRegistry, i
    <3>2. CASE UpdatePublicKey(r)
      <4>1. e = Rekeyed(i, request[r].key)
        BY <3>2 DEF UpdatePublicKey, At
      <4> HIDE DEF e
      <4> QED BY <3>2, <4>1 DEF UpdatePublicKey, SaveRegistry, i
    <3> QED BY <1>5, <3>1, <3>2
  <2> HIDE DEF e
  <2>4. PICK pc \in {"approve", "failed", "update"} :
          /\ Goto(r, pc)
          /\ \/ UNCHANGED <<clients, registry, node>> /\ pc \in {"failed", "update"}
             \/ /\ pc \in {"approve", "failed"}
                /\ node' = Overtake(r, i)
                /\ clients' = [clients EXCEPT ![i] = e]
                /\ registry' \in {registry, [clients EXCEPT ![i] = e]}
    BY <2>3
  <2>5. PICK q : /\ q.pc = pc /\ q.node = request[r].node /\ q.id = request[r].id
                 /\ q.key = request[r].key /\ q.cert = request[r].cert
                 /\ request' = [request EXCEPT ![r] = q]
    BY <2>4, GotoFields
  <2>6. CASE UNCHANGED <<clients, registry, node>> /\ pc \in {"failed", "update"}
    <3>1. KeysStay /\ RecordsKeyed'
      BY <2>6, UnchangedStay
    <3> QED BY <1>3, <2>2, <2>5, <2>6, <3>1, FitMoves
  <2>7. CASE /\ pc \in {"approve", "failed"}
             /\ node' = Overtake(r, i)
             /\ clients' = [clients EXCEPT ![i] = e]
             /\ registry' \in {registry, [clients EXCEPT ![i] = e]}
    BY <1>3, <2>1, <2>2, <2>5, <2>7, FitPuts DEF i
  <2> QED BY <2>4, <2>6, <2>7
<1>6. CASE RequestApprove(r)
  <2>1. request[r].pc \in {"approve", "again"} /\ UNCHANGED node
    BY <1>6 DEF RequestApprove, At, clientVars
  <2>2. ASSUME NEW pc \in {"failed", "reset"}, Goto(r, pc), UNCHANGED recordVars
        PROVE  FitInv'
    <3>1. PICK q : /\ q.pc = pc /\ q.node = request[r].node /\ q.id = request[r].id
                   /\ q.key = request[r].key /\ q.cert = request[r].cert
                   /\ request' = [request EXCEPT ![r] = q]
      BY <2>2, GotoFields
    <3>2. KeysStay /\ RecordsKeyed'
      BY <2>2, UnchangedStay DEF recordVars
    <3> QED BY <1>3, <2>1, <3>1, <3>2, FitMoves
  <2>3. ASSUME NEW ok \in Writes, Approve(i, "permanent", ok),
               request' = [request EXCEPT ![r].pc = IF ok THEN "done" ELSE "failed",
                                          ![r].cert = Sign(clients[i].key)]
        PROVE  FitInv'
    <3> DEFINE q == [request[r] EXCEPT !.pc = IF ok THEN "done" ELSE "failed",
                                       !.cert = Sign(clients[i].key)]
    <3>1. /\ q.pc \in {"done", "failed"} /\ q.node = request[r].node /\ q.id = request[r].id
          /\ q.key = request[r].key /\ q.cert = Sign(clients[i].key)
      BY <1>1 DEF Requests
    <3>2. request' = [request EXCEPT ![r] = q]
      BY <1>1, <2>3 DEF RequestsOK
    <3>3. q.cert.key = clients[i].key
      BY <3>1 DEF Sign
    <3>4. clients[i].status = "pending"
      BY <2>3 DEF Approve
    <3>5. KeysStay /\ RecordsKeyed'
      BY <1>2, <2>3, ApproveStays
    <3> HIDE DEF q
    <3> QED BY <1>3, <2>1, <3>1, <3>2, <3>3, <3>4, <3>5, FitMoves DEF i
  <2> QED BY <1>6, <2>2, <2>3 DEF RequestApprove, i
<1>7. CASE ResetClientStatus(r)
  <2> DEFINE e == [clients[i] EXCEPT !.status = "pending", !.cert = NoCert]
  <2>1. Goto(r, "again") /\ request[r].pc = "reset" /\ UNCHANGED node
    BY <1>7 DEF ResetClientStatus, At, clientVars
  <2>2. PICK q : /\ q.pc = "again" /\ q.node = request[r].node /\ q.id = request[r].id
                 /\ q.key = request[r].key /\ q.cert = request[r].cert
                 /\ request' = [request EXCEPT ![r] = q]
    BY <2>1, GotoFields
  <2>3. clients[i] \in Records
    BY <1>2 DEF RecordsOK
  <2>4. e.key = clients[i].key /\ e.status = "pending"
    BY <2>3 DEF Records
  <2>5. [clients EXCEPT ![i].status = "pending", ![i].cert = NoCert] = [clients EXCEPT ![i] = e]
    BY <1>2, <2>3 DEF RecordsOK, Records
  <2> HIDE DEF e
  <2>6. \/ UNCHANGED <<clients, registry>>
        \/ /\ clients[i].status # "none"
           /\ clients' = [clients EXCEPT ![i] = e]
           /\ registry' \in {registry, [clients EXCEPT ![i] = e]}
    BY <1>7, <2>5 DEF ResetClientStatus, SaveRegistry, i
  <2>7. KeysStay /\ RecordsKeyed'
    <3>1. CASE UNCHANGED <<clients, registry>>
      BY <3>1, UnchangedStay
    <3>2. CASE /\ clients[i].status # "none"
               /\ clients' = [clients EXCEPT ![i] = e]
               /\ registry' \in {registry, [clients EXCEPT ![i] = e]}
      <4>1. clients[i].key # 0
        BY <1>2, <3>2, RecordKeyed
      <4>2. KeysStay
        BY <1>2, <2>4, <3>2, SavedStay
      <4>3. RecordsKeyed'
        BY <2>4, <3>2, <4>1, SavedKeyed
      <4> QED BY <4>2, <4>3
    <3> QED BY <2>6, <3>1, <3>2
  <2> QED BY <1>3, <2>1, <2>2, <2>7, FitMoves
<1> QED BY <1>4, <1>5, <1>6, <1>7 DEF RequestStep

\* Only node n and its files change; the requests that others wait for stay.
LEMMA FitNode ==
    ASSUME TypeOK, FitInv, NEW n \in Nodes, UNCHANGED server, KeysStay, RecordsKeyed',
           RequestsKeyed', RequestsOwned',
           \A m \in Nodes \ {n} : /\ node'[m] = node[m] /\ disk'[m] = disk[m]
                                  /\ node[m].pc = "asked" =>
                                       request'[node[m].req] = request[node[m].req],
           disk'[n].priv # 0, node'[n].pc = "public" => disk'[n].cert = NoCert,
           node'[n].causes = {} => OwnKeyKept(n)'
    PROVE  FitInv'
<1> USE TypeParts, FitParts
<1>1. DisksKeyed'
  BY DEF DisksKeyed
<1>2. ASSUME NEW m \in Nodes, m # n, node'[m].causes = {}
      PROVE  OwnKeyKept(m)'
  <2>1. node'[m] = node[m] /\ disk'[m] = disk[m]
        /\ (node[m].pc = "asked" => request'[node[m].req] = request[node[m].req])
    BY <1>2
  <2>2. OwnKeyKept(m) /\ Id[m] \in Ids
    BY <1>2, <2>1, RegistrationAssumption DEF WaitersFit
  <2> QED BY <2>1, <2>2, OwnKept
<1>3. WaitersFit'
  BY <1>2 DEF WaitersFit
<1> QED BY <1>1, <1>3

\* The requests stay, and the node does not begin to wait for one.
LEMMA OwnedKept ==
    ASSUME TypeOK, FitInv, UNCHANGED <<server, request>>,
           \A m \in Nodes : node'[m].pc = "asked" =>
               node[m].pc = "asked" /\ node'[m].req = node[m].req
    PROVE  RequestsKeyed' /\ RequestsOwned'
<1> USE TypeParts, FitParts
<1>1. RequestsKeyed'
  BY DEF RequestsKeyed
<1>2. RequestsOwned'
  BY DEF RequestsOwned
<1> QED BY <1>1, <1>2

\* Step changes the place of one node.
LEMMA StepFields ==
    ASSUME NodesOK, NEW n \in Nodes, NEW pc, Step(n, pc)
    PROVE  /\ node'[n].pc = pc /\ node'[n].req = node[n].req /\ node'[n].causes = node[n].causes
           /\ \A m \in Nodes \ {n} : node'[m] = node[m]
<1>1. node[n] \in NodeStates
  BY DEF NodesOK
<1>2. LET x == [node[n] EXCEPT !.pc = pc] IN
      x.pc = pc /\ x.req = node[n].req /\ x.causes = node[n].causes
  BY <1>1 DEF NodeStates
<1>3. node' = [node EXCEPT ![n] = [node[n] EXCEPT !.pc = pc]]
  BY DEF Step
<1> QED BY <1>2, <1>3 DEF NodesOK

\* The steps that leave the records and the requests alone.
LEMMA FitQuiet ==
    ASSUME TypeOK, FitInv, NEW n \in Nodes,
           \/ Start(n) \/ GenerateKeyPair(n) \/ CheckApproval(n) \/ RegisterFails(n)
           \/ Download(n) \/ Connect(n) \/ NodeCrash(n)
    PROVE  FitInv'
<1> USE TypeParts, FitParts
<1>1. UNCHANGED <<server, request>>
  BY DEF Start, GenerateKeyPair, CheckApproval, RegisterFails, Download, Connect, NodeCrash,
     serverVars
<1>2. disk[n] \in Files /\ Id[n] \in Ids
  BY RegistrationAssumption DEF DiskOK
<1>3. KeysStay /\ RecordsKeyed'
  <2>1. CASE Connect(n)
    BY <1>2, <2>1, AssignStays DEF Connect
  <2>2. CASE UNCHANGED recordVars
    BY <2>2, UnchangedStay DEF recordVars
  <2> QED BY <2>1, <2>2 DEF Start, GenerateKeyPair, CheckApproval, RegisterFails, Download, NodeCrash
<1>4. ASSUME \A m \in Nodes \ {n} : node'[m] = node[m] /\ disk'[m] = disk[m],
             node'[n].pc # "asked", disk'[n].priv # 0,
             node'[n].pc = "public" => disk'[n].cert = NoCert,
             node'[n].causes = {} => OwnKeyKept(n)'
      PROVE  FitInv'
  <2>1. RequestsKeyed' /\ RequestsOwned'
    BY <1>1, <1>4, OwnedKept
  <2>2. \A m \in Nodes \ {n} : /\ node'[m] = node[m] /\ disk'[m] = disk[m]
                               /\ node[m].pc = "asked" =>
                                    request'[node[m].req] = request[node[m].req]
    BY <1>1, <1>4
  <2> QED BY <1>1, <1>3, <1>4, <2>1, <2>2, FitNode
<1>5. CASE Start(n)
  <2> DEFINE d == disk[n]
             mismatch == d.cert # NoCert /\ d.priv # 0 /\ ~Fits(d.cert, d.priv)
  <2>1. CASE mismatch \/ d.priv = 0
    <3>1. disk' = [disk EXCEPT ![n] = [priv |-> keys + 1, pub |-> d.pub,
                                       cert |-> IF mismatch THEN NoCert ELSE d.cert]]
      BY <1>5, <2>1 DEF Start
    <3>2. node' = [node EXCEPT ![n] = [pc |-> "public", req |-> 0, causes |-> {}]]
      BY <1>5, <2>1 DEF Start
    <3>3. (IF mismatch THEN NoCert ELSE d.cert) = NoCert
      BY <2>1 DEF DisksKeyed
    <3>4. disk'[n].priv # 0 /\ disk'[n].cert = NoCert
      BY <3>1, <3>3 DEF DiskOK
    <3>5. node'[n].pc = "public"
      BY <3>2 DEF NodesOK
    <3>6. \A m \in Nodes \ {n} : node'[m] = node[m] /\ disk'[m] = disk[m]
      BY <3>1, <3>2
    <3> QED BY <1>4, <3>4, <3>5, <3>6, OwnEnds
  <2>2. CASE ~(mismatch \/ d.priv = 0)
    <3>1. UNCHANGED disk /\ Step(n, IF d.cert = NoCert THEN "check" ELSE "connect")
      BY <1>5, <2>2 DEF Start
    <3>2. /\ node'[n].pc = IF d.cert = NoCert THEN "check" ELSE "connect"
          /\ \A m \in Nodes \ {n} : node'[m] = node[m]
      BY <3>1, StepFields
    <3>3. node'[n].pc = "connect" => d.cert.key = d.priv
      BY <2>2, <3>2 DEF Fits
    <3>4. OwnKeyKept(n)'
      BY <3>1, <3>2, <3>3 DEF OwnKeyKept
    <3> QED BY <1>4, <2>2, <3>1, <3>2, <3>4
  <2> QED BY <2>1, <2>2
<1>6. CASE GenerateKeyPair(n)
  <2>1. disk[n].cert = NoCert /\ disk[n].priv # 0
    BY <1>6 DEF GenerateKeyPair, DisksKeyed
  <2>2. Step(n, "register") /\ disk' = [disk EXCEPT ![n] = [disk[n] EXCEPT !.pub = disk[n].priv]]
    BY <1>6, <2>1 DEF GenerateKeyPair
  <2>3. [disk[n] EXCEPT !.pub = disk[n].priv].priv = disk[n].priv
    BY <1>2 DEF Files
  <2>4. disk'[n].priv # 0 /\ \A m \in Nodes \ {n} : disk'[m] = disk[m]
    BY <2>1, <2>2, <2>3 DEF DiskOK
  <2>5. node'[n].pc = "register" /\ \A m \in Nodes \ {n} : node'[m] = node[m]
    BY <2>2, StepFields
  <2> QED BY <1>4, <2>4, <2>5, OwnEnds
<1>7. ASSUME NEW c, disk' = [disk EXCEPT ![n].cert = c], Step(n, "connect"), node[n].pc # "down",
             node[n].causes = {} => c.key = disk[n].priv
      PROVE  FitInv'
  <2>1. disk[n].priv # 0
    BY <1>7 DEF DisksKeyed
  <2>2. LET x == [disk[n] EXCEPT !.cert = c] IN x.priv = disk[n].priv /\ x.cert = c
    BY <1>2 DEF Files
  <2>3. /\ disk'[n].priv = disk[n].priv /\ disk'[n].cert = c
        /\ \A m \in Nodes \ {n} : disk'[m] = disk[m]
    BY <1>7, <2>2 DEF DiskOK
  <2>4. /\ node'[n].pc = "connect" /\ node'[n].causes = node[n].causes
        /\ \A m \in Nodes \ {n} : node'[m] = node[m]
    BY <1>7, StepFields
  <2>5. node'[n].causes = {} => OwnKeyKept(n)'
    BY <1>7, <2>3, <2>4 DEF OwnKeyKept
  <2> QED BY <1>4, <2>1, <2>3, <2>4, <2>5
<1>8. ASSUME Step(n, "register") \/ Step(n, "down"), UNCHANGED disk, node[n].pc # "down"
      PROVE  FitInv'
  <2>1. disk'[n].priv # 0
    BY <1>8 DEF DisksKeyed
  <2>2. node'[n].pc \in {"register", "down"} /\ \A m \in Nodes \ {n} : node'[m] = node[m]
    BY <1>8, StepFields
  <2> QED BY <1>4, <1>8, <2>1, <2>2, OwnEnds
<1>9. CASE CheckApproval(n)
  <2>1. node[n].pc = "check"
    BY <1>9 DEF CheckApproval
  <2>2. \/ Step(n, "register") /\ UNCHANGED disk
        \/ /\ Fits(clients[Id[n]].cert, disk[n].priv)
           /\ disk' = [disk EXCEPT ![n].cert = clients[Id[n]].cert] /\ Step(n, "connect")
    BY <1>9 DEF CheckApproval
  <2> QED BY <1>7, <1>8, <2>1, <2>2 DEF Fits
<1>10. CASE RegisterFails(n) \/ NodeCrash(n)
  BY <1>8, <1>10 DEF RegisterFails, NodeCrash
<1>11. CASE Download(n)
  <2>1. /\ node[n].pc = "wait" /\ clients[Id[n]].status = "approved" /\ Step(n, "connect")
        /\ disk' = [disk EXCEPT ![n].cert = clients[Id[n]].cert]
    BY <1>11 DEF Download
  <2>2. clients[Id[n]].cert.key = clients[Id[n]].key
    BY <1>2, <2>1, RecordKeyed
  <2>3. node[n].causes = {} => clients[Id[n]].key = disk[n].priv
    BY <2>1 DEF WaitersFit, OwnKeyKept, OnRecord
  <2> QED BY <1>7, <2>1, <2>2, <2>3
<1>12. CASE Connect(n)
  <2>1. /\ disk[n].cert.key = disk[n].priv /\ disk[n].priv # 0
        /\ Step(n, "serving") /\ UNCHANGED disk
    BY <1>12 DEF Connect, Fits
  <2>2. node'[n].pc = "serving" /\ \A m \in Nodes \ {n} : node'[m] = node[m]
    BY <2>1, StepFields
  <2>3. OwnKeyKept(n)'
    BY <2>1, <2>2 DEF OwnKeyKept
  <2> QED BY <1>4, <2>1, <2>2, <2>3
<1> QED BY <1>5, <1>6, <1>9, <1>10, <1>11, <1>12

LEMMA FitSubmit ==
    ASSUME TypeOK, FitInv, NEW n \in Nodes, SubmitVoucher(n)
    PROVE  FitInv'
<1> USE TypeParts, FitParts
<1> DEFINE q == [pc |-> "use", node |-> n, id |-> Id[n], voucher |-> VoucherOf[n],
                 key |-> disk[n].pub, cert |-> NoCert]
           x == [pc |-> "asked", req |-> Len(request) + 1, causes |-> node[n].causes \cup Causes(n)]
<1>1. /\ UNCHANGED <<server, clients, registry, disk>> /\ server = "up"
      /\ node[n].pc = "register" /\ disk[n].pub # 0
      /\ request' = Append(request, q) /\ node' = [node EXCEPT ![n] = x]
  BY DEF SubmitVoucher, serverVars, recordVars
<1>2. q.pc = "use" /\ q.node = n /\ q.id = Id[n] /\ q.key = disk[n].pub
  OBVIOUS
<1>3. /\ x.pc = "asked" /\ x.req = Len(request) + 1
      /\ x.causes = {} => disk[n].pub = disk[n].priv
  BY DEF Causes
<1> HIDE DEF q, x
<1>4. Len(request) \in Nat /\ DOMAIN request = 1..Len(request)
  BY DEF RequestsOK
<1>5. /\ DOMAIN request' = 1..Len(request) + 1 /\ request'[Len(request) + 1] = q
      /\ \A r \in DOMAIN request : request'[r] = request[r]
  BY <1>1, <1>4 DEF RequestsOK
<1>6. node'[n] = x /\ \A m \in Nodes \ {n} : node'[m] = node[m]
  BY <1>1 DEF NodesOK
<1>7. KeysStay /\ RecordsKeyed'
  BY <1>1, UnchangedStay
<1>8. \A r \in DOMAIN request' : r \in DOMAIN request \/ r = Len(request) + 1
  BY <1>4, <1>5
<1>9. RequestsKeyed'
  BY <1>1, <1>2, <1>5, <1>8 DEF RequestsKeyed
<1>10. \A m \in Nodes \ {n} : node[m].pc = "asked" => request'[node[m].req] = request[node[m].req]
  BY <1>5 DEF AskedOK
<1>11. RequestsOwned'
  <2>1. ASSUME NEW m \in Nodes, node'[m].pc = "asked"
        PROVE  LET z == request'[node'[m].req] IN z.node = m /\ z.id = Id[m] /\ z.pc # "answered"
    <3>1. CASE m = n
      BY <1>2, <1>3, <1>5, <1>6, <3>1
    <3>2. CASE m # n
      BY <1>6, <1>10, <2>1, <3>2 DEF RequestsOwned
    <3> QED BY <3>1, <3>2
  <2> QED BY <1>1, <2>1 DEF RequestsOwned
<1>12. node'[n].causes = {} => OwnKeyKept(n)'
  BY <1>1, <1>2, <1>3, <1>5, <1>6 DEF OwnKeyKept
<1>13. disk'[n].priv # 0 /\ node'[n].pc # "public"
  BY <1>1, <1>3, <1>6 DEF DisksKeyed
<1>14. \A m \in Nodes \ {n} : /\ node'[m] = node[m] /\ disk'[m] = disk[m]
                              /\ node[m].pc = "asked" =>
                                   request'[node[m].req] = request[node[m].req]
  BY <1>1, <1>6, <1>10
<1> QED BY <1>1, <1>7, <1>9, <1>11, <1>12, <1>13, <1>14, FitNode

\* Two clients never wait for the same request.
LEMMA FitAnswer ==
    ASSUME TypeOK, FitInv, NEW n \in Nodes, VoucherAnswer(n)
    PROVE  FitInv'
<1> USE TypeParts, FitParts
<1> DEFINE r == node[n].req
           q == [request[r] EXCEPT !.pc = "answered", !.key = 0, !.cert = NoCert]
<1>1. r \in DOMAIN request /\ request[r] \in Requests /\ node[n].pc = "asked" /\ disk[n] \in Files
  BY DEF VoucherAnswer, AskedOK, RequestsOK, DiskOK
<1>2. q.pc = "answered"
  BY <1>1 DEF Requests
<1>3. request' = [request EXCEPT ![r] = q]
  <2>1. request' = [request EXCEPT ![r].pc = "answered", ![r].key = 0, ![r].cert = NoCert]
    BY DEF VoucherAnswer
  <2> QED BY <1>1, <2>1 DEF RequestsOK
<1>4. UNCHANGED <<server, clients, registry>>
  BY DEF VoucherAnswer, serverVars, recordVars
<1>5. \/ /\ request[r].pc = "done" /\ Step(n, "connect")
         /\ disk' = [disk EXCEPT ![n].cert = request[r].cert]
      \/ Step(n, "down") /\ UNCHANGED disk
  BY DEF VoucherAnswer
<1>6. request[r].node = n
  BY <1>1 DEF RequestsOwned
<1>7. /\ node[n].causes = {} /\ request[r].pc = "done" => request[r].cert.key = disk[n].priv
      /\ disk[n].priv # 0
  BY <1>1 DEF WaitersFit, OwnKeyKept, DisksKeyed
<1> HIDE DEF q, r
<1>8. /\ DOMAIN request' = DOMAIN request /\ request'[r] = q
      /\ \A y \in DOMAIN request : y # r => request'[y] = request[y]
  BY <1>1, <1>3 DEF RequestsOK
<1>9. KeysStay /\ RecordsKeyed'
  BY <1>4, UnchangedStay
<1>10. RequestsKeyed'
  BY <1>2, <1>8 DEF RequestsKeyed
<1>11. \A m \in Nodes \ {n} : node[m].pc = "asked" =>
         node[m].req # r /\ request'[node[m].req] = request[node[m].req]
  BY <1>6, <1>8 DEF RequestsOwned, AskedOK
<1>12. /\ node'[n].pc \in {"connect", "down"} /\ node'[n].causes = node[n].causes
       /\ node'[n].pc = "connect" => /\ request[r].pc = "done"
                                     /\ disk' = [disk EXCEPT ![n].cert = request[r].cert]
       /\ \A m \in Nodes \ {n} : node'[m] = node[m]
  <2>1. CASE Step(n, "connect")
    BY <1>5, <2>1, StepFields
  <2>2. CASE Step(n, "down")
    BY <1>5, <2>2, StepFields
  <2> QED BY <1>5, <2>1, <2>2
<1>13. /\ disk'[n].priv = disk[n].priv /\ \A m \in Nodes \ {n} : disk'[m] = disk[m]
       /\ node'[n].pc = "connect" => disk'[n].cert = request[r].cert
  <2>1. LET z == [disk[n] EXCEPT !.cert = request[r].cert] IN
        z.priv = disk[n].priv /\ z.cert = request[r].cert
    BY <1>1 DEF Files
  <2> QED BY <1>5, <1>12, <2>1 DEF DiskOK
<1>14. RequestsOwned'
  <2>1. ASSUME NEW m \in Nodes, node'[m].pc = "asked"
        PROVE  LET z == request'[node'[m].req] IN z.node = m /\ z.id = Id[m] /\ z.pc # "answered"
    <3>1. m # n
      BY <1>12, <2>1
    <3> QED BY <1>11, <1>12, <2>1, <3>1 DEF RequestsOwned
  <2>2. server' # "up" => \A y \in DOMAIN request' : request'[y].pc \in {"failed", "answered"}
    BY <1>2, <1>4, <1>8 DEF RequestsOwned
  <2> QED BY <2>1, <2>2 DEF RequestsOwned
<1>15. node'[n].causes = {} => OwnKeyKept(n)'
  BY <1>7, <1>12, <1>13 DEF OwnKeyKept
<1>16. \A m \in Nodes \ {n} : /\ node'[m] = node[m] /\ disk'[m] = disk[m]
                              /\ node[m].pc = "asked" =>
                                   request'[node[m].req] = request[node[m].req]
  BY <1>11, <1>12, <1>13
<1>17. disk'[n].priv # 0 /\ node'[n].pc # "public"
  BY <1>7, <1>12, <1>13
<1> QED BY <1>4, <1>9, <1>10, <1>14, <1>15, <1>16, <1>17, FitNode

LEMMA FitApply ==
    ASSUME TypeOK, FitInv, NEW n \in Nodes, Apply(n)
    PROVE  FitInv'
<1> USE TypeParts, FitParts
<1> DEFINE i == Id[n]
           e == Entry(disk[n].pub)
           taken == clients[i].status # "none"
           base(ok) == IF taken \/ ~ok THEN node ELSE Overtake(0, i)
           more == Causes(n) \cup (IF taken THEN {"taken"} ELSE {})
<1>1. /\ UNCHANGED <<server, request, disk>> /\ disk[n].pub # 0 /\ i \in Ids
      /\ node[n].pc = "register"
  BY RegistrationAssumption DEF Apply, serverVars
<1>2. PICK ok \in Writes :
        /\ IF taken THEN ok /\ UNCHANGED <<clients, registry, faults>>
           ELSE /\ clients' = IF ok THEN [clients EXCEPT ![i] = e] ELSE clients
                /\ SaveRegistry(ok, [clients EXCEPT ![i] = e])
        /\ node' = [base(ok) EXCEPT ![n].pc = IF taken \/ ok THEN "wait" ELSE "down",
                                     ![n].causes = @ \cup Causes(n)
                                         \cup (IF taken THEN {"taken"} ELSE {})]
  BY DEF Apply
<1>3. e.key = disk[n].pub /\ e.status = "pending"
  BY DEF Entry
<1>4. more = {} => ~taken /\ disk[n].pub = disk[n].priv
  BY DEF Causes
<1>5. /\ base(ok) \in [Nodes -> NodeStates]
      /\ \A m \in Nodes : base(ok)[m].pc = node[m].pc /\ base(ok)[m].req = node[m].req
  BY OvertakeKeeps DEF NodesOK
<1>6. \A m \in Nodes : base(ok)[m].causes = {} =>
        /\ node[m].causes = {}
        /\ ok /\ ~taken /\ Id[m] = i => node[m].pc \notin {"asked", "wait"}
  <2>1. CASE taken \/ ~ok
    BY <2>1
  <2>2. CASE ~(taken \/ ~ok)
    <3>1. \A m \in Nodes : node[m].pc = "asked" => node[m].req # 0
      BY DEF AskedOK, RequestsOK
    <3>2. base(ok) = Overtake(0, i)
      BY <2>2
    <3> HIDE DEF base, taken, i
    <3> QED BY <3>1, <3>2, OvertakeCauses
  <2> QED BY <2>1, <2>2
<1>7. /\ node'[n].pc = IF taken \/ ok THEN "wait" ELSE "down"
      /\ node'[n].causes = {} => more = {}
      /\ \A m \in Nodes \ {n} : node'[m] = base(ok)[m]
  <2>1. base(ok)[n] \in NodeStates
    BY <1>5
  <2> HIDE DEF base
  <2>2. LET y == [base(ok)[n] EXCEPT !.pc = IF taken \/ ok THEN "wait" ELSE "down",
                                     !.causes = @ \cup Causes(n)
                                         \cup (IF taken THEN {"taken"} ELSE {})] IN
        /\ y.pc = IF taken \/ ok THEN "wait" ELSE "down"
        /\ y.causes = {} => more = {}
        /\ node' = [base(ok) EXCEPT ![n] = y]
    BY <1>2, <1>5, <2>1 DEF NodeStates
  <2> QED BY <1>5, <2>2
<1> HIDE DEF base, e, more
<1>8. /\ clients' \in {clients, [clients EXCEPT ![i] = e]}
      /\ registry' \in {registry, [clients EXCEPT ![i] = e]}
      /\ (taken \/ ~ok) => UNCHANGED <<clients, registry>>
      /\ ok /\ ~taken => /\ clients' = [clients EXCEPT ![i] = e]
                         /\ registry' = [clients EXCEPT ![i] = e]
  BY <1>2 DEF SaveRegistry
<1>9. RecordsKeyed'
  BY <1>1, <1>3, <1>8, SavedKeyed
<1>10. RequestsKeyed' /\ RequestsOwned'
  BY <1>1, <1>5, <1>7, OwnedKept
<1>11. DisksKeyed'
  BY <1>1, <1>5, <1>7 DEF DisksKeyed
<1>12. ASSUME NEW m \in Nodes, m # n, node'[m].causes = {}
       PROVE  OwnKeyKept(m)'
  <2>1. /\ node'[m].pc = node[m].pc /\ node'[m].req = node[m].req /\ node[m].causes = {}
        /\ ok /\ ~taken /\ Id[m] = i => node[m].pc \notin {"asked", "wait"}
    BY <1>5, <1>6, <1>7, <1>12
  <2>2. OwnKeyKept(m) /\ Id[m] \in Ids
    BY <2>1, RegistrationAssumption DEF WaitersFit
  <2>3. CASE node[m].pc \in {"asked", "wait"}
    <3>1. clients'[Id[m]] = clients[Id[m]] /\ registry'[Id[m]] \in {registry[Id[m]], clients[Id[m]]}
      BY <1>8, <2>1, <2>2, <2>3 DEF RecordsOK
    <3> QED BY <1>1, <2>1, <2>2, <2>3, <3>1 DEF OwnKeyKept, OnRecord
  <2>4. CASE node[m].pc \notin {"asked", "wait"}
    BY <1>1, <2>1, <2>2, <2>4 DEF OwnKeyKept
  <2> QED BY <2>3, <2>4
<1>13. ASSUME node'[n].causes = {}
       PROVE  OwnKeyKept(n)'
  <2>1. ~taken /\ disk[n].pub = disk[n].priv
    BY <1>4, <1>7, <1>13
  <2>2. CASE ok
    <3>1. clients'[i] = e /\ registry'[i] = e
      BY <1>1, <1>8, <2>1, <2>2 DEF RecordsOK
    <3> QED BY <1>1, <1>3, <1>7, <2>1, <2>2, <3>1 DEF OwnKeyKept, OnRecord
  <2>3. CASE ~ok
    BY <1>7, <2>1, <2>3, OwnEnds
  <2> QED BY <2>2, <2>3
<1>14. WaitersFit'
  BY <1>12, <1>13 DEF WaitersFit
<1> QED BY <1>9, <1>10, <1>11, <1>14

\* The inductive invariant of the keys: what an approved record certifies, what
\* a request carries and what a client without a cause waits for is one key.
THEOREM KeysInvariant == Spec => []FitInv
<1>1. ASSUME Init PROVE FitInv
  <2>1. RecordsKeyed /\ RequestsKeyed
    BY <1>1 DEF Init, RecordsKeyed, RecordsFit, NoEntry, RequestsKeyed
  <2>2. DisksKeyed /\ RequestsOwned
    BY <1>1 DEF Init, DisksKeyed, RequestsOwned
  <2>3. WaitersFit
    BY <1>1 DEF Init, WaitersFit, OwnKeyKept
  <2> QED BY <2>1, <2>2, <2>3, FitParts
<1>2. ASSUME TypeOK, FitInv, [Next]_vars PROVE FitInv'
  <2>1. CASE UNCHANGED vars
    <3>1. KeysStay /\ (RecordsKeyed => RecordsKeyed')
      BY <2>1, UnchangedStay DEF vars
    <3> QED BY <1>2, <2>1, <3>1, FitStays, FitParts DEF vars
  <2>2. CASE Boot \/ Crash \/ Admin
    BY <1>2, <2>2, FitRestart, FitAdmin
  <2>3. ASSUME NEW r \in DOMAIN request, RequestStep(r) PROVE FitInv'
    BY <1>2, <2>3, FitRequest
  <2>4. ASSUME NEW n \in Nodes, Start(n) \/ Progress(n) \/ NodeCrash(n) PROVE FitInv'
    BY <1>2, <2>4, FitQuiet, FitSubmit, FitAnswer, FitApply DEF Progress
  <2> QED BY <1>2, <2>1, <2>2, <2>3, <2>4 DEF Next
<1> QED BY <1>1, <1>2, RegistrationTypes, PTL DEF Spec

\* The whole invariant of the registration (auth.go, register.go): an approved
\* record fits its certificate, a client is listed where its record says since
\* the server started, a client that cannot connect has one of three causes,
\* and vouchers, authority and keys are accounted for.
THEOREM RegistrationIsSound == Spec => []RegistrationInv
<1>1. Init => ListedSinceBoot
  BY DEF Init, ListedSinceBoot
<1>2. TypeOK /\ ListedSinceBoot /\ [Next]_vars => ListedSinceBoot'
  BY ListedStep
<1>3. Spec => []ListedSinceBoot
  BY <1>1, <1>2, RegistrationTypes, PTL DEF Spec
<1>4. FitInv => ApprovedFits
  BY DEF FitInv, KeysHeld, RecordsFit, ApprovedFits, Fits
<1>5. FitInv => MismatchHasCause
  BY DEF FitInv, KeysHeld, WaitersFit, OwnKeyKept, MismatchHasCause, Fits
<1>6. TypeOK /\ SpendInv /\ AuthorityAccounted /\ ListedSinceBoot /\ FitInv => RegistrationInv
  BY <1>4, <1>5 DEF SpendInv, FitInv, RegistrationInv
<1> QED BY <1>3, <1>6, RegistrationTypes, SpendInvariant, AuthorityInvariant, KeysInvariant, PTL
=============================================================================
