---------------------------- MODULE Registration ----------------------------
(***************************************************************************)
(* How a client gets its certificate: the client's start (client.go,       *)
(* register.go), the registration requests of the HTTP server (http/       *)
(* server.go) and the authentication manager with its files (auth/auth.go).*)
(* Keys are numbered as they are generated; a certificate is the key it    *)
(* certifies and the authority that signed it.  The manager's functions    *)
(* hold its lock, a request is a sequence of them.                         *)
(***************************************************************************)
EXTENDS Naturals, Sequences

CONSTANTS
    Nodes,        \* installations of the client
    Ids,          \* client ids
    Id,           \* Id[n]: the id node n is configured with
    VoucherOf,    \* VoucherOf[n]: its voucher, or NoVoucher
    Vouchers,     \* voucher codes
    NoVoucher,
    MaxUses,      \* MaxUses[v], 0 for no limit
    Namespaces,   \* default namespaces
    MaxKeys,      \* bound: key pairs ever generated
    MaxRequests,  \* bound: voucher requests
    MaxFaults     \* bound: crashes of server and nodes, and failed writes

ASSUME RegistrationAssumption ==
    /\ Id \in [Nodes -> Ids]
    /\ VoucherOf \in [Nodes -> Vouchers \cup {NoVoucher}] /\ NoVoucher \notin Vouchers
    /\ MaxUses \in [Vouchers -> Nat]
    /\ "permanent" \in Namespaces
    /\ MaxKeys \in Nat /\ MaxRequests \in Nat /\ MaxFaults \in Nat

Keys == 1..MaxKeys
NoCert == [key |-> 0, ca |-> 0]
NoEntry == [key |-> 0, status |-> "none", cert |-> NoCert, ns |-> "permanent"]
Unlisted == [s \in Namespaces |-> [i \in Ids |-> 0]]
NoVouchers == [v \in Vouchers |-> [known |-> FALSE, used |-> 0]]

VARIABLES
    server,     \* "down", "authority" (between the two files) or "up"
    ca,         \* the authority in memory: its certificate and its key
    caFile,     \* ca.crt and ca.key, 0 when missing
    clients,    \* clients[i]: the record of an id
    registry,   \* registry.json
    vouchers,   \* vouchers[v]: known, used
    voucherFile,\* vouchers.json
    members,    \* members[s][i]: how often namespace s lists i
    request,    \* the voucher requests: where each one is
    node,       \* node[n]: where Run is, the request it waits for, its cause of a mismatch
    disk,       \* disk[n]: private key, public key and certificate of a node
    keys,       \* key pairs generated
    issued,     \* issued[v]: requests that voucher v has paid for
    booted,     \* ids approved or connected since the server started
    crashes, faults

vars == <<server, ca, caFile, clients, registry, vouchers, voucherFile, members,
          request, node, disk, keys, issued, booted, crashes, faults>>
serverVars == <<server, ca, caFile, crashes>>
voucherVars == <<vouchers, voucherFile, issued>>
clientVars == <<node, disk, keys>>
recordVars == <<clients, registry, members, booted>>

Init ==
    /\ server = "down" /\ ca = [cert |-> 0, key |-> 0] /\ caFile = [cert |-> 0, key |-> 0]
    /\ clients = [i \in Ids |-> NoEntry] /\ registry = clients
    /\ vouchers = NoVouchers /\ voucherFile = NoVouchers
    /\ members = Unlisted
    /\ request = <<>>
    /\ node = [n \in Nodes |-> [pc |-> "down", req |-> 0, causes |-> {}]]
    /\ disk = [n \in Nodes |-> [priv |-> 0, pub |-> 0, cert |-> NoCert]]
    /\ keys = 0
    /\ issued = [v \in Vouchers |-> 0]
    /\ booted = {}
    /\ crashes = 0 /\ faults = 0

-----------------------------------------------------------------------------
(* The files of the manager *)

\* A write of a file succeeds, or fails and leaves the old content.
Writes == {TRUE} \cup (IF crashes + faults < MaxFaults THEN {FALSE} ELSE {})
Counted(ok) == faults' = IF ok THEN faults ELSE faults + 1

SaveRegistry(ok, new) == registry' = IF ok THEN new ELSE registry
SaveVouchers(ok, new) == voucherFile' = IF ok THEN new ELSE voucherFile

\* Init of the manager: the authority is loaded if both files are there, and
\* otherwise generated, certificate first; then the registry and the vouchers
\* are loaded.  The namespaces start without members.
LoadAll ==
    /\ clients' = registry
    /\ vouchers' = voucherFile
    /\ members' = Unlisted
    /\ booted' = {}
    /\ server' = "up"

\* Mutated form of CAExists: the key file is not looked for.
CertExists == caFile.cert # 0
CAExists == caFile.cert # 0 /\ caFile.key # 0

InitCA ==
    /\ server = "down"
    /\ IF CAExists
       THEN /\ ca' = caFile
            /\ LoadAll
            /\ UNCHANGED caFile
       ELSE /\ caFile' = [caFile EXCEPT !.cert = crashes + 1]
            /\ server' = "authority"
            /\ UNCHANGED <<ca, clients, vouchers, members, booted>>
    /\ UNCHANGED <<registry, voucherFile, request, clientVars, issued, crashes, faults>>

GenerateCA ==
    /\ server = "authority"
    /\ caFile' = [caFile EXCEPT !.key = crashes + 1]
    /\ ca' = caFile'
    /\ LoadAll
    /\ UNCHANGED <<registry, voucherFile, request, clientVars, issued, crashes, faults>>

\* A crash ends every request.  One in the middle of a save leaves a file that
\* cannot be parsed, which is read as an empty one.
Crash ==
    /\ server # "down" /\ crashes + faults < MaxFaults
    /\ server' = "down"
    /\ crashes' = crashes + 1
    /\ registry' \in {registry, [i \in Ids |-> NoEntry]}
    /\ voucherFile' \in {voucherFile, NoVouchers}
    /\ registry' = registry \/ voucherFile' = voucherFile
    /\ request' = [r \in DOMAIN request |->
                     [request[r] EXCEPT !.pc = IF @ = "answered" THEN @ ELSE "failed"]]
    /\ node' = [n \in Nodes |-> IF node[n].pc = "serving"
                                THEN [node[n] EXCEPT !.pc = "connect"] ELSE node[n]]
    /\ UNCHANGED <<ca, caFile, clients, vouchers, members, disk, keys, issued, booted, faults>>

-----------------------------------------------------------------------------
(* Vouchers *)

\* CreateVoucher: the code is new; a voucher that cannot be saved is dropped.
CreateVoucher(v, ok) ==
    LET new == [vouchers EXCEPT ![v] = [known |-> TRUE, used |-> 0]] IN
    /\ ~vouchers[v].known /\ issued[v] = 0
    /\ vouchers' = IF ok THEN new ELSE vouchers
    /\ SaveVouchers(ok, new)

\* DeleteVoucher: gone from memory even if the file keeps it.
DeleteVoucher(v, ok) ==
    LET new == [vouchers EXCEPT ![v] = NoVouchers[v]] IN
    /\ vouchers[v].known
    /\ vouchers' = new
    /\ SaveVouchers(ok, new)

HandleCreateVoucher(v) ==
    /\ server = "up"
    /\ \E ok \in Writes : CreateVoucher(v, ok) /\ Counted(ok)
    /\ UNCHANGED <<serverVars, recordVars, request, clientVars, issued>>

HandleDeleteVoucher(v) ==
    /\ server = "up"
    /\ \E ok \in Writes : DeleteVoucher(v, ok) /\ Counted(ok)
    /\ UNCHANGED <<serverVars, recordVars, request, clientVars, issued>>

\* Mutated form of Usable: the last use is counted too late.
UsableOnceMore(v) == /\ vouchers[v].known
                     /\ MaxUses[v] = 0 \/ vouchers[v].used <= MaxUses[v]

\* Time is not modelled: a voucher may be found expired at any time.
Usable(v) == /\ vouchers[v].known
             /\ MaxUses[v] = 0 \/ vouchers[v].used < MaxUses[v]

-----------------------------------------------------------------------------
(* The records of the clients *)

Entry(k) == [key |-> k, status |-> "pending", cert |-> NoCert, ns |-> "permanent"]

\* signClientCertificate: the certificate of a key, by the authority's key.
Sign(k) == [key |-> k, ca |-> ca.key]

Approved(i, s) == [clients EXCEPT ![i] =
    [key |-> clients[i].key, status |-> "approved", cert |-> Sign(clients[i].key), ns |-> s]]

\* Approve: the id joins its namespace, if that exists, even when it is listed
\* already; a failed save is reported, but the record stays approved.
Approve(i, s, ok) ==
    /\ clients[i].status = "pending"
    /\ clients' = Approved(i, s)
    /\ members' = IF s \in Namespaces THEN [members EXCEPT ![s][i] = @ + 1] ELSE members
    /\ SaveRegistry(ok, clients')
    /\ booted' = booted \cup {i}
    /\ Counted(ok)

\* One occurrence is taken out of the list of a namespace.
Unlist(ms, s, i) ==
    IF s \in Namespaces /\ ms[s][i] > 0 THEN [ms EXCEPT ![s][i] = @ - 1] ELSE ms

\* SetClientNamespace, called by handleAssignNamespace and on every connection.
SetClientNamespace(i, s, ok) ==
    IF clients[i].status = "none" \/ s \notin Namespaces
    THEN UNCHANGED <<clients, members, registry, faults, booted>>
    ELSE /\ members' = [Unlist(members, clients[i].ns, i) EXCEPT ![s][i] = @ + 1]
         /\ clients' = [clients EXCEPT ![i].ns = s]
         /\ SaveRegistry(ok, clients')
         /\ booted' = booted \cup {i}
         /\ Counted(ok)

AdminApprove(i, s) ==
    /\ server = "up"
    /\ \E ok \in Writes : Approve(i, s, ok)
    /\ UNCHANGED <<serverVars, voucherVars, request, clientVars>>

AdminAssign(i, s) ==
    /\ server = "up" /\ clients[i].status # "none" /\ clients[i].ns # s
    /\ \E ok \in Writes : SetClientNamespace(i, s, ok)
    /\ UNCHANGED <<serverVars, voucherVars, request, clientVars>>

\* Delete: the record is gone from memory even if the file keeps it.
Delete(i, ok) ==
    /\ clients[i].status # "none"
    /\ clients' = [clients EXCEPT ![i] = NoEntry]
    /\ members' = Unlist(members, clients[i].ns, i)
    /\ SaveRegistry(ok, clients')
    /\ booted' = booted \ {i}

AdminRevoke(i) ==
    /\ server = "up"
    /\ \E ok \in Writes : Delete(i, ok) /\ Counted(ok)
    /\ UNCHANGED <<serverVars, voucherVars, request, clientVars>>

-----------------------------------------------------------------------------
(* handleRegisterVoucher *)

\* History: a key was put on record by request r (0: by an application).  The
\* nodes with the same id that wait for the answer to another one are overtaken.
Overtake(r, i) ==
    [n \in Nodes |-> IF /\ Id[n] = i /\ node[n].pc \in {"asked", "wait"}
                        /\ ~(node[n].pc = "asked" /\ node[n].req = r)
                     THEN [node[n] EXCEPT !.causes = @ \cup {"overtaken"}] ELSE node[n]]

At(r, pc) == /\ server = "up" /\ r \in DOMAIN request /\ request[r].pc = pc
Goto(r, pc) == request' = [request EXCEPT ![r].pc = pc]

\* The use is counted and saved before anything else; it is not given back
\* when a later step fails.
UseVoucher(r) ==
    LET v == request[r].voucher IN
    /\ At(r, "use")
    /\ \/ \E ok \in Writes :
          LET new == [vouchers EXCEPT ![v].used = @ + 1] IN
          /\ Usable(v)
          /\ vouchers' = IF ok THEN new ELSE vouchers
          /\ SaveVouchers(ok, new)
          /\ Counted(ok)
          /\ issued' = [issued EXCEPT ![v] = IF ok THEN @ + 1 ELSE @]
          /\ Goto(r, IF ok THEN "add" ELSE "failed")
       \/ /\ Goto(r, "failed")
          /\ UNCHANGED <<voucherVars, faults>>
    /\ UNCHANGED <<serverVars, recordVars, clientVars>>

\* AddApplication, and if the id is taken, in a second step, UpdatePublicKey.
RequestAdd(r) ==
    LET i == request[r].id IN
    /\ At(r, "add")
    /\ \E ok \in Writes :
       LET new == [clients EXCEPT ![i] = Entry(request[r].key)] IN
       IF clients[i].status = "none"
       THEN /\ clients' = IF ok THEN new ELSE clients
            /\ SaveRegistry(ok, new)
            /\ Counted(ok)
            /\ Goto(r, IF ok THEN "approve" ELSE "failed")
            /\ node' = IF ok THEN Overtake(r, i) ELSE node
       ELSE /\ ok
            /\ Goto(r, "update")
            /\ UNCHANGED <<clients, registry, faults, node>>
    /\ UNCHANGED <<serverVars, voucherVars, members, booted, disk, keys>>

\* Mutated form of Rekeyed: the approval of the old key is kept.
RekeyedOnly(i, k) == [clients[i] EXCEPT !.key = k]
\* The record waits for approval again and loses its certificate.
Rekeyed(i, k) == [Entry(k) EXCEPT !.ns = clients[i].ns]

UpdatePublicKey(r) ==
    LET i == request[r].id IN
    /\ At(r, "update")
    /\ \E ok \in Writes :
       LET new == [clients EXCEPT ![i] = Rekeyed(i, request[r].key)] IN
       IF clients[i].status # "none"
       THEN /\ clients' = new
            /\ SaveRegistry(ok, new)
            /\ Counted(ok)
            /\ Goto(r, IF ok THEN "approve" ELSE "failed")
            /\ node' = Overtake(r, i)
       ELSE /\ ok
            /\ Goto(r, "failed")
            /\ UNCHANGED <<clients, registry, faults, node>>
    /\ UNCHANGED <<serverVars, voucherVars, members, booted, disk, keys>>

\* Mutated form of CannotApprove: a record that is gone is not noticed.
CannotApproveTwice(r) ==
    clients[request[r].id].status = "approved" /\ request[r].pc = "again"
CannotApprove(r) ==
    \/ clients[request[r].id].status = "none"
    \/ clients[request[r].id].status = "approved" /\ request[r].pc = "again"

\* Approve; when somebody else approved the record meanwhile it is reset, in
\* a step of its own, and approved once more.
RequestApprove(r) ==
    LET i == request[r].id IN
    /\ At(r, "approve") \/ At(r, "again")
    /\ \/ \E ok \in Writes :
          /\ Approve(i, "permanent", ok)
          /\ request' = [request EXCEPT ![r].pc = IF ok THEN "done" ELSE "failed",
                                        ![r].cert = Sign(clients[i].key)]
       \/ /\ CannotApprove(r)
          /\ Goto(r, "failed")
          /\ UNCHANGED <<recordVars, faults>>
       \/ /\ clients[i].status = "approved" /\ request[r].pc = "approve"
          /\ Goto(r, "reset")
          /\ UNCHANGED <<recordVars, faults>>
    /\ UNCHANGED <<serverVars, voucherVars, clientVars>>

ResetClientStatus(r) ==
    LET i == request[r].id
        new == [clients EXCEPT ![i].status = "pending", ![i].cert = NoCert] IN
    /\ At(r, "reset")
    /\ \E ok \in Writes :
       IF clients[i].status = "none" THEN ok /\ UNCHANGED <<clients, registry, faults>>
       ELSE /\ clients' = new
            /\ SaveRegistry(ok, new)
            /\ Counted(ok)
    /\ Goto(r, "again")
    /\ UNCHANGED <<serverVars, voucherVars, members, booted, clientVars>>

-----------------------------------------------------------------------------
(* Run of a client *)

Fits(c, k) == c.key = k /\ k # 0
Step(n, pc) == node' = [node EXCEPT ![n].pc = pc]

\* The process starts: a certificate that does not fit the key is removed with
\* the key, and a missing key is generated, the private half first.
Start(n) ==
    LET d == disk[n]
        mismatch == d.cert # NoCert /\ d.priv # 0 /\ ~Fits(d.cert, d.priv)
        cert == IF mismatch THEN NoCert ELSE d.cert IN
    /\ node[n].pc = "down"
    /\ IF mismatch \/ d.priv = 0
       THEN /\ keys < MaxKeys
            /\ keys' = keys + 1
            /\ disk' = [disk EXCEPT ![n] = [priv |-> keys + 1, pub |-> d.pub, cert |-> cert]]
            /\ node' = [node EXCEPT ![n] = [pc |-> "public", req |-> 0, causes |-> {}]]
       ELSE /\ Step(n, IF cert = NoCert THEN "check" ELSE "connect")
            /\ UNCHANGED <<disk, keys>>
    /\ UNCHANGED <<serverVars, recordVars, voucherVars, request, faults>>

GenerateKeyPair(n) ==
    /\ node[n].pc = "public"
    /\ disk' = [disk EXCEPT ![n].pub = disk[n].priv]
    /\ Step(n, IF disk[n].cert = NoCert THEN "register" ELSE "connect")
    /\ UNCHANGED <<serverVars, recordVars, voucherVars, request, keys, faults>>

\* With an old key the server is asked first; what it has is taken only if it
\* fits.  A failed query is not different from a pending record.
CheckApproval(n) ==
    LET e == clients[Id[n]] IN
    /\ node[n].pc = "check"
    /\ IF server = "up" /\ e.status = "approved" /\ Fits(e.cert, disk[n].priv)
       THEN /\ disk' = [disk EXCEPT ![n].cert = e.cert]
            /\ Step(n, "connect")
       ELSE /\ Step(n, "register")
            /\ UNCHANGED disk
    /\ UNCHANGED <<serverVars, recordVars, voucherVars, request, keys, faults>>

\* Why the key the client registers may not be its own, or not stay on record.
Causes(n) == (IF disk[n].pub # disk[n].priv THEN {"half_pair"} ELSE {})

\* submitVoucherRegistration: the request is on its way.
SubmitVoucher(n) ==
    /\ node[n].pc = "register" /\ VoucherOf[n] # NoVoucher
    /\ server = "up" /\ disk[n].pub # 0
    /\ Len(request) < MaxRequests
    /\ request' = Append(request, [pc |-> "use", node |-> n, id |-> Id[n], voucher |-> VoucherOf[n],
                                   key |-> disk[n].pub, cert |-> NoCert])
    /\ node' = [node EXCEPT ![n] = [pc |-> "asked", req |-> Len(request) + 1,
                                    causes |-> @.causes \cup Causes(n)]]
    /\ UNCHANGED <<serverVars, recordVars, voucherVars, disk, keys, faults>>

\* The answer arrives: the certificate is saved, or the process exits.
VoucherAnswer(n) ==
    LET r == node[n].req IN
    /\ node[n].pc = "asked"
    /\ \/ /\ request[r].pc = "done"
          /\ disk' = [disk EXCEPT ![n].cert = request[r].cert]
          /\ Step(n, "connect")
       \/ /\ request[r].pc = "failed"
          /\ Step(n, "down")
          /\ UNCHANGED disk
    /\ request' = [request EXCEPT ![r].pc = "answered", ![r].key = 0, ![r].cert = NoCert]
    /\ UNCHANGED <<serverVars, recordVars, voucherVars, keys, faults>>

\* submitRegistration and handleRegisterApply; if the id is taken the client
\* waits for the approval of whatever is on record.
Apply(n) ==
    LET i == Id[n]
        new == [clients EXCEPT ![i] = Entry(disk[n].pub)]
        taken == clients[i].status # "none" IN
    /\ node[n].pc = "register" /\ VoucherOf[n] = NoVoucher
    /\ server = "up" /\ disk[n].pub # 0
    /\ \E ok \in Writes :
       /\ IF taken THEN ok /\ UNCHANGED <<clients, registry, faults>>
          ELSE /\ clients' = IF ok THEN new ELSE clients
               /\ SaveRegistry(ok, new)
               /\ Counted(ok)
       /\ node' = [IF taken \/ ~ok THEN node ELSE Overtake(0, i) EXCEPT
                      ![n].pc = IF taken \/ ok THEN "wait" ELSE "down",
                      ![n].causes = @ \cup Causes(n)
                          \cup (IF taken THEN {"taken"} ELSE {})]
    /\ UNCHANGED <<serverVars, voucherVars, members, booted, request, disk, keys>>

\* Nothing to read, or nobody to talk to: the process exits.
RegisterFails(n) ==
    /\ node[n].pc = "register"
    /\ server # "up" \/ disk[n].pub = 0
    /\ Step(n, "down")
    /\ UNCHANGED <<serverVars, recordVars, voucherVars, request, disk, keys, faults>>

\* waitForApprovalAndDownloadCert: whatever certificate the record has.
Download(n) ==
    /\ node[n].pc = "wait" /\ server = "up"
    /\ clients[Id[n]].status = "approved"
    /\ disk' = [disk EXCEPT ![n].cert = clients[Id[n]].cert]
    /\ Step(n, "connect")
    /\ UNCHANGED <<serverVars, recordVars, voucherVars, request, keys, faults>>

\* connectAndServe and handleRegister of the session: with a certificate that
\* does not fit, the client tries for ever.
Connect(n) ==
    /\ node[n].pc = "connect" /\ server = "up"
    /\ Fits(disk[n].cert, disk[n].priv)
    /\ Step(n, "serving")
    /\ \E ok \in Writes : SetClientNamespace(Id[n], "permanent", ok)
    /\ UNCHANGED <<serverVars, voucherVars, request, disk, keys>>

NodeCrash(n) ==
    /\ node[n].pc # "down" /\ crashes + faults < MaxFaults
    /\ faults' = faults + 1
    /\ Step(n, "down")
    /\ UNCHANGED <<serverVars, recordVars, voucherVars, request, disk, keys>>

-----------------------------------------------------------------------------
RequestStep(r) == \/ UseVoucher(r) \/ RequestAdd(r) \/ UpdatePublicKey(r)
                  \/ RequestApprove(r) \/ ResetClientStatus(r)
Boot == InitCA \/ GenerateCA
Admin == \/ \E v \in Vouchers : HandleCreateVoucher(v) \/ HandleDeleteVoucher(v)
         \/ \E i \in Ids, s \in Namespaces \cup {"unknown"} : AdminApprove(i, s)
         \/ \E i \in Ids, s \in Namespaces : AdminAssign(i, s)
         \/ \E i \in Ids : AdminRevoke(i)
Progress(n) == \/ GenerateKeyPair(n) \/ CheckApproval(n) \/ SubmitVoucher(n)
               \/ VoucherAnswer(n) \/ Apply(n) \/ RegisterFails(n) \/ Download(n) \/ Connect(n)

Next == \/ Boot \/ Crash \/ Admin
        \/ \E r \in DOMAIN request : RequestStep(r)
        \/ \E n \in Nodes : Start(n) \/ Progress(n) \/ NodeCrash(n)

Spec == Init /\ [][Next]_vars

\* The server is restarted after a crash, its requests run to their end and a
\* started client goes on; nobody has to approve or to start anything.
FairSpec == /\ Spec /\ WF_vars(Boot)
            /\ \A r \in 1..MaxRequests : WF_vars(RequestStep(r))
            /\ \A n \in Nodes : WF_vars(Progress(n))

-----------------------------------------------------------------------------
(* Properties *)

Certs == [key : 0..MaxKeys, ca : 0..MaxFaults + 1]
Records == [key : 0..MaxKeys, status : {"none", "pending", "approved"}, cert : Certs,
            ns : Namespaces \cup {"unknown"}]

Requests == [pc : {"use", "add", "update", "approve", "reset", "again", "done", "failed", "answered"},
             node : Nodes, id : Ids, voucher : Vouchers, key : 0..MaxKeys, cert : Certs]
Pairs == [cert : 0..MaxFaults + 1, key : 0..MaxFaults + 1]
VoucherTable == [Vouchers -> [known : BOOLEAN, used : Nat]]

\* The type of the state.
TypeOK ==
    /\ server \in {"down", "authority", "up"}
    /\ ca \in Pairs /\ caFile \in Pairs
    /\ clients \in [Ids -> Records] /\ registry \in [Ids -> Records]
    /\ vouchers \in VoucherTable /\ voucherFile \in VoucherTable
    /\ issued \in [Vouchers -> Nat]
    /\ members \in [Namespaces -> [Ids -> Nat]]
    /\ request \in Seq(Requests)
    /\ node \in [Nodes -> [pc : {"down", "public", "check", "register", "asked", "wait",
                                "connect", "serving"},
                          req : Nat, causes : SUBSET {"half_pair", "taken", "overtaken"}]]
    /\ \A n \in Nodes : node[n].pc = "asked" => node[n].req \in DOMAIN request
    /\ disk \in [Nodes -> [priv : 0..MaxKeys, pub : 0..MaxKeys, cert : Certs]]
    /\ keys \in 0..MaxKeys
    /\ booted \subseteq Ids
    /\ crashes \in Nat /\ faults \in Nat /\ crashes + faults <= MaxFaults

\* A voucher pays for no more registrations than it was made for, however its
\* requests overlap, whatever save fails and wherever the server crashes.
VoucherNotOverspent ==
    \A v \in Vouchers : MaxUses[v] # 0 => issued[v] <= MaxUses[v]

\* Its inductive form: every registration a voucher has paid for is counted in
\* the memory and in the file, as long as they know the voucher at all
\* (UseVoucher saves before it answers, auth.go:419).
Covers(table) == \A v \in Vouchers : table[v].known => issued[v] <= table[v].used
VouchersCovered == Covers(vouchers) /\ Covers(voucherFile)

\* The record of an approved client, in memory and on disk, has the
\* certificate of the key it names: not of the key it had before it was
\* registered again, and not of the key of an overlapping registration.
ApprovedFits ==
    \A i \in Ids, e \in {clients, registry} :
        e[i].status = "approved" => Fits(e[i].cert, e[i].key)

\* A running server signs with the key that belongs to its authority, and
\* every certificate in a record or on a client verifies against it: the
\* authority survives restarts, and one that was half written when the server
\* crashed is replaced before it has signed anything.
AuthorityKept ==
    server = "up" =>
        /\ ca.cert = ca.key
        /\ \A i \in Ids : clients[i].status = "approved" => clients[i].cert.ca = ca.cert
        /\ \A n \in Nodes : disk[n].cert # NoCert => disk[n].cert.ca = ca.cert

\* Its inductive form: the two files of the authority belong together once the
\* second is written, a running server has loaded them, and every certificate
\* that exists was signed by them; before that there is none.
Signed(c) == c # NoCert => caFile.key # 0 /\ c.ca = caFile.key
SignedRecords(e) ==
    \A i \in Ids : Signed(e[i].cert) /\ (e[i].status = "approved" => e[i].cert # NoCert)
AuthorityAccounted ==
    /\ caFile.key # 0 => caFile.cert = caFile.key
    /\ server = "authority" => caFile.cert = crashes + 1 /\ caFile.key = 0
    /\ server = "up" => ca = caFile /\ caFile.key # 0
    /\ SignedRecords(clients) /\ SignedRecords(registry)
    /\ \A n \in Nodes : Signed(disk[n].cert)
    /\ \A r \in DOMAIN request : Signed(request[r].cert)

\* An approved client that was approved or has connected since the server
\* started is listed in the namespace of its record, although members are
\* added more than once and are not saved.
ListedSinceBoot ==
    \A i \in booted :
        server = "up" /\ clients[i].status = "approved" /\ clients[i].ns \in Namespaces
            => members[clients[i].ns][i] > 0

\* A client ends up with a certificate that does not fit its key, with which it
\* tries to connect for ever, only in three ways: it crashed between the two
\* halves of its key pair, its id was on record already and it has no voucher,
\* or another registration of the id, its own of before a restart included, put
\* a key on record while it waited.
MismatchHasCause ==
    \A n \in Nodes :
        node[n].pc = "connect" /\ ~Fits(disk[n].cert, disk[n].priv) => node[n].causes # {}

\* Its inductive form: a key that is on record, in a request or that a running
\* client goes on with is there; a client that waits for an answer waits for its
\* own request; and as long as a client has no cause its key is the one on
\* record from the moment it is put there, the one of its request and, once it
\* has one, of its certificate.
RecordsFit(e) == \A i \in Ids : /\ e[i].status # "none" => e[i].key # 0
                                /\ e[i].status = "approved" => e[i].cert.key = e[i].key
KeysHeld ==
    /\ RecordsFit(clients) /\ RecordsFit(registry)
    /\ \A r \in DOMAIN request : request[r].pc # "answered" => request[r].key # 0
    /\ \A n \in Nodes :
         /\ disk[n].priv = 0 => disk[n].cert = NoCert
         /\ node[n].pc # "down" => disk[n].priv # 0
         /\ node[n].pc = "public" => disk[n].cert = NoCert
RequestsOwned ==
    /\ \A n \in Nodes : node[n].pc = "asked" =>
         LET q == request[node[n].req] IN q.node = n /\ q.id = Id[n] /\ q.pc # "answered"
    /\ server # "up" => \A r \in DOMAIN request : request[r].pc \in {"failed", "answered"}
OnRecord(e, i, k) == e[i].status # "none" => e[i].key = k
OwnKeyKept(n) ==
    LET k == disk[n].priv  q == request[node[n].req] IN
    /\ node[n].pc = "wait" => OnRecord(clients, Id[n], k) /\ OnRecord(registry, Id[n], k)
    /\ node[n].pc = "asked" =>
         /\ q.key = k
         /\ q.pc \in {"approve", "reset", "again"} => OnRecord(clients, Id[n], k)
         /\ q.pc = "done" => q.cert.key = k
    /\ node[n].pc \in {"connect", "serving"} => disk[n].cert.key = k
WaitersFit == \A n \in Nodes : node[n].causes = {} => OwnKeyKept(n)

\* The invariant of the records: what Approve, UpdatePublicKey (auth.go:497),
\* SetClientNamespace and Delete leave of a record, its certificate and the
\* member lists fits together after every interleaving of requests, and a
\* client that cannot connect has one of the three causes; with the accounts of
\* vouchers and of the authority.
RegistrationInv == /\ TypeOK /\ ApprovedFits /\ ListedSinceBoot /\ MismatchHasCause
                   /\ VouchersCovered /\ AuthorityAccounted
                   /\ KeysHeld /\ RequestsOwned /\ WaitersFit

\* A client that waits for the answer to its voucher gets one: every request
\* ends, also when it finds its record approved, gone or changed by others.
VoucherIsAnswered ==
    \A n \in Nodes : node[n].pc = "asked" ~> node[n].pc # "asked"
=============================================================================
