--------------------------- MODULE LegacyRegistry ---------------------------
(***************************************************************************)
(* The client registry of AuthWorker (BBgrid_Server/workers/auth.go): the  *)
(* record of every node and the member lists of the namespaces, all of it  *)
(* under one mutex.  Every change is saved before the mutex is released, so *)
(* the files are not shown apart from the memory; keys and certificates    *)
(* are those of the Registration module and are left out.                  *)
(***************************************************************************)
EXTENDS Naturals, Sequences, FiniteSets

CONSTANT Clients

VARIABLES
    record,     \* [Clients -> status and namespace of the node's record]
    members     \* [Namespaces -> the nodes its list holds]

registryVars == <<record, members>>

Namespaces == {"temporary", "permanent"}

NoRecord == [status |-> "none", ns |-> "none"]

Records == [status : {"none", "pending", "approved", "temp"},
            ns : Namespaces \cup {"none"}]

RegistryTypeOK ==
    /\ record \in [Clients -> Records]
    /\ members \in [Namespaces -> SUBSET Clients]

(* loadRegistry: the registry file holds approved nodes, and temporary     *)
(* ones if the server went down before their connections were closed.      *)
LoadRegistry(file) ==
    [c \in Clients |-> CASE file[c] = "approved" -> [status |-> "approved", ns |-> "permanent"]
                         [] file[c] = "temp" -> [status |-> "temp", ns |-> "temporary"]
                         [] OTHER -> NoRecord]

(* initDefaultNamespaces: the lists were saved with the records; a default *)
(* namespace that the file lacks gets an empty list.                       *)
InitDefaultNamespaces(r) ==
    [n \in Namespaces |-> {c \in Clients : r[c].ns = n}]

(* cleanupTempClients takes the temporary nodes out of both.               *)
CleanupTempClients(r) ==
    [c \in Clients |-> IF r[c].status = "temp" THEN NoRecord ELSE r[c]]

(* Init of the worker.                                                     *)
RegistryInit ==
    \E file \in [Clients -> {"none", "approved", "temp"}] :
        LET lists == InitDefaultNamespaces(LoadRegistry(file)) IN
        /\ record = CleanupTempClients(LoadRegistry(file))
        /\ members = [n \in Namespaces |->
                        {c \in lists[n] : record[c].status # "none"}]

(* removeFromNamespace: no list has the name "none" (the empty namespace). *)
RemoveFromNamespace(c) ==
    [n \in Namespaces |-> IF n = record[c].ns THEN members[n] \ {c}
                                              ELSE members[n]]

-----------------------------------------------------------------------------
(* AddApplication: a record that exists and is not approved only gets the  *)
(* new key, whatever its status.                                           *)
AddApplication(c) ==
    /\ record[c].status = "none"
    /\ record' = [record EXCEPT ![c] = [status |-> "pending", ns |-> "none"]]
    /\ UNCHANGED members

(* Approve: the node joins the list of the new namespace and stays in the  *)
(* list of the one a pending record already had.                           *)
Approve(c, n) ==
    /\ record[c].status = "pending"
    /\ record' = [record EXCEPT ![c] = [status |-> "approved", ns |-> n]]
    /\ members' = [members EXCEPT ![n] = @ \cup {c}]

(* Delete: the connections of the node stay.                               *)
Delete(c) ==
    /\ record[c].status # "none"
    /\ members' = RemoveFromNamespace(c)
    /\ record' = [record EXCEPT ![c] = NoRecord]

SetClientNamespace(c, n) ==
    /\ record[c].status # "none" /\ record[c].ns # n
    /\ members' = [RemoveFromNamespace(c) EXCEPT ![n] = @ \cup {c}]
    /\ record' = [record EXCEPT ![c].ns = n]

(* AddTempClient: refused for an approved node (the caller ignores that); a *)
(* temporary or pending record is replaced, and the list it was in is not  *)
(* looked at.                                                              *)
AddTempClient(c) ==
    IF record[c].status = "approved" THEN UNCHANGED registryVars
    ELSE /\ record' = [record EXCEPT ![c] =
                        [status |-> "temp", ns |-> "temporary"]]
         /\ members' = [members EXCEPT !["temporary"] = @ \cup {c}]

RemoveTempClient(c) ==
    IF record[c].status # "temp" THEN UNCHANGED registryVars
    ELSE /\ members' = RemoveFromNamespace(c)
         /\ record' = [record EXCEPT ![c] = NoRecord]
=============================================================================
