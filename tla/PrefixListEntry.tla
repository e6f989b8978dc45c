--------------------------- MODULE PrefixListEntry ---------------------------
(***************************************************************************)
(* The controller that keeps the entry of a cluster in the prefix list     *)
(* (controllers/prefix_list_entry.go) and the part of the EC2 client it    *)
(* uses (pkg/aws/prefixlist.go).  An entry is found by its CIDR, and its   *)
(* description says whose it is.  A change names the version of the list   *)
(* it is made to; the version is read after the entries.                   *)
(***************************************************************************)
EXTENDS NetworkWorkers

\* The controller, named after its finalizer.
PLE == FinalizerPrefixListEntry

EntryReconcile(c) ==
  /\ Takes(PLE, c)
  /\ LET o == cache[c]
         serves == /\ o.phase # "gone" /\ ManagementClusterFound
                   /\ o.mode = "GiantSwarmManaged" /\ ~o.paused
         found  == serves /\ "pl" \in KnownArns(c)
     IN \/ /\ \/ ~serves
              \/ found /\ o.phase = "live" /\ o.network = "none"
              \/ found /\ o.phase = "deleting" /\ PLE \notin o.fins
           /\ Skip(PLE, c)
        \/ found /\ o.phase = "live" /\ o.network # "none" /\ Begin(PLE, c, "addFinalizer")
        \/ found /\ o.phase = "deleting" /\ PLE \in o.fins /\ Begin(PLE, c, "lookup")
  /\ UNCHANGED <<objVars, awsVars, boundVars>>

\* The prefix list of a cluster: its user's or the management cluster's.
ListOf(c) == IF c # MC /\ "pl" \in obj[c].arns THEN c ELSE MC
ListExists(l) == l = MC => plist
\* Fault: the CIDR is the description too.
FaultOwnEntry(c) == [list |-> ListOf(c), cidr |-> CidrOf[c], by |-> CidrOf[c]]
OwnEntry(c) == [list |-> ListOf(c), cidr |-> CidrOf[c], by |-> c]

\* The entry with the CIDR of c, if there is one.
AtCidr(c) == {e \in entries : e.list = ListOf(c) /\ e.cidr = CidrOf[c]}

\* entryExists, and what ApplyEntry or DeleteEntry make of it.  The entry of
\* another with the same CIDR is an error for both.
EntryExists ==
  /\ Call(PLE, "lookup")
  /\ LET c == Cl(PLE)
         deletes == Copy(PLE).phase = "deleting"
     IN \/ /\ AtCidr(c) = {} /\ ~deletes /\ Goto(PLE, "version")
        \/ /\ AtCidr(c) = {} /\ deletes /\ Goto(PLE, "removeFinalizer")
        \/ /\ AtCidr(c) = {OwnEntry(c)} /\ ~deletes /\ MarkReady(PLE, PrefixListEntriesReady)
        \/ /\ AtCidr(c) = {OwnEntry(c)} /\ deletes /\ Goto(PLE, "version")
        \/ /\ \E e \in AtCidr(c) : e # OwnEntry(c)
           /\ Error(PLE)
  /\ UNCHANGED <<objVars, awsVars, boundVars>>

\* getCurrentVersion
ReadVersion ==
  /\ Call(PLE, "version")
  /\ LET l == ListOf(Cl(PLE))
     IN IF ListExists(l)
        THEN /\ w' = [w EXCEPT ![PLE].pc = "modify", ![PLE].version = version[l]]
             /\ UNCHANGED queue
        ELSE Error(PLE)
  /\ UNCHANGED <<objVars, awsVars, boundVars>>

\* EC2 adds an entry: the version is the current one, the list has room, and
\* the CIDR is not in it.
Addable(l, cidr, v) ==
  /\ ListExists(l) /\ version[l] = v
  /\ Cardinality({e \in entries : e.list = l}) < MaxEntries
  /\ \A e \in entries : e.list = l => e.cidr # cidr

\* Fault: the condition is set whatever EC2 answers.
FaultCreateEntry ==
  /\ Call(PLE, "modify") /\ Copy(PLE).phase = "live"
  /\ LET c == Cl(PLE)
         l == ListOf(c)
     IN IF Addable(l, CidrOf[c], w[PLE].version)
        THEN /\ entries' = entries \cup {OwnEntry(c)}
             /\ version' = [version EXCEPT ![l] = @ + 1]
        ELSE UNCHANGED entryVars
  /\ MarkReady(PLE, PrefixListEntriesReady)
  /\ UNCHANGED <<objVars, mcVars, att, routes, shares, boundVars>>

\* createEntry
CreateEntry ==
  /\ Call(PLE, "modify") /\ Copy(PLE).phase = "live"
  /\ LET c == Cl(PLE)
         l == ListOf(c)
     IN \/ /\ Addable(l, CidrOf[c], w[PLE].version)
           /\ entries' = entries \cup {OwnEntry(c)}
           /\ version' = [version EXCEPT ![l] = @ + 1]
           /\ MarkReady(PLE, PrefixListEntriesReady)
        \/ /\ ~Addable(l, CidrOf[c], w[PLE].version)
           /\ Error(PLE) /\ UNCHANGED entryVars
  /\ UNCHANGED <<objVars, mcVars, att, routes, shares, boundVars>>

\* Fault: every error is taken for a list that is gone.
FaultDeleteEntry ==
  /\ Call(PLE, "modify") /\ Copy(PLE).phase = "deleting"
  /\ LET c == Cl(PLE)
         l == ListOf(c)
     IN IF ListExists(l) /\ version[l] = w[PLE].version
        THEN /\ entries' = entries \ AtCidr(c)
             /\ version' = [version EXCEPT ![l] = @ + 1]
        ELSE UNCHANGED entryVars
  /\ Goto(PLE, "removeFinalizer")
  /\ UNCHANGED <<objVars, mcVars, att, routes, shares, boundVars>>

\* deleteEntry: the entry is named by its CIDR alone; a list that is gone is no
\* error here.
DeleteEntry ==
  /\ Call(PLE, "modify") /\ Copy(PLE).phase = "deleting"
  /\ LET c == Cl(PLE)
         l == ListOf(c)
     IN IF ~ListExists(l)
        THEN Goto(PLE, "removeFinalizer") /\ UNCHANGED entryVars
        ELSE IF version[l] = w[PLE].version
        THEN /\ entries' = entries \ AtCidr(c)
             /\ version' = [version EXCEPT ![l] = @ + 1]
             /\ Goto(PLE, "removeFinalizer")
        ELSE Error(PLE) /\ UNCHANGED entryVars
  /\ UNCHANGED <<objVars, mcVars, att, routes, shares, boundVars>>

\* Another writer adds an entry to the management cluster's list or takes its
\* own away.
OthersModify ==
  /\ "entries" \in EditKinds /\ edits < MaxEdits /\ edits' = edits + 1
  /\ \E cidr \in Cidrs :
       LET e == [list |-> MC, cidr |-> cidr, by |-> Other]
       IN \/ Addable(MC, cidr, version[MC]) /\ entries' = entries \cup {e}
          \/ e \in entries /\ entries' = entries \ {e}
  /\ version' = [version EXCEPT ![MC] = @ + 1]
  /\ UNCHANGED <<objVars, workVars, mcVars, att, routes, shares, failures>>

EntryWorker ==
  (\E c \in Clusters : EntryReconcile(c)) \/ EntryExists \/ ReadVersion \/ CreateEntry \/ DeleteEntry
=============================================================================
