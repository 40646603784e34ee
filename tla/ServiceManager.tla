--------------------------- MODULE ServiceManager ---------------------------
(***************************************************************************)
(* The registry of monitoring services (src/daemon/service_manager.c).     *)
(* Its state is a record m with the fields                                 *)
(*    table  g_services[0 .. g_service_count - 1], as a sequence           *)
(*    live   for each service, calls of ops->init that succeeded minus     *)
(*           calls of ops->destroy                                         *)
(* and each function of the file is an operator from records to records,   *)
(* so that the plugin loader can run several of them in one step.          *)
(***************************************************************************)
EXTENDS Integers, Sequences, SequencesExt

CONSTANTS
  Services,     \* the qmem_service_t objects that plugins provide
  MaxServices   \* MAX_SERVICES

ASSUME MaxServicesAssumption == MaxServices \in Nat \ {0}

ManagerOK(m) ==
  /\ m.table \in Seq(Services) /\ Len(m.table) <= MaxServices
  /\ m.live \in [Services -> Int]

(* svc_manager_init *)
SvcInit == [table |-> << >>, live |-> [s \in Services |-> 0]]

(* svc_manager_register refuses when the table is full, before ops->init   *)
(* runs, or when ops->init fails (initOK is FALSE).                        *)
CanRegister(m, initOK) == Len(m.table) < MaxServices /\ initOK

Register(m, s) ==
  [table |-> Append(m.table, s), live |-> [m.live EXCEPT ![s] = @ + 1]]

(* svc_manager_unregister removes the first entry with this pointer and    *)
(* shifts the rest down; an unknown pointer is only logged.                *)
Unregister(m, s) ==
  IF Contains(m.table, s)
  THEN [table |-> RemoveFirst(m.table, s),
        live  |-> [m.live EXCEPT ![s] = @ - 1]]
  ELSE m

Registrations(m, s) == Cardinality({k \in 1 .. Len(m.table) : m.table[k] = s})

(* svc_manager_shutdown destroys every entry, once per registration. *)
SvcShutdown(m) ==
  [table |-> << >>,
   live  |-> [s \in Services |-> m.live[s] - Registrations(m, s)]]
=============================================================================
