--------------------------------- MODULE Startup ---------------------------------
(***************************************************************************)
(* Server processes starting on one database file: main up to its accept   *)
(* loop, init_db_with_path with its check-then-ALTER migration of the      *)
(* `saved` column, and the TLS set-up.  A process may end at any step and  *)
(* be launched again; another one may be at any step of its own start.     *)
(***************************************************************************)
EXTENDS Integers, Sequences

CONSTANTS
    Process,      \* the processes an operator launches
    Port,         \* the values of --port
    CertFiles,    \* contents of the file --tls-cert names
    KeyFiles,     \* contents of the file --tls-key names
    MaxLaunches,  \* bound: launches in a behaviour
    MaxFaults,    \* bound: processes that die of something else than their start
    MaxRows       \* bound: rows of the messages table

ASSUME StartupAssumption == {MaxLaunches, MaxFaults, MaxRows} \subseteq Nat

\* A PEM file as the sequence of its items.
KeyKind == {"pkcs8", "rsa"}
Key     == [kind : KeyKind, usable : BOOLEAN]
Garbled == [kind |-> "garbled", usable |-> FALSE]
CertItem == {"certificate", "garbled"}

ASSUME CertAssumption == CertFiles \subseteq Seq(CertItem)
ASSUME KeyAssumption  == KeyFiles \subseteq Seq(Key \cup {Garbled})

VARIABLES
    pc,        \* where each process is
    port,      \* its --port
    certFile,  \* what the certificate file holds
    keyFile,   \* what the key file holds
    tables,    \* rura.db: the tables it has
    column,    \* has messages the column `saved`?
    rows,      \* messages: per row "legacy" (no such column), "plain" or "saved"
    launches, faults  \* counters of the bounds

file == <<tables, column, rows>>
args == <<port, certFile, keyFile>>
vars == <<pc, args, file, launches, faults>>

Table  == {"users", "messages", "connections"}
DbStep == {"users", "messages", "inspect", "alter", "connections"}
Alive  == DbStep \cup {"cert", "key", "bind", "serving"}
Ended  == {"off", "failed"}

\* the file is missing, was left by a version without the column, or is current
Init ==
    /\ pc = [p \in Process |-> "off"]
    /\ port \in [Process -> Port] /\ certFile \in CertFiles /\ keyFile \in KeyFiles
    /\ \/ tables = {} /\ column = FALSE /\ rows = <<>>
       \/ tables = {"users", "messages"} /\ column = FALSE /\ rows = <<"legacy">>
       \/ tables = Table /\ column = TRUE /\ rows = <<"saved">>
    /\ launches = 0 /\ faults = 0

Move(p, from, to) == pc[p] = from /\ pc' = [pc EXCEPT ![p] = to]

Launch(p) ==
    /\ pc[p] \in Ended /\ launches < MaxLaunches
    /\ pc' = [pc EXCEPT ![p] = "users"] /\ launches' = launches + 1
    /\ UNCHANGED <<args, file, faults>>

-----------------------------------------------------------------------------
(* init_db_with_path: each statement is a transaction of its own.          *)

CreateUsers(p) ==
    /\ Move(p, "users", "messages")
    /\ tables' = tables \cup {"users"}
    /\ UNCHANGED <<args, column, rows, launches, faults>>

\* IF NOT EXISTS: only a table created here is born with the column
CreateMessages(p) ==
    /\ Move(p, "messages", "inspect")
    /\ tables' = tables \cup {"messages"}
    /\ column' = (column \/ "messages" \notin tables)
    /\ UNCHANGED <<args, rows, launches, faults>>

\* Mutant: a table that exists is taken for current.
InspectTrusts(p) == Move(p, "inspect", "connections") /\ UNCHANGED <<args, file, launches, faults>>

\* PRAGMA table_info; where to go next is the local has_saved
Inspect(p) ==
    /\ Move(p, "inspect", IF column THEN "connections" ELSE "alter")
    /\ UNCHANGED <<args, file, launches, faults>>

\* Mutants: a second ALTER is tolerated, and the column filled in anew; the
\* column is added without NOT NULL DEFAULT 0, so that old rows have a NULL.
AlterAndFill(p) ==
    /\ Move(p, "alter", "connections")
    /\ column' = TRUE /\ rows' = [i \in DOMAIN rows |-> "plain"]
    /\ UNCHANGED <<args, tables, launches, faults>>

AlterWithoutDefault(p) ==
    /\ \/ /\ column
          /\ Move(p, "alter", "failed") /\ UNCHANGED <<column, rows>>
       \/ /\ ~column
          /\ Move(p, "alter", "connections")
          /\ column' = TRUE /\ rows' = [i \in DOMAIN rows |-> "null"]
    /\ UNCHANGED <<args, tables, launches, faults>>

\* a second ADD COLUMN is an error ("duplicate column name"), and main's expect
\* ends the process
Alter(p) ==
    /\ \/ /\ column
          /\ Move(p, "alter", "failed") /\ UNCHANGED <<column, rows>>
       \/ /\ ~column
          /\ Move(p, "alter", "connections")
          /\ column' = TRUE /\ rows' = [i \in DOMAIN rows |-> "plain"]
    /\ UNCHANGED <<args, tables, launches, faults>>

CreateConnections(p) ==
    /\ Move(p, "connections", "cert")
    /\ tables' = tables \cup {"connections"}
    /\ UNCHANGED <<args, column, rows, launches, faults>>

-----------------------------------------------------------------------------
(* make_tls_acceptor, the listener, the accept loop, the end of a process. *)

\* one garbled item refuses the file, and so does a file without a certificate
LoadCerts(p) ==
    /\ Move(p, "cert", IF certFile # <<>> /\ \A i \in DOMAIN certFile : certFile[i] = "certificate"
                         THEN "key" ELSE "failed")
    /\ UNCHANGED <<args, file, launches, faults>>

\* the last key of a kind, as Vec::pop takes it
IsLastOf(kind, i) ==
    keyFile[i].kind = kind /\ \A j \in DOMAIN keyFile : keyFile[j].kind = kind => j <= i

HasKind(kind) == \E i \in DOMAIN keyFile : keyFile[i].kind = kind

\* Mutant: no second pass for RSA keys.
LoadPkcs8(p) ==
    /\ Move(p, "key", IF \E i \in DOMAIN keyFile : IsLastOf("pkcs8", i) /\ keyFile[i].usable
                        THEN "bind" ELSE "failed")
    /\ UNCHANGED <<args, file, launches, faults>>

\* PKCS#8 first, RSA only in a file without any; with_single_cert then takes or
\* refuses that one key
LoadKey(p) ==
    LET kind == IF HasKind("pkcs8") THEN "pkcs8" ELSE "rsa"
        good == /\ ~HasKind("garbled")
                /\ \E i \in DOMAIN keyFile : IsLastOf(kind, i) /\ keyFile[i].usable
    IN  /\ Move(p, "key", IF good THEN "bind" ELSE "failed")
        /\ UNCHANGED <<args, file, launches, faults>>

Bind(p) ==
    /\ Move(p, "bind", IF \E q \in Process \ {p} : pc[q] = "serving" /\ port[q] = port[p]
                         THEN "failed" ELSE "serving")
    /\ UNCHANGED <<args, file, launches, faults>>

\* store_message and set_message_saved of a serving process
Serve(p) ==
    /\ pc[p] = "serving"
    /\ \E flag \in {"plain", "saved"} :
          \/ Len(rows) < MaxRows /\ rows' = Append(rows, flag)
          \/ \E i \in DOMAIN rows : rows' = [rows EXCEPT ![i] = flag]
    /\ UNCHANGED <<pc, args, tables, column, launches, faults>>

\* a statement fails, accept fails, or the process is killed
Die(p) ==
    /\ pc[p] \in Alive /\ faults < MaxFaults
    /\ pc' = [pc EXCEPT ![p] = "failed"] /\ faults' = faults + 1
    /\ UNCHANGED <<args, file, launches>>

StartStep(p) ==
    \/ CreateUsers(p) \/ CreateMessages(p) \/ Inspect(p) \/ Alter(p)
    \/ CreateConnections(p) \/ LoadCerts(p) \/ LoadKey(p) \/ Bind(p)

\* every process has ended and the operator launches no more
GivenUp == launches = MaxLaunches /\ (\A p \in Process : pc[p] \in Ended) /\ UNCHANGED vars

Next ==
    \/ \E p \in Process : Launch(p) \/ StartStep(p) \/ Serve(p) \/ Die(p)
    \/ GivenUp

\* main waits for nobody on its way to the accept loop
Spec == Init /\ [][Next]_vars /\ \A p \in Process : WF_vars(StartStep(p))

-----------------------------------------------------------------------------
StartTypeOK ==
    /\ pc \in [Process -> Alive \cup Ended] /\ port \in [Process -> Port]
    /\ certFile \in CertFiles /\ keyFile \in KeyFiles
    /\ tables \subseteq Table /\ column \in BOOLEAN
    /\ rows \in Seq({"legacy", "plain", "saved"})
    /\ launches \in 0..MaxLaunches /\ faults \in 0..MaxFaults

\* Whoever accepts connections does so on a file with every table and with the
\* column, whatever earlier and other processes did to it half-way.
ServingIsComplete ==
    (\E p \in Process : pc[p] = "serving") =>
        tables = Table /\ column /\ \A i \in DOMAIN rows : rows[i] # "legacy"

\* A process that starts, restarts or ends loses no row and clears no mark that
\* another one, already serving, has set.
MarksSurviveStarts ==
    [][pc' # pc => /\ Len(rows') = Len(rows)
                   /\ \A i \in DOMAIN rows : rows[i] = "saved" => rows'[i] = "saved"]_vars

\* README.md:126 "PEM; PKCS#8 or RSA key": files with nothing else in them.
GoodTls ==
    /\ certFile # <<>> /\ \A i \in DOMAIN certFile : certFile[i] = "certificate"
    /\ keyFile # <<>> /\ \A i \in DOMAIN keyFile : keyFile[i].usable

\* With good certificate and key files a launch is not in vain: unless another
\* fault strikes, somebody serves, even if the two migrate at the same time and
\* even on a file that a process left half migrated.
SomeoneComesUp ==
    \A n \in 0..MaxFaults : \A p \in Process :
        (faults = n /\ pc[p] = "users" /\ GoodTls)
            ~> (faults # n \/ \E q \in Process : pc[q] = "serving")
=============================================================================
