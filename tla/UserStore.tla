----------------------------- MODULE UserStore -----------------------------
(***************************************************************************)
(* The users: the table in the database and the map the process keeps of   *)
(* it (sqlconn.cpp), and the two questions return_res asks (http.cpp).     *)
(* MySQL is external: a statement it is sent works or fails.               *)
(***************************************************************************)
EXTENDS Naturals

CONSTANTS Users,       \* names that a cookie can carry: no ; or line break
          Passwords,
          Kept,        \* those an INSERT stores as they are: no quote or backslash, and
                       \* short enough for the column
          DbFaults,    \* the statements that may fail: "insert", "select"
          NONE

ASSUME UsersAssumption == NONE \notin Passwords /\ NONE \notin Users
ASSUME KeptAssumption == Kept \subseteq Users \cup Passwords
ASSUME FaultsAssumption == DbFaults \subseteq {"insert", "select"}

VARIABLES
  table,       \* rows of the table user
  user_pass,   \* the map
  con,         \* the connection: null, open, or closed and still in use
  up           \* the process runs

storeVars == <<table, user_pass, con, up>>

Rows == Users \X Passwords
NoUsers == [u \in Users |-> NONE]
Named(u) == \E p \in Passwords : <<u, p>> \in table

StoreInit == table = {} /\ user_pass = NoUsers /\ con = "null" /\ up = FALSE

\* The rows are read into the map in no particular order.
Loaded(map) ==
  \A u \in Users : IF Named(u) THEN <<u, map[u]>> \in table ELSE map[u] = NONE

\* init and getUser when main starts.  Without a connection getUser ends the process, so
\* that it does not come up.
Start ==
  /\ ~up /\ up' = TRUE /\ con' = "open"
  /\ \/ user_pass' \in [Users -> Passwords \cup {NONE}] /\ Loaded(user_pass')
     \/ "select" \in DbFaults /\ user_pass' = NoUsers
  /\ UNCHANGED table

\* The process ends, by a crash or a signal; the map is lost.
Stop == up /\ up' = FALSE /\ con' = "null" /\ user_pass' = NoUsers /\ UNCHANGED table

\* Mutant of UserTrue: the password is not compared.
UserKnown(u, p) == user_pass[u] # NONE

\* is_user_true answers "login success".
UserTrue(u, p) == user_pass[u] = p

Exists(u) == user_pass[u] # NONE

\* What is stored of the text t, which is put into the statement without escaping, so that
\* a''b is stored as a'b.  Texts that go on as SQL of their own are left out.
Stored(t, texts) == IF t \in Kept THEN {t} ELSE texts

\* The map is given the texts as they came.
Inserted(u, p) ==
  /\ con = "open"
  /\ \E row \in Stored(u, Users) \X Stored(p, Passwords) : table' = table \cup {row}
  /\ user_pass' = [user_pass EXCEPT ![u] = p]
  /\ UNCHANGED <<con, up>>

\* Mutant of InsertFails: the user is in the map all the same.
InsertFailsCached(u, p) ==
  /\ con' = "closed" /\ user_pass' = [user_pass EXCEPT ![u] = p] /\ UNCHANGED <<table, up>>

\* A quote may break the statement too.  The connection is closed and stays in use, so that
\* no later statement works.
InsertFails(u, p) ==
  /\ con = "closed" \/ "insert" \in DbFaults \/ Named(u) \/ ~({u, p} \subseteq Kept)
  /\ con' = "closed"
  /\ UNCHANGED <<table, user_pass, up>>

\* registerUser on a user who is not in the map.  A statement on a closed connection
\* uses freed memory: it fails or ends the process.
RegisterUser(u, p) == Inserted(u, p) \/ InsertFails(u, p) \/ (con = "closed" /\ Stop)

StoreTypeOK ==
  /\ table \subseteq Rows
  /\ user_pass \in [Users -> Passwords \cup {NONE}]
  /\ con \in {"null", "open", "closed"}
  /\ up \in BOOLEAN

\* The map never says more than the table: who logs in now could after a restart.  Names
\* and passwords that an INSERT changes are excepted: their row differs from the map's pair.
MapInTable ==
  \A u \in Users :
    user_pass[u] # NONE /\ {u, user_pass[u]} \subseteq Kept => <<u, user_pass[u]>> \in table

=============================================================================
