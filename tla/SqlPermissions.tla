--------------------------- MODULE SqlPermissions ---------------------------
(***************************************************************************)
(* The per-user tool allowlists (stores/sqlite_permissions.py): a row of   *)
(* grants and revokes for each user, and one of the defaults, in a SQLite  *)
(* file.  A grant or a revoke selects the row, selects it again to choose  *)
(* between INSERT and UPDATE, and writes it; the driver opens the          *)
(* transaction only at that write, so that calls of other tasks and        *)
(* processes come between.  stores/memory_permissions.py is the case in    *)
(* which they do not.                                                      *)
(***************************************************************************)
CONSTANTS
  PUsers,     \* users
  PTools,     \* tool names
  Configured, \* PermissionConfig.default_allowed
  Callers     \* the tasks that call the store, each in a process of its own

\* No user is called as the row of the defaults is.
ASSUME PermissionsAssumption ==
  Configured \subseteq PTools /\ {"default", "none"} \cap PUsers = {}

VARIABLES
  row,     \* the table: users' deltas, and the defaults under "default"
  ready,   \* callers whose store is initialized
  call,    \* the call each caller has under way
  ruled,   \* rulings <<user, tool, "grant" or "revoke">> made while no other
           \* call had a copy of the user's row, until the next one on the tool
  offered  \* defaults added while no other such call was under way

permVars == <<row, ready, call, ruled, offered>>

Default == "default"
NoRow == [exists |-> FALSE, granted |-> {}, revoked |-> {}]
Row(granted, revoked) == [exists |-> TRUE, granted |-> granted, revoked |-> revoked]
Call(kind, on, tool, stage, read, exists) ==
  [kind |-> kind, on |-> on, tool |-> tool, stage |-> stage, read |-> read, exists |-> exists]
NoCall == Call("none", "none", "none", "idle", NoRow, FALSE)
Alone(k) == \A other \in Callers \ {k} : call[other].on # call[k].on

\* _get_default and allowed_tools.
Defaults == IF row[Default].exists THEN row[Default].granted ELSE Configured
AllowedTools(u) == (Defaults \cup row[u].granted) \ row[u].revoked

-----------------------------------------------------------------------------
(* _ensure_init: the default row is seeded by whoever finds none.          *)

\* A bug to catch: the store is ready before the defaults are there.
InitReadyFirst(k) ==
  /\ k \notin ready /\ call[k] = NoCall
  /\ ready' = ready \cup {k}
  /\ call' = [call EXCEPT ![k] =
                Call("init", Default, "none", "write", NoRow, row[Default].exists)]
  /\ UNCHANGED <<row, ruled, offered>>

InitLooks(k) ==
  /\ k \notin ready /\ call[k] = NoCall
  /\ call' = [call EXCEPT ![k] =
                Call("init", Default, "none", "write", NoRow, row[Default].exists)]
  /\ UNCHANGED <<row, ready, ruled, offered>>

\* A bug to catch: the defaults are seeded at every start.
InitSeedsAgain(k) ==
  /\ call[k].kind = "init"
  /\ row' = [row EXCEPT ![Default] = Row(Configured, {})]
  /\ ready' = ready \cup {k}
  /\ call' = [call EXCEPT ![k] = NoCall]
  /\ UNCHANGED <<ruled, offered>>

\* A row that has come up in between makes the INSERT raise; the next call looks
\* again.
InitSeeds(k) ==
  /\ call[k].kind = "init"
  /\ IF call[k].exists \/ ~row[Default].exists
       THEN /\ row' = IF call[k].exists THEN row
                      ELSE [row EXCEPT ![Default] = Row(Configured, {})]
            /\ ready' = ready \cup {k}
       ELSE UNCHANGED <<row, ready>>
  /\ call' = [call EXCEPT ![k] = NoCall]
  /\ UNCHANGED <<ruled, offered>>

-----------------------------------------------------------------------------
(* grant, revoke and extend_default_allowed, of one tool.                  *)

PermReads(k, kind, on, tool) ==
  /\ k \in ready /\ call[k] = NoCall
  /\ kind = "extend" <=> on = Default
  /\ call' = [call EXCEPT ![k] =
                Call(kind, on, tool, IF kind = "extend" THEN "write" ELSE "upsert", row[on],
                     row[on].exists)]
  /\ UNCHANGED <<row, ready, ruled, offered>>

\* _upsert selects again, and looks only whether there is a row.
UpsertLooks(k) ==
  /\ call[k].stage = "upsert"
  /\ call' = [call EXCEPT ![k] =
                Call(@.kind, @.on, @.tool, "write", @.read, row[@.on].exists)]
  /\ UNCHANGED <<row, ready, ruled, offered>>

\* A bug to catch: a revoke that only takes the grant away.
DeltaWithoutVeto(k) ==
  LET c == call[k]
  IN  Row(IF c.kind = "revoke" THEN c.read.granted \ {c.tool} ELSE c.read.granted \cup {c.tool},
          IF c.kind = "grant" THEN c.read.revoked \ {c.tool} ELSE c.read.revoked)

\* What the call makes of the row it read: the latest ruling on a tool wins.
Delta(k) ==
  LET c == call[k]
  IN  Row(IF c.kind = "revoke" THEN c.read.granted \ {c.tool} ELSE c.read.granted \cup {c.tool},
          CASE c.kind = "grant"  -> c.read.revoked \ {c.tool}
            [] c.kind = "revoke" -> c.read.revoked \cup {c.tool}
            [] c.kind = "extend" -> c.read.revoked)

\* Rulings on another tool stand, those on this one do not.
Ruled(k) ==
  LET c == call[k]
      others == {r \in ruled : r[1] # c.on \/ r[2] # c.tool}
  IN  IF c.kind # "extend" /\ Alone(k) THEN others \cup {<<c.on, c.tool, c.kind>>} ELSE others

\* INSERT, which raises if the row has come up since, or UPDATE, and COMMIT.
PermWrites(k) ==
  /\ call[k].stage = "write" /\ call[k].kind # "init"
  /\ IF call[k].exists \/ ~row[call[k].on].exists
       THEN /\ row' = [row EXCEPT ![call[k].on] = Delta(k)]
            /\ ruled' = Ruled(k)
            /\ offered' = IF call[k].kind = "extend" /\ Alone(k)
                            THEN offered \cup {call[k].tool} ELSE offered
       ELSE UNCHANGED <<row, ruled, offered>>
  /\ call' = [call EXCEPT ![k] = NoCall]
  /\ UNCHANGED ready

\* The file is locked for too long, or the process ends before the COMMIT.
CallFails(k) ==
  /\ call[k] # NoCall
  /\ call' = [call EXCEPT ![k] = NoCall]
  /\ UNCHANGED <<row, ready, ruled, offered>>

PermInit ==
  /\ row = [on \in PUsers \cup {Default} |-> NoRow]
  /\ ready = {}
  /\ call = [k \in Callers |-> NoCall]
  /\ ruled = {}
  /\ offered = {}

PermNext ==
  \E k \in Callers :
    \/ InitLooks(k) \/ InitSeeds(k)
    \/ \E kind \in {"grant", "revoke", "extend"}, on \in PUsers \cup {Default}, t \in PTools :
         PermReads(k, kind, on, t)
    \/ UpsertLooks(k) \/ PermWrites(k) \/ CallFails(k)

PermSpec == PermInit /\ [][PermNext]_permVars

-----------------------------------------------------------------------------
(* Properties.                                                             *)

RowsOf == [exists : BOOLEAN, granted : SUBSET PTools, revoked : SUBSET PTools]

\* Rows and calls keep their shape, and a store that is ready has its defaults.
PermTypeOK ==
  /\ row \in [PUsers \cup {Default} -> RowsOf]
  /\ \A on \in PUsers \cup {Default} : ~row[on].exists => row[on] = NoRow
  /\ ready \subseteq Callers
  /\ ready # {} => row[Default].exists
  /\ call \in [Callers ->
                 [kind : {"none", "init", "grant", "revoke", "extend"},
                  on : PUsers \cup {Default, "none"}, tool : PTools \cup {"none"},
                  stage : {"idle", "upsert", "write"}, read : RowsOf, exists : BOOLEAN]]
  /\ ruled \subseteq PUsers \X PTools \X {"grant", "revoke"}
  /\ offered \subseteq PTools

\* "Explicit revoke is a stronger signal than later default additions"
\* (memory_permissions.py:8-9), and a grant un-revokes (:33-34): the last ruling on
\* a tool that no other call overlapped decides, whatever is granted, revoked or
\* offered to others beside it afterwards.
RulingsHold ==
  \A r \in ruled : r[2] \in AllowedTools(r[1]) <=> r[3] = "grant"

\* A default added on its own reaches every user who has not ruled it out
\* (sqlite_permissions.py:151-162), across restarts and first starts of others,
\* which must not seed the row again.
OfferedReaches ==
  \A t \in offered, u \in PUsers : t \in AllowedTools(u) \/ t \in row[u].revoked
=============================================================================
