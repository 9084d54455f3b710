---------------------------- MODULE Permissions -----------------------------
(***************************************************************************)
(* What the roles may do on a table: the permissions of the metadata, the  *)
(* lookup compiled from them (src/src/permissions/lookup.ts), inherited    *)
(* roles included, and what it admits.                                     *)
(***************************************************************************)
EXTENDS BoolExp, FiniteSetsExt

CONSTANTS
  Columns,      \* the columns of the table
  Metadata,     \* per operation, the permissions of the roles the metadata names:
                \* [filter, checked, check, columns, presets, limit, aggregate, fields, roots,
                \* liveRoots, backend]
  Inherited     \* the inherited roles, in order: [role, of (a sequence of roles)]

Operations == {"select", "insert", "update", "delete"}
Unlimited == 99            \* no limit
Every == {"*"}             \* no list of computed fields, or of root fields: each of them

\* The schema of the metadata asks for a check of every insert permission; statements with a
\* filter that PostgreSQL does not take fail for everybody, and are left out.
ASSUME MetadataAssumption ==
  /\ \A role \in DOMAIN Metadata["insert"] : Metadata["insert"][role].checked
  /\ \A op \in Operations : \A role \in DOMAIN Metadata[op] :
       Compiles(TRUE, Metadata[op][role].filter) /\ Compiles(TRUE, Metadata[op][role].check)

Declared == Metadata
RolesFor(op) == DOMAIN Declared[op]
NamedRoles == UNION {RolesFor(op) : op \in Operations}

\* No permission at all, which an administrator may work with.
NoPermission ==
  [filters |-> <<>>, checked |-> FALSE, checks |-> <<>>, columns |-> Columns, presets |-> <<>>,
   limit |-> Unlimited, aggregate |-> TRUE, fields |-> Every, roots |-> Every, liveRoots |-> Every,
   backend |-> FALSE]

\* ADMIN_PERMISSION: inserts have a check, which is always true.
AdminPermission(op) == [NoPermission EXCEPT !.checked = op = "insert"]

\* compileSelectPermission and its three siblings: a filter is a list of alternatives.
CompilePermission(p) ==
  [filters |-> <<p.filter>>, checked |-> p.checked, checks |-> <<p.check>>,
   columns |-> p.columns, presets |-> p.presets, limit |-> p.limit,
   aggregate |-> p.aggregate, fields |-> p.fields, roots |-> p.roots, liveRoots |-> p.liveRoots,
   backend |-> p.backend]

\* mergeSelectPermissions, mergeInsertPermissions, mergeUpdatePermissions and
\* mergeDeletePermissions: columns are united, filters alternatives, the highest limit
\* counts; checks are alternatives of the roles that have one, which is all of them for an
\* insert, the lists of computed fields are united of the roles that have one, those of root
\* fields if all have one; presets and backend_only go.
MergePermissions(ps) ==
  LET checked == SelectSeq(ps, LAMBDA p : p.checked)
      listed == {p \in ToSet(ps) : p.fields # Every}
      AllListed(lists) == IF Every \in lists THEN Every ELSE UNION lists
  IN
  [filters |-> FlattenSeq([i \in DOMAIN ps |-> ps[i].filters]),
   checked |-> checked # <<>>,
   checks |-> FlattenSeq([i \in DOMAIN checked |-> checked[i].checks]),
   columns |-> UNION {p.columns : p \in ToSet(ps)},
   presets |-> <<>>,
   limit |-> Max({p.limit : p \in ToSet(ps)}),
   aggregate |-> \E p \in ToSet(ps) : p.aggregate,
   fields |-> IF listed = {} THEN Every ELSE UNION {p.fields : p \in listed},
   roots |-> AllListed({p.roots : p \in ToSet(ps)}),
   liveRoots |-> AllListed({p.liveRoots : p \in ToSet(ps)}),
   backend |-> FALSE]

\* What the lookup holds after the roles of the metadata: <<role, operation>> to a permission.
Direct ==
  [k \in {<<r, op>> \in NamedRoles \X Operations : r \in RolesFor(op)} |->
     CompilePermission(Declared[k[2]][k[1]])]

\* One inherited role: its roles as far as the lookup has them by now, unless the
\* metadata names the role for any operation of the table.
AddInherited(map, inh) ==
  LET having(op) == SelectSeq(inh.of, LAMBDA r : <<r, op>> \in DOMAIN map)
      merged == {op \in Operations : having(op) # <<>>}
      perms(op) == [i \in DOMAIN having(op) |-> map[<<having(op)[i], op>>]]
  IN IF inh.role \in NamedRoles THEN map
     ELSE [k \in DOMAIN map \cup ({inh.role} \X merged) |->
             IF k \in DOMAIN map THEN map[k] ELSE MergePermissions(perms(k[2]))]

\* buildPermissionLookup.
Lookup == FoldLeft(AddInherited, Direct, Inherited)

\* PermissionLookup.get, for the role a session has taken; a session of the administrator
\* needs no permission, but works with that of its role if there is one.
HasPermission(session, op) == session.role = "admin" \/ <<session.role, op>> \in DOMAIN Lookup
Allowed(session, op) == session.isAdmin \/ HasPermission(session, op)
Found(map, role, op) ==
  CASE role = "admin" -> AdminPermission(op)
    [] role # "admin" /\ <<role, op>> \in DOMAIN map -> map[<<role, op>>]
    [] OTHER -> NoPermission
Permission(session, op) == Found(Lookup, session.role, op)

\* orFilters.
AnyOf(session, db, filters, row) ==
  filters = <<>> \/ Or3([i \in DOMAIN filters |-> Permits(session, db, TRUE, filters[i], row)]) = T

\* prepareInsertData and validateColumn of buildSetClause: columns with a preset are not
\* for the caller to set, nor those the permission does not list.
ColumnsAccepted(p, cols) == cols \subseteq p.columns /\ cols \cap DOMAIN p.presets = {}

\* resolvePreset: a literal, or a variable of the session, null if it has none.
PresetValue(session, v) == Sent(WhereValue(session, v))

-----------------------------------------------------------------------------
(* What the metadata means, for the properties: a role and the roles it    *)
(* inherits from.                                                          *)

RECURSIVE Constituents(_)
Constituents(role) ==
  IF role \in NamedRoles \/ ~\E i \in DOMAIN Inherited : Inherited[i].role = role THEN {role}
  ELSE UNION {Constituents(r) : r \in ToSet(Inherited[CHOOSE i \in DOMAIN Inherited :
                                                        Inherited[i].role = role].of)}

\* The permissions that are the session's, none of them if it may do everything.
Granting(session, op) ==
  LET own == Constituents(session.role) \cap RolesFor(op) IN
  IF session.role = "admin" THEN {} ELSE {Declared[op][r] : r \in own}

Unbound(session, op) ==
  session.role = "admin" \/ (session.isAdmin /\ Granting(session, op) = {})

MayOn(session, db, op, row) ==
  \/ Unbound(session, op)
  \/ \E p \in Granting(session, op) : Meaning(session, db, p.filter, row) = T

MayColumns(session, op) ==
  IF Unbound(session, op) THEN Columns ELSE UNION {p.columns : p \in Granting(session, op)}
=============================================================================
