------------------------------- MODULE Contexts -------------------------------
(* The contexts of requests (report.context): made from the headers of a      *)
(* request, by a controller or by a service, sent with a cast, elevated, and  *)
(* asked what they may do.  A context holds its roles as a list, and lists    *)
(* are objects two contexts could share, so they are kept apart here.         *)
(* Nothing in the service elevates a context or enforces a rule yet.          *)
(* The rules are those of any policy file; PolicyAssumption says what is      *)
(* relied on of them.                                                         *)
(* Left out: the fields that are only carried (names, addresses, times), the  *)
(* plugin get_auth_plugin hands out, which stays behind when a context is     *)
(* sent, and the context oslo_context keeps for the log.                      *)
EXTENDS Integers, SequencesExt

CONSTANTS
  NoOne,        \* None, for a user or a project
  Users,        \* what X_USER_ID or X_USER may say
  RoleLists,    \* what X_ROLES may list
  Catalogs,     \* the types of service X_SERVICE_CATALOG may list
  Grants(_, _, _), \* whether the rules in force grant an action, on a target,
                \* to the dictionary of a context
  PlainRules,   \* the names of the rules without "not"
  Targets,      \* objects of actions: their user_id and project_id
  MaxContexts   \* bound on the contexts made

VARIABLES
  contexts,     \* the contexts, in the order they were made
  lists,        \* the lists of roles
  said          \* history: what each context said when it was made

ctxVars == <<contexts, lists, said>>

-----------------------------------------------------------------------------
(* What the rules are asked.                                                  *)

(* A header lists names, which may be empty.                                  *)
ASSUME HeaderAssumption == RoleLists \subseteq Seq(STRING)

Kept(catalog) == catalog \cap {"volume", "volumev2", "key-manager"}

(* _get_roles: no header is one role without a name                           *)
Split(header) == IF header = <<>> THEN <<"">> ELSE header

HeaderRoles == UNION { ToSet(Split(header)) : header \in RoleLists }
Roles == HeaderRoles \cup {"admin"}

(* The dictionaries the rules may be handed, roles as a set.                  *)
Creds == [user_id : Users \cup {NoOne}, project_id : {NoOne}, is_admin : {"none", "true"},
          read_deleted : {"no", "yes", "only"}, service_catalog : { Kept(c) : c \in Catalogs \cup {{}} },
          roles : SUBSET Roles]

(* The same dictionary with the administrator's role.                         *)
AsAdmin(creds, deleted) ==
  [creds EXCEPT !.is_admin = "true", !.roles = @ \cup {"admin"}, !.read_deleted = deleted]

Itself(creds) == [user_id |-> creds.user_id, project_id |-> creds.project_id]

(* A rule without "not" grants an administrator what it grants another, and   *)
(* context_is_admin is granted to the role.                                   *)
ASSUME PolicyAssumption ==
  \A creds \in Creds, deleted \in {"no", "yes", "only"} :
    LET admin == AsAdmin(creds, deleted)
    IN  /\ \A rule \in PlainRules, t \in Targets :
             Grants(rule, t, creds) => Grants(rule, t, admin)
        /\ Grants("context_is_admin", Itself(admin), admin)

CtxInit == contexts = <<>> /\ lists = <<>> /\ said = <<>>

Made == DOMAIN contexts

(* RequestContext.to_dict, which does not copy the list                       *)
ToDict(c) ==
  [user_id |-> c.user_id, project_id |-> c.project_id, is_admin |-> c.is_admin,
   read_deleted |-> c.read_deleted, service_catalog |-> c.service_catalog,
   roles |-> lists[c.roles]]

-----------------------------------------------------------------------------
(* Making contexts.                                                           *)

(* RequestContext.__init__ with a list of its own: the caller's or a new []   *)
RequestContext(values, how, source) ==
  /\ Len(contexts) < MaxContexts
  /\ lists' = Append(lists, values.roles)
  /\ contexts' = Append(contexts,
       [user_id |-> values.user_id, project_id |-> values.project_id,
        is_admin |-> values.is_admin, read_deleted |-> values.read_deleted,
        service_catalog |-> Kept(values.service_catalog),
        roles |-> Len(lists) + 1, how |-> how, source |-> source])

NoValues == [user_id |-> NoOne, project_id |-> NoOne, is_admin |-> "none",
             read_deleted |-> "no", service_catalog |-> {}, roles |-> <<>>]

(* ReportKeystoneContext; the project of the request is not read              *)
KeystoneContext(user, header, catalog) ==
  RequestContext([NoValues EXCEPT !.user_id = user, !.roles = Split(header),
                                  !.service_catalog = catalog], "request", 0)

(* the controllers, which do not take the context of the request              *)
HandlerContext == RequestContext(NoValues, "handler", 0)

GetAdminContext(deleted) ==
  RequestContext([NoValues EXCEPT !.is_admin = "true", !.read_deleted = deleted],
                 "admin", 0)

(* RequestContextSerializer on both sides of a cast; the message is a copy    *)
Cast(i) == RequestContext(ToDict(contexts[i]), "cast", i)

WithAdmin(roles) == IF "admin" \in ToSet(roles) THEN roles ELSE Append(roles, "admin")

Raised(i, deleted) ==
  [contexts[i] EXCEPT !.is_admin = "true", !.how = "elevated", !.source = i,
                      !.read_deleted = IF deleted = NoOne THEN @ ELSE deleted]

(* Faulty: copy.copy, and the list of roles is that of the context elevated   *)
ElevatedShallow(i, deleted) ==
  /\ lists' = [lists EXCEPT ![contexts[i].roles] = WithAdmin(@)]
  /\ contexts' = Append(contexts, Raised(i, deleted))

(* elevated: copy.deepcopy                                                    *)
Elevated(i, deleted) ==
  /\ lists' = Append(lists, WithAdmin(lists[contexts[i].roles]))
  /\ contexts' = Append(contexts, [Raised(i, deleted) EXCEPT !.roles = Len(lists) + 1])

CtxNext ==
  /\ \/ \E u \in Users \cup {NoOne}, h \in RoleLists, c \in Catalogs : KeystoneContext(u, h, c)
     \/ HandlerContext
     \/ \E d \in {"no", "yes", "only"} : GetAdminContext(d)
     \/ \E i \in Made : Cast(i)
     \/ /\ Len(contexts) < MaxContexts
        /\ \E i \in Made, d \in {NoOne, "yes"} : Elevated(i, d)
  /\ said' = Append(said, ToDict(contexts[Len(contexts)])')

CtxSpec == CtxInit /\ [][CtxNext]_ctxVars

-----------------------------------------------------------------------------
(* What a context may do.                                                     *)

(* What a context hands to the rules; they only look a role up in the list.   *)
CredsOf(c) == [ToDict(c) EXCEPT !.roles = ToSet(@)]

(* policy.enforce                                                             *)
Enforced(c, action, target) == Grants(action, target, CredsOf(c))

(* policy.check_is_admin: the target is the context itself                    *)
CheckIsAdmin(c) == Enforced(c, "context_is_admin", Itself(c))

IsUserContext(c) ==
  c.is_admin # "true" /\ c.user_id # NoOne /\ c.project_id # NoOne

RequireContext(c) == c.is_admin = "true" \/ IsUserContext(c)

AuthorizeProject(c, target) == IsUserContext(c) => c.project_id = target.project_id
AuthorizeUser(c, target) == IsUserContext(c) => c.user_id = target.user_id

(* The checks c passes, on each target.                                       *)
Passes(c, rules) ==
  { q \in rules \X Targets : Enforced(c, q[1], q[2]) }
  \cup { q \in {"project"} \X Targets : AuthorizeProject(c, q[2]) }
  \cup { q \in {"user"} \X Targets : AuthorizeUser(c, q[2]) }
  \cup { q \in {"context"} \X Targets : RequireContext(c) }
  \cup { q \in {"admin"} \X Targets : CheckIsAdmin(c) }

-----------------------------------------------------------------------------
(* A context says what it said when it was made, whatever was made of it      *)
(* since (elevated works on a copy, down to the list of roles); sent with a   *)
(* cast it says the same on the other side; and elevating a context takes     *)
(* nothing from it: what passes a check without "not" before passes it after, *)
(* and check_is_admin and require_context let it pass.                        *)
ContextsTell ==
  \A i \in Made :
    LET c == contexts[i]
        source == contexts[c.source]
    IN  /\ ToDict(c) = said[i]
        /\ c.how = "cast" => ToDict(c) = ToDict(source)
        /\ c.how = "elevated" => /\ Passes(source, PlainRules) \subseteq Passes(c, PlainRules)
                                 /\ CheckIsAdmin(c) /\ RequireContext(c)
=============================================================================
