------------------------------ MODULE Domains ------------------------------
(* The domains of the broker (server/myqttd-domain.c, myqttd-users.c): how they *)
(* are declared when it starts and changed by SIGHUP (myqttd-run.c), and how the *)
(* CONNECT of a client finds its domain by the names it gives and by              *)
(* authentication.  What the domain does with it then is in DomainHandover.       *)
EXTENDS Naturals, FiniteSets

CONSTANTS
  DomainNames,  \* names of domains
  Databases,    \* users databases a domain may be configured with
  Clients,      \* clients, one CONNECT each
  Claims,       \* by client: the domain its client id and its user name carry after "@",
                \* and the server name of its connection (SNI, Host), or NoDomain
  Accepts,      \* triples <<database, client, way>>: what the authentication backend grants,
                \* which is told the names without "@" or as they came, and whether the domain
                \* was selected
  MaxReloads,   \* SIGHUPs
  NoDomain,
  NoDatabase,   \* a NULL users_db or users
  Dangling      \* a users_db that points to what was freed

\* How a client comes to be authenticated in a domain: as selected by the name after "@",
\* which is stripped; as selected by its server name; in the search through all of them.
Ways == {"stripped", "selected", "search"}

ASSUME DomainAssumption ==
  /\ NoDomain \notin DomainNames /\ Databases \intersect {NoDatabase, Dangling} = {}
  /\ NoDatabase # Dangling
  /\ Claims \in [Clients -> [id : DomainNames \union {NoDomain},
                             user : DomainNames \union {NoDomain},
                             server : DomainNames \union {NoDomain}]]
  /\ Accepts \subseteq Databases \X Clients \X Ways /\ MaxReloads \in Nat

VARIABLES
  domains,      \* ctx->domains: the names declared
  is_active, users_db,   \* configuration of each domain
  users,        \* by domain: the database loaded, NoDatabase before the first need
  started,      \* myqttd_run_config: "listening", "loading", "running"
  to_load,      \* domains of the document still to be read by a load
  adding,       \* the domain myqttd_domain_add is busy with, NoDomain if none
  add_at,       \* what it does next: "free", "set", "active"
  reloads,
  walking,      \* clients that hold the mutex of the table: at most one
  find,         \* by client: "no", "id", "user", "server", "any", "refused", "domain",
                \*   "open"
  chosen,       \* by client: the domain found so far, NoDomain otherwise
  way,          \* by client: how it is authenticated there, "none" before
  tried         \* by client: domains met by its walk
loadVars == <<started, to_load, adding, add_at, reloads>>
config == <<domains, is_active, users_db, loadVars>>
findVars == <<walking, find, chosen, way, tried>>
domainsVars == <<config, users, findVars>>

\* the listeners are started before any domain is declared
DomainsInit ==
  /\ domains = {} /\ started = "listening" /\ to_load = {} /\ reloads = 0
  /\ adding = NoDomain /\ add_at = "free"
  /\ is_active = [d \in DomainNames |-> FALSE]
  /\ users_db = [d \in DomainNames |-> NoDatabase]
  /\ users = [d \in DomainNames |-> NoDatabase]
  /\ walking = {} /\ find = [c \in Clients |-> "no"]
  /\ chosen = [c \in Clients |-> NoDomain] /\ way = [c \in Clients |-> "none"]
  /\ tried = [c \in Clients |-> {}]

DomainsTypeOK ==
  /\ domains \subseteq DomainNames /\ to_load \subseteq DomainNames
  /\ is_active \in [DomainNames -> BOOLEAN] /\ reloads \in 0 .. MaxReloads
  /\ users_db \in [DomainNames -> Databases \union {NoDatabase, Dangling}]
  /\ users \in [DomainNames -> Databases \union {NoDatabase}]
  /\ adding \in DomainNames \union {NoDomain} /\ add_at \in {"free", "set", "active"}
  /\ started \in {"listening", "loading", "running"}
  /\ walking \subseteq Clients
  /\ find \in [Clients -> {"no", "id", "user", "server", "any", "refused", "domain", "open"}]
  /\ way \in [Clients -> Ways \union {"none"}]
  /\ chosen \in [Clients -> DomainNames \union {NoDomain}]
  /\ tried \in [Clients -> SUBSET DomainNames]

(* ------------------------------ configuration ------------------------------ *)
\* myqttd_run_domains_load, at start and again by myqttd_reload_config
LoadBegins ==
  /\ to_load = {} /\ adding = NoDomain /\ to_load' = DomainNames
  /\ \/ started = "listening" /\ started' = "loading" /\ UNCHANGED reloads
     \/ started = "running" /\ reloads < MaxReloads /\ reloads' = reloads + 1
        /\ UNCHANGED started
  /\ UNCHANGED <<domains, is_active, users_db, adding, add_at, users, findVars>>

\* myqttd_domain_add: only to find the domain, or to put an empty one, it takes the mutex of
\* the table. The users a domain has loaded are left alone.
DomainAdd(d) ==
  /\ d \in to_load /\ adding = NoDomain /\ walking = {}
  /\ to_load' = to_load \ {d} /\ adding' = d /\ add_at' = "free"
  /\ domains' = domains \union {d}
  /\ UNCHANGED <<is_active, users_db, started, reloads, users, findVars>>

\* its fields are written with no mutex, one after the other
AddFrees ==
  /\ adding # NoDomain /\ add_at = "free" /\ add_at' = "set"
  /\ users_db' = [users_db EXCEPT ![adding] = IF @ = NoDatabase THEN @ ELSE Dangling]
  /\ UNCHANGED <<domains, is_active, started, to_load, adding, reloads, users, findVars>>
AddSets ==
  /\ adding # NoDomain /\ add_at = "set" /\ add_at' = "active"
  /\ \E db \in Databases : users_db' = [users_db EXCEPT ![adding] = db]
  /\ UNCHANGED <<domains, is_active, started, to_load, adding, reloads, users, findVars>>
AddActivates ==
  /\ adding # NoDomain /\ add_at = "active" /\ adding' = NoDomain
  /\ \E active \in BOOLEAN : is_active' = [is_active EXCEPT ![adding] = active]
  /\ UNCHANGED <<domains, users_db, started, to_load, add_at, reloads, users, findVars>>

\* on_connect is installed at the end of the start
StartEnds ==
  /\ started = "loading" /\ to_load = {} /\ adding = NoDomain /\ started' = "running"
  /\ UNCHANGED <<domains, is_active, users_db, to_load, adding, add_at, reloads, users, findVars>>

(* ------------------------------- a CONNECT ------------------------------- *)
\* with no on_connect yet, the connection is accepted in the context of the listener
ClientConnects(c) ==
  /\ find[c] = "no"
  /\ find' = [find EXCEPT ![c] = IF started = "running" THEN "id" ELSE "open"]
  /\ UNCHANGED <<config, users, walking, chosen, way, tried>>

\* c goes on there with domain d, by way w
Finds(c, there, d, w) == /\ find' = [find EXCEPT ![c] = there]
                         /\ chosen' = [chosen EXCEPT ![c] = d]
                         /\ way' = [way EXCEPT ![c] = w]
Sources == {"id", "user", "server"}
NameFor(c) == Claims[c][find[c]]
NextSource(c) == CASE find[c] = "id" -> "user" [] find[c] = "user" -> "server" [] OTHER -> "any"

\* myqttd_domain_find_by_indications: client id, user name, server name; a name of no
\* active domain counts as no name
FindByName(c) ==
  /\ find[c] \in Sources /\ chosen[c] = NoDomain /\ walking = {}
  /\ IF NameFor(c) \in domains THEN Finds(c, find[c], NameFor(c), "none")
     ELSE Finds(c, NextSource(c), NoDomain, "none")
  /\ UNCHANGED <<config, users, walking, tried>>
\* with the mutex given back
FindIfActive(c) ==
  /\ find[c] \in Sources /\ chosen[c] # NoDomain /\ way[c] = "none"
  /\ IF is_active[chosen[c]]
     THEN Finds(c, find[c], chosen[c], IF find[c] = "server" THEN "selected" ELSE "stripped")
     ELSE Finds(c, NextSource(c), NoDomain, "none")
  /\ UNCHANGED <<config, users, walking, tried>>

\* myqttd_domain_find_by_username_client_id: every active domain is asked, the table
\* locked, in the order of the hash
WalkBegins(c) ==
  /\ find[c] = "any" /\ walking = {} /\ walking' = {c}
  /\ UNCHANGED <<config, users, find, chosen, way, tried>>
WalkTries(c, d) ==
  /\ c \in walking /\ find[c] = "any" /\ way[c] = "none" /\ d \in domains \ tried[c]
  /\ tried' = [tried EXCEPT ![c] = @ \union {d}]
  /\ IF is_active[d] THEN Finds(c, "any", d, "search") ELSE UNCHANGED <<find, chosen, way>>
  /\ UNCHANGED <<config, users, walking>>
WalkEnds(c) ==
  /\ c \in walking /\ walking' = {}
  /\ find[c] = "domain" \/ (way[c] = "none" /\ tried[c] = domains)
  /\ find' = [find EXCEPT ![c] = IF @ = "any" THEN "refused" ELSE @]
  /\ UNCHANGED <<config, users, chosen, way, tried>>

\* myqttd_domain_do_auth: the users are loaded by the first that needs them and kept, unless
\* that fails; the path may be freed while it is read
Loads(d) ==
  IF users[d] # NoDatabase THEN {users[d]}
  ELSE {NoDatabase} \union CASE users_db[d] = NoDatabase -> {}
                             [] users_db[d] = Dangling -> Databases
                             [] OTHER -> {users_db[d]}
\* Mutant: against the database configured, not the one loaded.
AuthenticatesFresh(loaded, c) ==
  loaded # NoDatabase /\ <<users_db[chosen[c]], c, way[c]>> \in Accepts
Authenticates(loaded, c) == loaded # NoDatabase /\ <<loaded, c, way[c]>> \in Accepts

\* a domain selected decides alone; in the search the next is asked
DoAuth(c) ==
  /\ way[c] # "none" /\ find[c] \in Sources \union {"any"}
  /\ \E loaded \in Loads(chosen[c]) :
       /\ users' = [users EXCEPT ![chosen[c]] = loaded]
       /\ IF Authenticates(loaded, c) THEN Finds(c, "domain", chosen[c], way[c])
          ELSE Finds(c, IF way[c] = "search" THEN "any" ELSE "refused", NoDomain, "none")
  /\ UNCHANGED <<config, walking, tried>>

DomainsNext ==
  \/ LoadBegins \/ StartEnds \/ \E d \in DomainNames : DomainAdd(d)
  \/ AddFrees \/ AddSets \/ AddActivates
  \/ \E c \in Clients : \/ ClientConnects(c) \/ FindByName(c) \/ FindIfActive(c) \/ DoAuth(c)
                        \/ WalkBegins(c) \/ WalkEnds(c)
                        \/ \E d \in DomainNames : WalkTries(c, d)
DomainsSpec == DomainsInit /\ [][DomainsNext]_domainsVars

(* ------------------------------- properties ------------------------------- *)
\* A client is handed to no domain but one that authenticated it with the users loaded there
\* (these are not loaded again, see UsersFollowConfig), as the way it was found asks for; one
\* selected by a name is the domain of that name. So whatever the table and the fields of its
\* domains, written with no mutex and for a moment to be read freed, go through meanwhile, and
\* whoever loads the users or fails to.
HandedToItsOwn ==
  \A c \in Clients : find[c] \in {"domain", "refused"} =>
    /\ (find[c] = "domain") = (chosen[c] # NoDomain)
    /\ find[c] = "domain" =>
         /\ chosen[c] \in domains /\ <<users[chosen[c]], c, way[c]>> \in Accepts
         /\ way[c] = "stripped" => chosen[c] \in {Claims[c].id, Claims[c].user}
         /\ way[c] = "selected" => chosen[c] = Claims[c].server

\* Once the broker loads a domain again with another users database (SIGHUP), it is this
\* one that decides.  Not so: the users loaded first are kept.
UsersFollowConfig ==
  \A d \in DomainNames : to_load = {} /\ users[d] # NoDatabase => users[d] = users_db[d]

\* Only a domain accepts a client ("now install auth handler to accept conections and to
\* redirect them to the right domain", server/myqttd-run.c:1441).  Not so while it starts:
\* the listeners accept before on_connect is installed.
AcceptedByDomain == \A c \in Clients : find[c] # "open"
=============================================================================
