----------------------------- MODULE Identities -----------------------------
(***************************************************************************)
(* Which profile an address or a handle belongs to: what a Supabase        *)
(* account proves, the rows of the table identities, and the requests to   *)
(* /v1/session/sync that bring the rows up to date, one statement of the   *)
(* database after the other while other requests run.                      *)
(*                                                                         *)
(* Supabase is external: a login, that is an account with Google, with X   *)
(* or an email one, is linked to one profile at a time; who links it again *)
(* may have another address or handle by then.  The names of addresses and *)
(* handles differ, so a name says which providers it belongs with.         *)
(***************************************************************************)
EXTENDS Naturals

CONSTANTS Persons,      \* profiles
          Logins,
          KindOf,       \* the provider of a login
          Addresses, Handles,
          Unknown,      \* no address, no handle, no row, nobody
          Syncs,        \* requests that may run at the same time
          MaxChanges    \* bound: logins linked and unlinked

ASSUME IdentitiesAssumption ==
    /\ KindOf \in [Logins -> {"google", "x", "email"}]
    /\ Unknown \notin Persons \cup Addresses \cup Handles
    /\ Addresses \cap Handles = {}
    /\ MaxChanges \in Nat

VARIABLES
    accounts,   \* auth.users: the logins of a profile, and its confirmed email
    identities, \* the row of a key, a provider and a subject
    syncing,    \* what every request is about to do
    changes,
    alone,      \* requests that have their profile to themselves
    settled,    \* profiles that have not changed since one of these was through
    raced       \* two profiles wrote one name at the same time

ghosts == <<alone, settled, raced>>
identitiesVars == <<accounts, identities, syncing, changes, ghosts>>

Names == Addresses \cup Handles
Linked == {link \in [login: Logins, email: Addresses \cup {Unknown},
                     handle: Handles \cup {Unknown}] :
              KindOf[link.login] # "x" => link.handle = Unknown}
User == [logins: SUBSET Linked, email: Addresses \cup {Unknown}]

Keys == {"google", "x", "email"} \X Logins
Row == [owner: Persons, name: Names, status: {"active", "revoked"}]
Verified == [key: Keys, name: Names]

NoSync == [pc |-> "idle", owner |-> Unknown, todo |-> {}, wanted |-> {}, at |-> Unknown,
           found |-> "no row", stale |-> {}]

Request == [pc: {"idle", "subject", "name", "trigger", "write", "active", "revoke"},
             owner: Persons \cup {Unknown}, todo: SUBSET Verified, wanted: SUBSET Verified,
             at: Verified \cup {Unknown}, found: {"row", "no row"},
             stale: SUBSET Keys]

ASSUME UnknownIsNoRow == Unknown \notin Row /\ Unknown \notin Verified

IdentitiesTypeOK ==
    /\ accounts \in [Persons -> User]
    /\ identities \in [Keys -> Row \cup {Unknown}]
    /\ syncing \in [Syncs -> Request]
    /\ changes \in 0..MaxChanges
    /\ alone \subseteq Syncs /\ settled \subseteq Persons /\ raced \in BOOLEAN

\* Accounts may be older than their first sync.
IdentitiesInit ==
    /\ accounts \in [Persons -> User]
    /\ \A p, q \in Persons : \A a \in accounts[p].logins, b \in accounts[q].logins :
          a.login = b.login => p = q /\ a = b
    /\ \A p \in Persons : accounts[p].email \in {Unknown} \cup {link.email : link \in accounts[p].logins}
    /\ identities = [k \in Keys |-> Unknown]
    /\ syncing = [s \in Syncs |-> NoSync]
    /\ changes = 0
    /\ alone = {} /\ settled = {} /\ raced = FALSE

-----------------------------------------------------------------------------
(* collectVerifiedIdentities.                                               *)

Named(provider, login, name) ==
    IF name = Unknown THEN {} ELSE {[key |-> <<provider, login>>, name |-> name]}

\* An account with nothing but X lends X its own confirmed email.
EmailOfX(user, link) ==
    IF link.email = Unknown /\ \A other \in user.logins : KindOf[other.login] = "x"
    THEN user.email ELSE link.email

FromLogin(user, link) ==
    CASE KindOf[link.login] = "google" -> Named("google", link.login, link.email)
      [] KindOf[link.login] = "x" -> Named("x", link.login, link.handle)
                                     \cup Named("email", link.login, EmailOfX(user, link))
      [] OTHER -> {}

Collected(user) == UNION {FromLogin(user, link) : link \in user.logins}

-----------------------------------------------------------------------------
(* Supabase: a login is linked, with the name it has now, or unlinked.  The *)
(* confirmed email of an account is one it got with a login.                *)

\* The requests that sync a profile.
Busy(p) == {s \in Syncs : syncing[s].owner = p}

Alter(p, user) ==
    /\ changes < MaxChanges /\ changes' = changes + 1
    /\ accounts' = [accounts EXCEPT ![p] = user]
    /\ settled' = settled \ {p}
    /\ alone' = alone \ Busy(p)
    /\ UNCHANGED <<identities, syncing, raced>>

LinkLogin(p) ==
    \E link \in Linked : \E email \in {accounts[p].email, link.email} :
        /\ \A q \in Persons : \A other \in accounts[q].logins : other.login # link.login
        /\ Alter(p, [logins |-> accounts[p].logins \cup {link}, email |-> email])

\* The browser keeps the last one.
UnlinkLogin(p) ==
    \E link \in accounts[p].logins :
        /\ accounts[p].logins # {link}
        /\ Alter(p, [accounts[p] EXCEPT !.logins = @ \ {link}])

-----------------------------------------------------------------------------
(* syncProfileIdentities.                                                   *)

Doing(s, pc) == syncing[s].pc = pc
Goes(s, new) == syncing' = [syncing EXCEPT ![s] = new]
Stops(s) == Goes(s, NoSync) /\ alone' = alone \ {s}

Upserting(task) ==
    [task EXCEPT !.pc = IF task.todo = {} THEN "active" ELSE "subject", !.at = Unknown,
                 !.found = "no row"]

\* getUser: from here on the request knows the account as it is now.
BeginSync(s) ==
    /\ Doing(s, "idle")
    /\ \E p \in Persons :
          LET seen == Collected(accounts[p])
          IN  /\ Goes(s, Upserting([NoSync EXCEPT !.owner = p, !.todo = seen, !.wanted = seen]))
              /\ alone' = (alone \ Busy(p)) \cup (IF Busy(p) = {} THEN {s} ELSE {})
              /\ settled' = settled \ {p}
    /\ UNCHANGED <<accounts, identities, changes, raced>>

\* upsertVerifiedIdentity, once for each identity.  The row of a key stays with
\* the profile that had it first.
CheckSubject(s) ==
    /\ Doing(s, "subject")
    /\ \E new \in syncing[s].todo :
          LET row == identities[new.key]
          IN  IF row # Unknown /\ row.owner # syncing[s].owner
              THEN Stops(s)
              ELSE /\ Goes(s, [syncing[s] EXCEPT !.pc = "name", !.at = new,
                                 !.found = IF row = Unknown THEN "no row" ELSE "row"])
                   /\ UNCHANGED alone
    /\ UNCHANGED <<accounts, identities, changes, settled, raced>>

IsActive(k) == identities[k] # Unknown /\ identities[k].status = "active"
ActiveAs(name) == {k \in Keys : IsActive(k) /\ identities[k].name = name}

ActiveOf(p) == {[key |-> k, name |-> identities[k].name] :
                   k \in {l \in Keys : IsActive(l) /\ identities[l].owner = p}}

\* Another profile has the name.
Taken(s) == \E k \in ActiveAs(syncing[s].at.name) :
                identities[k].owner # syncing[s].owner

CheckName(s) ==
    /\ Doing(s, "name")
    /\ IF Taken(s) THEN Stops(s)
       ELSE Goes(s, [syncing[s] EXCEPT !.pc = "trigger"]) /\ UNCHANGED alone
    /\ UNCHANGED <<accounts, identities, changes, settled, raced>>

Racing(s) == \E u \in Syncs : /\ Doing(u, "write")
                              /\ syncing[u].owner # syncing[s].owner
                              /\ syncing[u].at.name = syncing[s].at.name

\* enforce_identity_owner sees what is committed when the statement begins.
Enforce_Trusts(s) ==
    /\ Doing(s, "trigger")
    /\ Goes(s, [syncing[s] EXCEPT !.pc = "write"])
    /\ raced' = (raced \/ Racing(s))
    /\ UNCHANGED <<accounts, identities, changes, alone, settled>>

Enforce(s) ==
    /\ Doing(s, "trigger")
    /\ IF Taken(s) THEN Stops(s) /\ UNCHANGED raced
       ELSE /\ Goes(s, [syncing[s] EXCEPT !.pc = "write"])
            /\ raced' = (raced \/ Racing(s))
            /\ UNCHANGED alone
    /\ UNCHANGED <<accounts, identities, changes, settled>>

New(owner, name) == [owner |-> owner, name |-> name, status |-> "active"]
Renewed(row, name) == [row EXCEPT !.name = name, !.status = "active"]
Ended(row) == [row EXCEPT !.status = "revoked"]

\* The unique indices are kept by the database when it commits.
Clashes(s) ==
    LET new == syncing[s].at
    IN  \/ \E k \in ActiveAs(new.name) : k[1] = new.key[1] /\ k # new.key
        \/ syncing[s].found = "no row" /\ identities[new.key] # Unknown

Write_KeepsName(s) ==
    LET new == syncing[s].at
    IN  /\ Doing(s, "write")
        /\ IF Clashes(s) THEN Stops(s) /\ UNCHANGED identities
           ELSE /\ identities' = [identities EXCEPT ![new.key] =
                      IF syncing[s].found = "row" THEN Renewed(@, @.name)
                      ELSE New(syncing[s].owner, new.name)]
                /\ Goes(s, Upserting([syncing[s] EXCEPT !.todo = @ \ {new}]))
                /\ UNCHANGED alone
        /\ UNCHANGED <<accounts, changes, settled, raced>>

Write(s) ==
    LET new == syncing[s].at
    IN  /\ Doing(s, "write")
        /\ IF Clashes(s) THEN Stops(s) /\ UNCHANGED identities
           ELSE /\ identities' = [identities EXCEPT ![new.key] =
                      IF syncing[s].found = "row" THEN Renewed(@, new.name)
                      ELSE New(syncing[s].owner, new.name)]
                /\ Goes(s, Upserting([syncing[s] EXCEPT !.todo = @ \ {new}]))
                /\ UNCHANGED alone
        /\ UNCHANGED <<accounts, changes, settled, raced>>

\* The request returns what it has synchronised.
Returns(s) ==
    /\ Stops(s)
    /\ settled' = IF s \in alone THEN settled \cup {syncing[s].owner} ELSE settled

\* What the account no longer proves.
Stale(task, k) == /\ IsActive(k) /\ identities[k].owner = task.owner
                  /\ \A new \in task.wanted : new.key # k

ReadActive(s) ==
    LET task == syncing[s]
        stale == {k \in Keys : Stale(task, k)}
    IN  /\ Doing(s, "active")
        /\ IF stale = {} THEN Returns(s)
           ELSE /\ Goes(s, [task EXCEPT !.pc = "revoke", !.stale = stale])
                /\ UNCHANGED <<alone, settled>>
        /\ UNCHANGED <<accounts, identities, changes, raced>>

Revoke(s) ==
    /\ Doing(s, "revoke")
    /\ identities' = [k \in Keys |-> IF k \in syncing[s].stale
                                     THEN Ended(identities[k])
                                     ELSE identities[k]]
    /\ Returns(s)
    /\ UNCHANGED <<accounts, changes, raced>>

\* A statement fails, or the process dies: what has been written stays.
Fails(s) == /\ ~Doing(s, "idle")
            /\ Stops(s)
            /\ UNCHANGED <<accounts, identities, changes, settled, raced>>

SyncStep(s) == \/ BeginSync(s) \/ CheckSubject(s) \/ CheckName(s) \/ Enforce(s) \/ Write(s)
               \/ ReadActive(s) \/ Revoke(s) \/ Fails(s)

IdentitiesNext == \/ \E p \in Persons : LinkLogin(p) \/ UnlinkLogin(p)
                  \/ \E s \in Syncs : SyncStep(s)

IdentitiesSpec == IdentitiesInit /\ [][IdentitiesNext]_identitiesVars

-----------------------------------------------------------------------------
\* A sender who names an address or a handle reaches one profile: no two have it,
\* whichever logins it comes with, unless both wrote it at the same time.
NameHasOneProfile ==
    raced \/ \A k, l \in Keys : /\ IsActive(k) /\ IsActive(l)
                                /\ identities[k].name = identities[l].name
                                => identities[k].owner = identities[l].owner

\* The migration says that the trigger prevents the rest, too.
OneProfile ==
    \A k, l \in Keys : /\ IsActive(k) /\ IsActive(l)
                       /\ identities[k].name = identities[l].name
                       => identities[k].owner = identities[l].owner

\* A sync that had the profile to itself leaves it with what the account proves,
\* whatever others did meanwhile: all of it, and nothing that has been unlinked.
SettledIsTrue ==
    \A p \in settled : ActiveOf(p) = Collected(accounts[p])
=============================================================================
