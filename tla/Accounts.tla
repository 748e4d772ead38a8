------------------------------ MODULE Accounts ------------------------------
(***************************************************************************)
(* The accounts of the API's users: one row of the user table and one of   *)
(* the profile table each, changed by administrators' pages and by sign-in *)
(* through the directory.                                                  *)
(*                                                                         *)
(* A page loads both rows, decides on what it loaded and saves a whole row *)
(* or single columns of it later.  Rows carry the id they got when they    *)
(* were inserted: saving a whole row that is gone inserts it again.        *)
(***************************************************************************)
EXTENDS Traffic

CONSTANTS
    Roles,       \* roles an account may have; "api_user" is the one that may call
    MaxOps       \* bound on the pages opened and sign-ins tried

Passwords == {"old", "new"}

ASSUME AccountsAssumption ==
    /\ "api_user" \in Roles /\ Null \notin Roles /\ MaxOps \in Nat
    /\ Null \notin [id : Nat, active : BOOLEAN, password : Passwords]
    /\ Null \notin [id : Nat, role : Roles \cup {Null}, token : Nat \cup {Null}]

VARIABLES
    user,        \* row of the user table, or Null
    profile,     \* row of the profile table, or Null
    op,          \* the page every worker is answering
    decided,     \* history: what was last decided about every field
    suspect,     \* history: decisions a worker's older copy may undo
    ids,         \* ids handed out
    ops

accounts == <<user, profile, op, decided, suspect, ids, ops>>

Fields == {"exists", "active", "password", "role", "token"}
UserColumns == {"active", "password"}

NoOp == [pc |-> "idle", what |-> Null, who |-> Null, user |-> Null, profile |-> Null, arg |-> Null, n |-> 0]

NewUser(id, active, password) == [id |-> id, active |-> active, password |-> password]
NewProfile(id) == [id |-> id, role |-> Null, token |-> Null]

AccountsInit ==
    /\ user = [u \in Callers |-> NewUser(0, TRUE, "old")]
    /\ profile = [u \in Callers |-> [id |-> 0, role |-> "api_user", token |-> 0]]
    /\ op = [w \in Workers |-> NoOp]
    /\ decided = [u \in Callers |-> [exists |-> TRUE, active |-> TRUE, password |-> "old",
                                     role |-> "api_user", token |-> 0]]
    /\ suspect = {} /\ ids = 0 /\ ops = 0

Does(w, o) == op' = [op EXCEPT ![w] = o]
Free(w) == call[w].pc = "idle" /\ op[w].pc = "idle"

-----------------------------------------------------------------------------

UserPages == {"activate", "deactivate", "toggle", "password"}
Pages == UserPages \cup {"role", "update", "generate", "revoke", "delete"}

Args(what) == CASE what = "password" -> Passwords
                [] what \in {"role", "update"} -> Roles \cup {Null}
                [] OTHER -> {Null}

\* get_object_or_404, and the profile with it.
PageOpened(w, what, u, arg) ==
    /\ ops < MaxOps /\ ops' = ops + 1
    /\ Free(w) /\ user[u] # Null
    /\ Does(w, [pc |-> "loaded", what |-> what, who |-> u, user |-> user[u], profile |-> profile[u], arg |-> arg, n |-> 0])
    /\ UNCHANGED <<user, profile, decided, suspect, ids>>

\* Whether a request that holds o will still save field f of its copy.
Saves(o, f) ==
    /\ o.pc # "idle"
    /\ IF f \in UserColumns \cup {"exists"}
       THEN o.what \in UserPages \cup {"update"} /\ o.pc \in {"loaded", "half"}
       ELSE o.what \in {"role", "update", "signin", "create"} /\ o.pc = "loaded"

\* The columns fs of u take values from d by decision of w.
Decides(w, u, fs, d) ==
    /\ decided' = [decided EXCEPT ![u] = [f \in Fields |-> IF f \in fs THEN d[f] ELSE decided[u][f]]]
    /\ suspect' = {s \in suspect : s[1] # u \/ s[2] \notin fs} \cup
                  {<<u, f>> : f \in {f \in fs : \E v \in Workers \ {w} : op[v].who = u /\ Saves(op[v], f)}}

\* Mutant of Saved: a row that is inserted again gets no profile.
SavedBare(c, u) ==
    /\ user[u] # Null => user[u].id = c.id
    /\ user' = [user EXCEPT ![u] = c] /\ UNCHANGED <<profile, ids>>

\* Saving the whole user row: an update, an insert if the row is gone, an error
\* if another row has the name.
Saved(c, u) ==
    IF user[u] # Null
    THEN /\ user[u].id = c.id /\ user' = [user EXCEPT ![u] = c]
         /\ UNCHANGED <<profile, ids>>
    ELSE /\ user' = [user EXCEPT ![u] = c]
         /\ profile' = [profile EXCEPT ![u] = NewProfile(ids + 1)] /\ ids' = ids + 1

\* Saving the profile: an error if the row is gone.
ProfileSaved(c, u) ==
    /\ profile[u] # Null /\ profile[u].id = c.id
    /\ profile' = [profile EXCEPT ![u] = c]
    /\ UNCHANGED <<user, ids>>

\* What the pages about the user row write; none if there is nothing to do.
Active(o) == IF o.what = "toggle" THEN ~o.user.active ELSE o.what = "activate"

UserSwitched(w) ==
    LET o == op[w]
        c == [o.user EXCEPT !.active = Active(o)]
    IN /\ o.pc = "loaded" /\ o.what \in {"activate", "deactivate", "toggle"}
       /\ o.user.active # Active(o)
       /\ Saved(c, o.who) /\ Decides(w, o.who, {"active"}, c)
       /\ Does(w, NoOp) /\ UNCHANGED ops

PasswordSet(w) ==
    LET o == op[w]
        c == [o.user EXCEPT !.password = IF o.what = "update" THEN "new" ELSE o.arg]
    IN /\ \/ o.pc = "loaded" /\ o.what = "password"
          \/ o.pc = "half" /\ o.what = "update"
       /\ Saved(c, o.who) /\ Decides(w, o.who, {"password"}, c)
       /\ Does(w, NoOp) /\ UNCHANGED ops

\* The edit page saves the role first and a new password, if any, afterwards.
RoleSet(w) ==
    LET o == op[w]
        c == [o.profile EXCEPT !.role = o.arg]
    IN /\ o.pc = "loaded" /\ o.what \in {"role", "update", "create"}
       /\ ProfileSaved(c, o.who) /\ Decides(w, o.who, {"role"}, c)
       /\ \/ Does(w, NoOp)
          \/ o.what = "update" /\ Does(w, [o EXCEPT !.pc = "half"])
       /\ UNCHANGED ops

\* Mutant of TokenSaved: the whole profile is saved with the token.
TokenSavedWhole(o, t) == [o.profile EXCEPT !.token = t]

\* Only the columns of the token are saved.
TokenSaved(o, t) == [profile[o.who] EXCEPT !.token = t]

TokenGenerated(w) ==
    LET o == op[w]
        c == TokenSaved(o, ids + 1)
    IN /\ o.pc = "loaded" /\ o.what = "generate" /\ o.profile.role = "api_user"
       /\ profile[o.who] # Null /\ profile[o.who].id = o.profile.id
       /\ profile' = [profile EXCEPT ![o.who] = c] /\ ids' = ids + 1
       /\ Decides(w, o.who, {"token"}, c)
       /\ Does(w, NoOp) /\ UNCHANGED <<user, ops>>

TokenRevoked(w) ==
    LET o == op[w]
        c == TokenSaved(o, Null)
    IN /\ o.pc = "loaded" /\ o.what = "revoke"
       /\ ProfileSaved(c, o.who) /\ Decides(w, o.who, {"token"}, c)
       /\ Does(w, NoOp) /\ UNCHANGED ops

\* Only an account that was inactive when it was loaded is deleted.
UserDeleted(w) ==
    LET o == op[w] IN
    /\ o.pc = "loaded" /\ o.what = "delete" /\ ~o.user.active
    /\ user[o.who] # Null /\ user[o.who].id = o.user.id
    /\ user' = [user EXCEPT ![o.who] = Null] /\ profile' = [profile EXCEPT ![o.who] = Null]
    /\ Decides(w, o.who, {"exists"}, [exists |-> FALSE])
    /\ Does(w, NoOp) /\ UNCHANGED <<ids, ops>>

\* The page finds nothing to do, or the database refuses the save.
PageEnded(w) ==
    /\ op[w].pc \in {"loaded", "half"} /\ op[w].what # "signin"
    /\ Does(w, NoOp)
    /\ UNCHANGED <<user, profile, decided, suspect, ids, ops>>

\* The create form and the directory import insert the row; the profile comes
\* with it and is saved with its role afterwards.
Inserted(w, u, password) ==
    /\ user[u] = Null /\ ids' = ids + 1
    /\ user' = [user EXCEPT ![u] = NewUser(ids + 1, TRUE, password)]
    /\ profile' = [profile EXCEPT ![u] = NewProfile(ids + 1)]
    /\ Decides(w, u, Fields, [exists |-> TRUE, active |-> TRUE, password |-> password, role |-> Null, token |-> Null])

UserCreated(w, u, role) ==
    /\ ops < MaxOps /\ ops' = ops + 1
    /\ Free(w) /\ Inserted(w, u, "old")
    /\ Does(w, [pc |-> "loaded", what |-> "create", who |-> u, user |-> user'[u], profile |-> profile'[u],
                arg |-> role, n |-> 0])

AccountsNext(w) ==
    \/ \E u \in Callers :
         \/ \E what \in Pages : \E arg \in Args(what) : PageOpened(w, what, u, arg)
         \/ \E role \in Roles \cup {Null} : UserCreated(w, u, role)
    \/ UserSwitched(w) \/ PasswordSet(w) \/ RoleSet(w) \/ TokenGenerated(w) \/ TokenRevoked(w)
    \/ UserDeleted(w) \/ PageEnded(w)
==============================================================================
