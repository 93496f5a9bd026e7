----------------------------- MODULE Enrollment -----------------------------
(***************************************************************************)
(* Device enrollment and invites of the sync service                       *)
(* (services/sync/src/devices.ts and invites.ts).                          *)
(*                                                                         *)
(* Neither repository has a clock: every time in a call is the caller's,   *)
(* so calls that were stamped in one order arrive in any other, late or    *)
(* twice.  Calls replace the whole array or throw and change nothing.      *)
(***************************************************************************)
EXTENDS Integers

CONSTANTS
  Workspaces, Devices, Invites,
  Tokens,      \* invite tokens, after trimming
  Hash(_),     \* hashInviteToken
  MaxTime      \* bound: the latest time

ASSUME EnrollmentAssumption == MaxTime \in Nat /\ "nobody" \notin Devices

Time == 0 .. MaxTime
Nobody == "nobody"

VARIABLES
  devices,   \* enrollments by workspace and device: a partial function
  invites,   \* invites by workspace and invite: a partial function
  joined     \* history: the acceptances answered, invite and device

enrollmentVars == <<devices, invites, joined>>

(* registerDevice: the id must be new to the workspace, even if the device  *)
(* that had it was removed; it is seen no earlier than it is registered.    *)
Register(k, at, seen) ==
  /\ k \notin DOMAIN devices /\ at <= seen
  /\ devices' = [x \in DOMAIN devices \cup {k} |->
       IF x = k THEN [status |-> "active", registeredAt |-> at, lastSeenAt |-> seen]
       ELSE devices[x]]
  /\ UNCHANGED <<invites, joined>>

MaySee(d, at) == d.status = "active" /\ at >= d.registeredAt /\ at >= d.lastSeenAt

UpdateLastSeen(k, at) ==
  /\ k \in DOMAIN devices /\ MaySee(devices[k], at)
  /\ devices' = [devices EXCEPT ![k].lastSeenAt = at]
  /\ UNCHANGED <<invites, joined>>

(* Mutant: a removed device can be suspended.                               *)
MaySetAny(d, status) == TRUE

(* setDeviceStatus: nothing makes a device active again.                    *)
MaySet(d, status) == ~(status = "suspended" /\ d.status = "removed")

SetStatus(k, status) ==
  /\ k \in DOMAIN devices /\ MaySet(devices[k], status)
  /\ devices' = [devices EXCEPT ![k].status = status]
  /\ UNCHANGED <<invites, joined>>

-----------------------------------------------------------------------------
CreateInvite(k, token, at, expiresAt) ==
  /\ k \notin DOMAIN invites /\ at < expiresAt
  /\ invites' = [x \in DOMAIN invites \cup {k} |->
       IF x = k THEN [tokenHash |-> Hash(token), createdAt |-> at, expiresAt |-> expiresAt,
                      status |-> "pending", acceptedAt |-> -1, acceptedBy |-> Nobody]
       ELSE invites[x]]
  /\ UNCHANGED <<devices, joined>>

InviteExpired(i, at) == i.expiresAt <= at

(* Mutant: an invite that was accepted can be accepted again.               *)
MayAcceptAgain(i, token, at) ==
  i.status # "expired" /\ ~InviteExpired(i, at) /\ i.tokenHash = Hash(token)

MayAccept(i, token, at) ==
  /\ i.status # "accepted" /\ i.acceptedAt = -1
  /\ i.status # "expired" /\ ~InviteExpired(i, at)
  /\ i.tokenHash = Hash(token)

AcceptInvite(k, token, at, device) ==
  /\ k \in DOMAIN invites /\ MayAccept(invites[k], token, at)
  /\ invites' = [invites EXCEPT ![k].status = "accepted", ![k].acceptedAt = at,
                                ![k].acceptedBy = device]
  /\ joined' = joined \cup {<<k, device>>}
  /\ UNCHANGED devices

Swept(i, now) == i.status = "pending" /\ InviteExpired(i, now)

(* expireInvites, for all workspaces at once.                               *)
ExpireInvites(now) ==
  /\ invites' = [k \in DOMAIN invites |->
       IF Swept(invites[k], now) THEN [invites[k] EXCEPT !.status = "expired"]
       ELSE invites[k]]
  /\ UNCHANGED <<devices, joined>>

EnrollmentInit ==
  /\ devices = [k \in {} |-> {}]
  /\ invites = [k \in {} |-> {}]
  /\ joined = {}

EnrollmentNext ==
  \/ \E k \in Workspaces \X Devices :
       \/ \E at, seen \in Time : Register(k, at, seen)
       \/ \E at \in Time : UpdateLastSeen(k, at)
       \/ \E status \in {"suspended", "removed"} : SetStatus(k, status)
  \/ \E k \in Workspaces \X Invites, token \in Tokens, at \in Time :
       \/ \E expiresAt \in Time : CreateInvite(k, token, at, expiresAt)
       \/ \E device \in Devices : AcceptInvite(k, token, at, device)
  \/ \E now \in Time : ExpireInvites(now)

EnrollmentSpec == EnrollmentInit /\ [][EnrollmentNext]_enrollmentVars

-----------------------------------------------------------------------------
Device == [status : {"active", "suspended", "removed"}, registeredAt : Time, lastSeenAt : Time]

(* Devices are seen no earlier than registered; an invite is accepted by    *)
(* a device and at a time exactly when its status says so.                  *)
EnrollmentTypeOK ==
  /\ DOMAIN devices \subseteq Workspaces \X Devices
  /\ \A k \in DOMAIN devices : devices[k] \in Device /\ devices[k].registeredAt <= devices[k].lastSeenAt
  /\ DOMAIN invites \subseteq Workspaces \X Invites
  /\ \A k \in DOMAIN invites :
       /\ invites[k].createdAt < invites[k].expiresAt
       /\ invites[k].status \in {"pending", "accepted", "expired"}
       /\ (invites[k].status = "accepted") = (invites[k].acceptedBy \in Devices)
       /\ (invites[k].status = "accepted") = (invites[k].acceptedAt \in Time)

(* An invite is single-use: whoever races for it, one device is answered    *)
(* that it accepted, at a time before the expiry, and that is the device    *)
(* the invite names for good, whatever sweeps come after.                   *)
InvitesAreSingleUse ==
  \A j \in joined :
    /\ \A other \in joined : other[1] = j[1] => other = j
    /\ invites[j[1]].status = "accepted" /\ invites[j[1]].acceptedBy = j[2]
    /\ ~InviteExpired(invites[j[1]], invites[j[1]].acceptedAt)

Rank(status) == CASE status = "active" -> 0 [] status = "suspended" -> 1 [] status = "removed" -> 2

(* Revocation sticks: a device never comes back from a stronger status to a *)
(* weaker one, its id is never registered anew, and from its suspension on  *)
(* no report moves the time it was last seen, which never goes back at all. *)
RevocationSticks ==
  [][\A k \in DOMAIN devices :
       /\ k \in DOMAIN devices'
       /\ Rank(devices[k].status) <= Rank(devices'[k].status)
       /\ devices[k].lastSeenAt <= devices'[k].lastSeenAt
       /\ devices[k].status # "active" => devices'[k].lastSeenAt = devices[k].lastSeenAt]_enrollmentVars
=============================================================================
