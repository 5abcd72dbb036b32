--------------------------- MODULE TvCertificate ---------------------------
(***************************************************************************)
(* The client certificate of one television: the requests of the API       *)
(* (studio-routes.mjs, /tv/enroll and /tv/certificate), the root broker    *)
(* that signs them (roomframe-tv-certificate-broker.sh), the reverse proxy *)
(* that attests the certificate it verified, and the television            *)
(* (TvCertificateProvisioningClient.kt, TvClientCertificateStore.kt).      *)
(*                                                                         *)
(* Certificates are numbered in the order they are signed, 0 is none.  The *)
(* key pair stays in the television's keystore, so that proofs of          *)
(* possession hold.  The device key, the subject of TvCredentials, is the  *)
(* enrolment it was delivered by.  One clock serves all; the two queries   *)
(* of GET /tv/certificate are one step, and another poll repairs what a    *)
(* difference between them may cost.                                       *)
(***************************************************************************)
EXTENDS Naturals

CONSTANTS
  MaxAttempts,      \* 10: signatures tried for one request
  Sticky,           \* the firmware attaches the identity of an earlier
                    \* connection, even where the client asks for none
  MaxEnrolments,    \* bound: enrolments of the screen
  MaxAged           \* bound: the certificates that grow old are 1..MaxAged

ASSUME TvCertificateAssumption ==
  /\ MaxAttempts \in Nat \ {0} /\ Sticky \in BOOLEAN
  /\ MaxEnrolments \in Nat \ {0} /\ MaxAged \in Nat

VARIABLES
  screen,      \* the columns of screens
  request,     \* the last row of tv_certificate_requests
  broker,      \* the broker, which holds a file lock
  tv,          \* the television: device key, keystore, and its exchange
  issued,      \* the certificates signed so far are 1..issued
  age,         \* fresh, due to be renewed (30 days before the end), expired
  made         \* history: the enrolment each certificate was signed for

certVars == <<screen, request, broker, tv, issued, age, made>>

Certificates == 1..(MaxEnrolments + MaxAged)
MaybeCertificate == {0} \cup Certificates
Requests == 0..(MaxEnrolments + MaxAged)
Statuses == {"pending", "issuing", "issued", "failed", "revoked"}

CertTypeOK ==
  /\ screen \in [state : {"pending", "active", "revoked"}, enrolment : 1..MaxEnrolments,
                 active : MaybeCertificate, pending : MaybeCertificate,
                 required : BOOLEAN, revoked : BOOLEAN]
  /\ request \in [id : Requests, status : Statuses, attempts : 0..MaxAttempts,
                  certificate : MaybeCertificate]
  /\ broker \in [id : Requests, enrolment : 0..MaxEnrolments]
  /\ tv \in [enrolment : 0..MaxEnrolments, installed : MaybeCertificate,
             shown : MaybeCertificate, pc : {"idle", "fetched", "installed", "activated"},
             certificate : MaybeCertificate, activate : BOOLEAN]
  /\ issued \in MaybeCertificate
  /\ age \in [Certificates -> {"fresh", "due", "expired"}]
  /\ made \in [Certificates -> 0..MaxEnrolments]

NoBroker == [id |-> 0, enrolment |-> 0]
Expired(c) == c # 0 /\ age[c] = "expired"
OpenRequest == request.status \in {"pending", "issuing"}

CertInit ==
  /\ screen = [state |-> "pending", enrolment |-> 1, active |-> 0, pending |-> 0,
               required |-> FALSE, revoked |-> FALSE]
  /\ request = [id |-> 0, status |-> "revoked", attempts |-> 0, certificate |-> 0]
  /\ broker = NoBroker
  /\ tv = [enrolment |-> 0, installed |-> 0, shown |-> 0, pc |-> "idle",
           certificate |-> 0, activate |-> FALSE]
  /\ issued = 0
  /\ age = [c \in Certificates |-> "fresh"]
  /\ made = [c \in Certificates |-> 0]

----------------------------------------------------------------------------
(* Authentication, activeTvFromRequest.                                    *)

Authenticated == screen.state = "active" /\ tv.enrolment = screen.enrolment

(* The proxy verifies what the television presents, dates included; the    *)
(* client leaves an expired certificate out.                               *)
Presented == IF Expired(tv.shown) THEN 0 ELSE tv.shown

RecoveryAllowed ==
  /\ screen.active = 0 /\ screen.pending # 0
  /\ ~ Expired(screen.pending) /\ ~ screen.revoked

Matches(c) == c # 0 /\ c = screen.active
MatchesPending(c) == c # 0 /\ c = screen.pending

(* A certificate is optional on the routes of the certificate itself,      *)
(* which accept the pending one, or any while recovery is allowed...       *)
(* (Mutant: an unknown one is refused all the same.)                       *)
AcceptedIfKnown(c) == c = 0 \/ Matches(c) \/ MatchesPending(c)
AcceptedForCertificate(c) == c = 0 \/ Matches(c) \/ MatchesPending(c) \/ RecoveryAllowed

(* ... and is required everywhere else, once one is active, or has been    *)
(* pending for a day.                                                      *)
AcceptedElsewhere(c) ==
  /\ c = 0 \/ Matches(c)
  /\ screen.active # 0 => Matches(c)
  /\ screen.active = 0 => ~ screen.required

----------------------------------------------------------------------------
(* Enrolment, revocation.                                                  *)

NewRequest ==
  request' = [id |-> request.id + 1, status |-> "pending", attempts |-> 0, certificate |-> 0]
RevokeRequest == request' = IF OpenRequest THEN [request EXCEPT !.status = "revoked"] ELSE request

(* POST /tv/enroll; the answer, with the device key, may be lost.          *)
Enrol ==
  /\ screen.state = "pending" /\ tv.pc = "idle"
  /\ screen' = [screen EXCEPT !.state = "active"]
  /\ NewRequest
  /\ \/ tv' = [tv EXCEPT !.enrolment = screen.enrolment]
     \/ UNCHANGED tv
  /\ UNCHANGED <<broker, issued, age, made>>

(* POST /tvs/:id/revoke keeps the active fingerprint.                      *)
Revoke ==
  /\ screen.state # "revoked"
  /\ screen' = [screen EXCEPT !.state = "revoked", !.revoked = TRUE,
                              !.pending = 0, !.required = FALSE]
  /\ RevokeRequest
  /\ UNCHANGED <<broker, tv, issued, age, made>>

(* POST /tvs/:id/reenroll.                                                 *)
Reenroll ==
  /\ screen.enrolment < MaxEnrolments
  /\ screen' = [state |-> "pending", enrolment |-> screen.enrolment + 1, active |-> 0,
                pending |-> 0, required |-> FALSE, revoked |-> TRUE]
  /\ RevokeRequest
  /\ UNCHANGED <<broker, tv, issued, age, made>>

----------------------------------------------------------------------------
(* The broker.  Its file lock leaves one at a time.                        *)

(* What a broker that died left behind, five minutes later.                *)
Sweep ==
  /\ broker = NoBroker /\ request.status = "issuing"
  /\ request' = [request EXCEPT !.status = "pending"]
  /\ UNCHANGED <<screen, broker, tv, issued, age, made>>

Claim ==
  /\ broker = NoBroker
  /\ request.status = "pending" /\ request.attempts < MaxAttempts
  /\ request' = [request EXCEPT !.status = "issuing", !.attempts = @ + 1]
  /\ broker' = [id |-> request.id, enrolment |-> screen.enrolment]
  /\ UNCHANGED <<screen, tv, issued, age, made>>

Claimed == request.id = broker.id /\ request.status = "issuing"

SignFails ==
  /\ broker # NoBroker
  /\ broker' = NoBroker
  /\ request' = IF ~ Claimed THEN request
                ELSE [request EXCEPT !.status =
                        IF request.attempts >= MaxAttempts THEN "failed" ELSE "pending"]
  /\ UNCHANGED <<screen, tv, issued, age, made>>

Sign ==
  /\ issued' = issued + 1
  /\ made' = [made EXCEPT ![issued + 1] = broker.enrolment]

(* Mutants: the request is not looked at again before the certificate is   *)
(* published; it is the active one at once.                                *)
PublishAnyway ==
  /\ broker # NoBroker
  /\ broker' = NoBroker
  /\ IF screen.state = "active" THEN
       /\ Sign
       /\ request' = [request EXCEPT !.status = "issued", !.certificate = issued + 1]
       /\ screen' = [screen EXCEPT !.pending = issued + 1, !.required = FALSE,
                                   !.revoked = FALSE]
     ELSE UNCHANGED <<screen, request, issued, made>>
  /\ UNCHANGED <<tv, age>>
PublishActive ==
  /\ broker # NoBroker
  /\ broker' = NoBroker
  /\ IF Claimed /\ screen.state = "active" THEN
       /\ Sign
       /\ request' = [request EXCEPT !.status = "issued", !.certificate = issued + 1]
       /\ screen' = [screen EXCEPT !.active = issued + 1, !.revoked = FALSE]
     ELSE UNCHANGED <<screen, request, issued, made>>
  /\ UNCHANGED <<tv, age>>

(* One transaction marks the request issued, sets the pending certificate, *)
(* and drops both if the request or the screen has changed.                *)
Publish ==
  /\ broker # NoBroker
  /\ broker' = NoBroker
  /\ IF Claimed /\ screen.state = "active" THEN
       /\ Sign
       /\ request' = [request EXCEPT !.status = "issued", !.certificate = issued + 1]
       /\ screen' = [screen EXCEPT !.pending = issued + 1, !.required = FALSE,
                                   !.revoked = FALSE]
     ELSE UNCHANGED <<screen, request, issued, made>>
  /\ UNCHANGED <<tv, age>>

BrokerDies ==
  /\ broker # NoBroker
  /\ broker' = NoBroker
  /\ UNCHANGED <<screen, request, tv, issued, age, made>>

----------------------------------------------------------------------------
(* The television: TvCertificateProvisioningClient.synchronize.  What an   *)
(* exchange changed on the server stays when its answer is lost (TvStops). *)

Rest(t) == [t EXCEPT !.pc = "idle", !.certificate = 0, !.activate = FALSE]

(* GET /tv/certificate, with the certificate first, then without.          *)
Fetch ==
  /\ tv.pc = "idle" /\ Authenticated /\ request.id # 0
  /\ \E c \in IF Sticky THEN {Presented} ELSE {Presented, 0} : AcceptedForCertificate(c)
  /\ request.status = "issued"
  /\ tv' = [tv EXCEPT !.pc = "fetched", !.certificate = request.certificate,
                      !.activate = screen.active # request.certificate]
  /\ UNCHANGED <<screen, request, broker, issued, age, made>>

(* The chain replaces the one in the keystore; connections already open    *)
(* may keep showing the old one.                                           *)
Install ==
  /\ tv.pc = "fetched" /\ ~ Expired(tv.certificate)
  /\ \E c \in {tv.shown, tv.certificate} :
       tv' = [tv EXCEPT !.installed = tv.certificate, !.shown = c,
                        !.pc = IF tv.activate \/ tv.installed # tv.certificate
                               THEN "installed" ELSE "activated"]
  /\ UNCHANGED <<screen, request, broker, issued, age, made>>

Promote == [screen EXCEPT !.active = screen.pending, !.pending = 0, !.required = FALSE]

(* POST /tv/certificate/activate: the pending certificate is presented, or *)
(* its possession is proved while none is active; the active one, again.   *)
Activate ==
  /\ tv.pc = "installed"
  /\ Authenticated /\ AcceptedForCertificate(Presented)
  /\ \/ /\ MatchesPending(Presented) /\ ~ screen.revoked
        /\ screen' = Promote
     \/ /\ screen.pending # 0 /\ ~ MatchesPending(Presented) /\ RecoveryAllowed
        /\ request.status = "issued" /\ request.certificate = screen.pending
        /\ tv.installed = screen.pending /\ tv.certificate = screen.pending
        /\ screen' = Promote
     \/ /\ screen.pending = 0 /\ Matches(Presented)
        /\ UNCHANGED screen
  /\ tv' = [tv EXCEPT !.pc = "activated"]
  /\ UNCHANGED <<request, broker, issued, age, made>>

(* POST /tv/certificate/renew, when the installed one is due; the server   *)
(* keeps the request that is open.                                         *)
Renew ==
  /\ tv.pc = "activated" /\ age[tv.installed] = "due"
  /\ Authenticated /\ AcceptedElsewhere(Presented)
  /\ screen.active # 0 /\ age[screen.active] = "due" /\ screen.pending = 0
  /\ IF OpenRequest THEN UNCHANGED request ELSE NewRequest
  /\ tv' = Rest(tv)
  /\ UNCHANGED <<screen, broker, issued, age, made>>

Settle ==
  /\ tv.pc = "activated" /\ age[tv.installed] = "fresh"
  /\ tv' = Rest(tv)
  /\ UNCHANGED <<screen, request, broker, issued, age, made>>

(* A refusal, a lost answer, the death of the process.                     *)
TvStops ==
  /\ tv.pc # "idle"
  /\ tv' = Rest(tv)
  /\ UNCHANGED <<screen, request, broker, issued, age, made>>

(* New connections show the installed chain.                               *)
Reconnect ==
  /\ tv.shown # tv.installed
  /\ tv' = [tv EXCEPT !.shown = tv.installed]
  /\ UNCHANGED <<screen, request, broker, issued, age, made>>

----------------------------------------------------------------------------
(* Time.                                                                   *)

Age(c) ==
  /\ c <= issued /\ c <= MaxAged /\ age[c] # "expired"
  /\ age' = [age EXCEPT ![c] = IF @ = "fresh" THEN "due" ELSE "expired"]
  /\ UNCHANGED <<screen, request, broker, tv, issued, made>>

(* A certificate is required a day after it was issued.                    *)
Require ==
  /\ screen.pending # 0 /\ ~ screen.required
  /\ screen' = [screen EXCEPT !.required = TRUE]
  /\ UNCHANGED <<request, broker, tv, issued, age, made>>

Administration == Enrol \/ Revoke \/ Reenroll
Broker == Sweep \/ Claim \/ SignFails \/ Publish \/ BrokerDies
Television == Fetch \/ Install \/ Activate \/ Renew \/ Settle \/ TvStops \/ Reconnect
Ageing == Require \/ \E c \in Certificates : Age(c)

CertNext == Administration \/ Broker \/ Television \/ Ageing

CertSpec == CertInit /\ [][CertNext]_certVars

(* systemd runs the broker every ten seconds, and its commands end.  The   *)
(* television polls every minute: an exchange repeated for ever gets       *)
(* through in the end, and no connection lasts for ever.                   *)
CertFairness ==
  /\ WF_certVars(Sweep) /\ WF_certVars(Claim) /\ WF_certVars(SignFails \/ Publish \/ BrokerDies)
  /\ SF_certVars(Fetch) /\ SF_certVars(Install) /\ SF_certVars(Activate) /\ SF_certVars(Renew)
  /\ WF_certVars(Reconnect)

CertFairSpec == CertSpec /\ CertFairness

----------------------------------------------------------------------------
(* Correctness.                                                            *)

(* A certificate serves the enrolment it was signed for: one that a broker *)
(* was signing while the screen was revoked or enrolled again is dropped.  *)
OfThisEnrolment ==
  /\ CertTypeOK
  /\ \A c \in {screen.active, screen.pending} \ {0} :
       screen.state = "active" => made[c] = screen.enrolment

(* The server never requires a certificate the television does not have,   *)
(* or is not about to be let in with.                                      *)
NoDeadEnd ==
  Authenticated /\ screen.active # 0 =>
    tv.installed # 0 /\ tv.installed \in {screen.active, screen.pending}

(* The broker gave up, or was interrupted as often as it may try.          *)
Exhausted ==
  \/ request.status = "failed"
  \/ request.status = "pending" /\ request.attempts = MaxAttempts

Secured ==
  /\ screen.active # 0 /\ AcceptedElsewhere(Presented)
  /\ age[screen.active] = "fresh"

(* An enrolled television gets a certificate and uses it, and gets another *)
(* before it expires, unless the broker gives up or it comes too late.     *)
CertificateComes ==
  Authenticated ~>
    \/ Secured \/ Exhausted \/ ~ Authenticated
    \/ \E c \in {screen.active, screen.pending, tv.installed} : Expired(c)
=============================================================================
