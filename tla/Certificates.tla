---------------------------- MODULE Certificates ----------------------------
(***************************************************************************)
(* The two places a certificate and its private key are kept: the device's *)
(* own (cert_manager.c, with a cache in RAM) and the web server's          *)
(* (web_server.c over security_manager.c, no cache it would answer from).  *)
(* In both the two are separate keys of the NVS, written one after the     *)
(* other.                                                                  *)
(*                                                                         *)
(* A certificate and a key are the number of the key pair they were made   *)
(* with.  Making them (mbedtls) works or not.  One caller at a time: the   *)
(* code has no lock.  The NVS is external: a write is refused, or it is    *)
(* made and its commit answers an error, or it is made; a reset between a  *)
(* write and its commit counts as one before or after both.                *)
(***************************************************************************)
EXTENDS Naturals

CONSTANTS
    MaxPairs,       \* bound: key pairs that are made
    MaxResets       \* bound: resets

ASSUME CertificatesAssumption == MaxPairs \in Nat /\ MaxResets \in Nat

\* The places, and what is in one: a certificate and a key, 0 for none.
Place == {"device", "https"}
Nothing == [cert |-> 0, key |-> 0]

VARIABLES
    nvs,        \* what each place holds
    cache,      \* s_cert_cache, valid unless it is Nothing; server_cert and server_key
    due,        \* the certificates that have to be renewed by now
    cachedDue,  \* s_cert_cache.days_remaining says that the cached one has to be
    call,       \* the call under way: where it is, in which place, with which pair
    torn,       \* places where an error or a reset came between the two writes
    pairs, resets       \* counted for the bounds

certBounds == <<pairs, resets>>
certVars == <<nvs, cache, due, cachedDue, call, torn, certBounds>>

NoCall == [at |-> "none", in |-> "device", pair |-> 0, imported |-> FALSE]

CertInit ==
    /\ nvs = [p \in Place |-> Nothing]
    /\ cache = [p \in Place |-> Nothing]
    /\ due = {}
    /\ cachedDue = FALSE
    /\ call = NoCall
    /\ torn = {}
    /\ pairs = 0
    /\ resets = 0

Complete(entry) == entry.cert # 0 /\ entry.key # 0

----------------------------------------------------------------------------
\* Reading.

\* parse_cert_expiry.
IsDue(cert) == cert \in due

\* cert_manager_load: from the cache if it is valid, whatever the NVS holds by now.
DeviceLoaded ==
    IF cache["device"] = Nothing /\ Complete(nvs["device"])
    THEN /\ cache' = [cache EXCEPT !["device"] = nvs["device"]]
         /\ cachedDue' = IsDue(nvs["device"].cert)
    ELSE UNCHANGED <<cache, cachedDue>>

LoadDevice ==
    /\ call.at = "none"
    /\ DeviceLoaded
    /\ UNCHANGED <<nvs, due, call, torn, certBounds>>

\* security_is_cert_expired goes by the clock, which nothing in the firmware sets.
DateIsAccepted == BOOLEAN

\* load_certificates_from_nvs: freed first, and again when a part is missing or the date
\* of the certificate is not accepted.
LoadHttps ==
    /\ call.at = "none"
    /\ \E accepted \in DateIsAccepted :
          cache' = [cache EXCEPT !["https"] = IF Complete(nvs["https"]) /\ accepted
                                              THEN nvs["https"] ELSE Nothing]
    /\ UNCHANGED <<nvs, due, cachedDue, call, torn, certBounds>>

\* web_server_restart_https frees what it holds before it loads.
FreeHttps ==
    /\ call.at = "none"
    /\ cache' = [cache EXCEPT !["https"] = Nothing]
    /\ UNCHANGED <<nvs, due, cachedDue, call, torn, certBounds>>

\* What cert_manager_load and load_certificates_from_nvs answer now.
Answered(p) == IF p = "device" /\ cache[p] # Nothing THEN cache[p] ELSE nvs[p]

\* cert_manager_has_certificate and security_has_certificate: the certificate is enough.
HasCertificate(p) == nvs[p].cert # 0

\* cert_manager_get_status: without a key nothing is due, with a cache what was due when
\* it was filled.
DeviceIsDue ==
    IF cache["device"] # Nothing THEN cachedDue
    ELSE Complete(nvs["device"]) /\ IsDue(nvs["device"].cert)

\* web_server_get_cert_info looks at the NVS.
HttpsIsDue == IsDue(nvs["https"].cert)

----------------------------------------------------------------------------
\* Making a pair and storing it: the certificate first, then the key.

MadePair(p, imported) ==
    /\ pairs < MaxPairs
    /\ pairs' = pairs + 1
    /\ call' = [at |-> "storeCert", in |-> p, pair |-> pairs + 1, imported |-> imported]
    /\ UNCHANGED <<nvs, due, torn, resets>>

\* generate_self_signed_cert of cert_manager.c, and security_generate_certificate.
SelfSignedDevice == MadePair("device", FALSE)
SelfSignedHttps == MadePair("https", FALSE)

\* cert_manager_provision, with EJBCA or without: self-signed either way.
ProvisionDevice ==
    /\ call.at = "none"
    /\ SelfSignedDevice
    /\ UNCHANGED <<cache, cachedDue>>

\* web_server_provision_certificate, which makes one whatever there is.
ProvisionHttps ==
    /\ call.at = "none"
    /\ SelfSignedHttps
    /\ UNCHANGED <<cache, cachedDue>>

\* cert_manager_store of a pair somebody else has made.
ImportDevice ==
    /\ call.at = "none"
    /\ MadePair("device", TRUE)
    /\ UNCHANGED <<cache, cachedDue>>

\* cert_manager_check_and_renew, which loads what there is to see whether it is due.
RenewDevice ==
    /\ call.at = "none"
    /\ ~HasCertificate("device") \/ DeviceIsDue
    /\ DeviceLoaded
    /\ SelfSignedDevice

\* web_server_check_cert_renewal, with auto_provision.
RenewHttps ==
    /\ call.at = "none"
    /\ HasCertificate("https") /\ HttpsIsDue
    /\ SelfSignedHttps
    /\ UNCHANGED <<cache, cachedDue>>

\* nvs_store_cert("cert_pem") and security_store_certificate(SERVER).
StoreCert ==
    /\ call.at = "storeCert"
    /\ \/ /\ nvs' = [nvs EXCEPT ![call.in].cert = call.pair]
          /\ call' = [call EXCEPT !.at = "storeKey"]
          /\ UNCHANGED torn
       \/ call' = NoCall /\ UNCHANGED <<nvs, torn>>
       \/ /\ nvs' = [nvs EXCEPT ![call.in].cert = call.pair]
          /\ call' = NoCall
          /\ torn' = torn \cup {call.in}
    /\ UNCHANGED <<cache, due, cachedDue, certBounds>>

\* The cache after the pair is stored: cert_manager_provision fills it,
\* cert_manager_store invalidates it, web_server_provision_certificate leaves its copy.
CacheAfterStore ==
    IF call.in = "https" THEN UNCHANGED <<cache, cachedDue>>
    ELSE /\ cache' = [cache EXCEPT !["device"] =
                         IF call.imported THEN Nothing
                         ELSE [cert |-> call.pair, key |-> call.pair]]
         /\ cachedDue' = FALSE

\* Fault: an error of the second write ends the call.
StoreKeyOnly ==
    /\ call.at = "storeKey"
    /\ \/ /\ nvs' = [nvs EXCEPT ![call.in].key = call.pair]
          /\ call' = NoCall
          /\ torn' = torn \ {call.in}
          /\ CacheAfterStore
       \/ /\ call' = NoCall
          /\ UNCHANGED <<nvs, torn, cache, cachedDue>>
    /\ UNCHANGED <<due, certBounds>>

\* nvs_store_cert("key_pem") and security_store_certificate(CLIENT_KEY).
StoreKey ==
    /\ call.at = "storeKey"
    /\ \/ /\ nvs' = [nvs EXCEPT ![call.in].key = call.pair]
          /\ call' = NoCall
          /\ torn' = torn \ {call.in}
          /\ CacheAfterStore
       \/ /\ nvs' \in {nvs, [nvs EXCEPT ![call.in].key = call.pair]}
          /\ call' = [call EXCEPT !.at = "dropCert"]
          /\ UNCHANGED <<torn, cache, cachedDue>>
    /\ UNCHANGED <<due, certBounds>>

\* The certificate is deleted again; whether that worked nobody looks.
DropCert ==
    /\ call.at = "dropCert"
    /\ call' = NoCall
    /\ \/ nvs' = [nvs EXCEPT ![call.in].cert = 0] /\ UNCHANGED torn
       \/ torn' = torn \cup {call.in} /\ UNCHANGED nvs
    /\ UNCHANGED <<cache, due, cachedDue, certBounds>>

----------------------------------------------------------------------------
\* Deleting: the certificate, then the key, then what is in RAM; errors are not looked at.

DeleteBegins(p) ==
    /\ call.at = "none"
    /\ call' = [NoCall EXCEPT !.at = "eraseCert", !.in = p]
    /\ UNCHANGED <<nvs, cache, due, cachedDue, torn, certBounds>>

EraseCert ==
    /\ call.at = "eraseCert"
    /\ nvs' \in {nvs, [nvs EXCEPT ![call.in].cert = 0]}
    /\ call' = [call EXCEPT !.at = "eraseKey"]
    /\ UNCHANGED <<cache, due, cachedDue, torn, certBounds>>

EraseKey ==
    /\ call.at = "eraseKey"
    /\ nvs' \in {nvs, [nvs EXCEPT ![call.in].key = 0]}
    /\ call' = NoCall
    /\ cache' = [cache EXCEPT ![call.in] = Nothing]
    /\ cachedDue' = IF call.in = "device" THEN FALSE ELSE cachedDue
    /\ UNCHANGED <<due, torn, certBounds>>

----------------------------------------------------------------------------
\* Days go by: a certificate comes close to its end.
Aging ==
    /\ \E c \in 1..pairs \ due : due' = due \cup {c}
    /\ UNCHANGED <<nvs, cache, cachedDue, call, torn, certBounds>>

\* A reset, in the middle of a call perhaps.
CertReboot ==
    /\ resets < MaxResets
    /\ resets' = resets + 1
    /\ torn' = IF call.at \in {"storeKey", "dropCert"} THEN torn \cup {call.in} ELSE torn
    /\ cache' = [p \in Place |-> Nothing]
    /\ cachedDue' = FALSE
    /\ call' = NoCall
    /\ UNCHANGED <<nvs, due, pairs>>

CertNext ==
    \/ LoadDevice \/ LoadHttps \/ FreeHttps
    \/ ProvisionDevice \/ ProvisionHttps \/ ImportDevice
    \/ RenewDevice \/ RenewHttps
    \/ StoreCert \/ StoreKey \/ DropCert
    \/ \E p \in Place : DeleteBegins(p)
    \/ EraseCert \/ EraseKey
    \/ Aging \/ CertReboot

CertSpec == CertInit /\ [][CertNext]_certVars

----------------------------------------------------------------------------
(* Between calls, the certificate and the key a caller is given were made  *)
(* with each other, for the pair is never read half written: when the key  *)
(* cannot be stored the new certificate is taken out again                 *)
(* (cert_manager.c:482-487, web_server.c:545-550).  Left out is a place    *)
(* where a reset, or an error of a commit or of taking it out, came        *)
(* between the two writes, until a pair is stored there whole.             *)
AnsweredPairMatches ==
    /\ DOMAIN nvs = Place /\ torn \subseteq Place
    /\ call.at = "none" =>
          \A p \in Place \ torn :
             Complete(Answered(p)) => Answered(p).cert = Answered(p).key

=============================================================================
