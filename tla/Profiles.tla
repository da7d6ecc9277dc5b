------------------------------ MODULE Profiles ------------------------------
(***************************************************************************)
(* What a client is handed: the public origin of a request                 *)
(* (backend/app/public_url.py) and the links and files made from a node    *)
(* and a key (backend/app/services/profiles.py), as records of the fields  *)
(* that decide where a client connects.  A URL is its scheme, host and     *)
(* port, port 0 when it names none.  A node's adaptive is what its         *)
(* metadata says of adaptive_endpoint, and "null" if the metadata is null. *)
(***************************************************************************)
EXTENDS Naturals

CONSTANTS
    None,           \* no value
    PublicUrl,      \* ARENA_PUBLIC_URL: a URL, or None for auto
    TrustProxy      \* ARENA_TRUST_PROXY_HEADERS

ASSUME PublicUrlAssumption ==
    PublicUrl # None =>
        PublicUrl = [scheme |-> PublicUrl.scheme, host |-> PublicUrl.host, port |-> PublicUrl.port]

Scheme == {"http", "https"}
Proxied == {"vless", "vmess"}

\* (one default for both schemes)
DefaultPort443(scheme) == 443

DefaultPort(scheme) == IF scheme = "https" THEN 443 ELSE 80

PortOf(url) == IF url.port = 0 THEN DefaultPort(url.scheme) ELSE url.port

\* The URL as the panel writes it: the default port is left out.
BaseUrl(url) ==
    [url EXCEPT !.port = IF PortOf(url) = DefaultPort(url.scheme) THEN 0 ELSE PortOf(url)]

PublicEndpoint(url) ==
    [base      |-> BaseUrl(url),
     host      |-> url.host,
     port      |-> PortOf(url),
     authority |-> [host |-> url.host, port |-> BaseUrl(url).port],
     security  |-> IF url.scheme = "https" THEN "tls" ELSE "none"]

\* A request has a scheme, the Host it names, and what a proxy has forwarded.
Origin(request) ==
    LET scheme == IF TrustProxy /\ request.proto # None THEN request.proto ELSE request.scheme
        to == IF TrustProxy /\ request.forwarded # None THEN request.forwarded ELSE request.to
    IN  [scheme |-> scheme, host |-> to.host, port |-> to.port]

PublicBaseUrl(request) ==
    BaseUrl(IF PublicUrl # None THEN PublicUrl ELSE Origin(request))
-----------------------------------------------------------------------------
Or(value, fallback) == IF value = None THEN fallback ELSE value

Adaptive(node) == node.adaptive = "yes" \/ node.host = "auto"

\* Where a client of a proxied node connects.
ProxyEndpoint(node, base) ==
    LET origin == PublicEndpoint(base)
    IN  IF Adaptive(node)
        THEN [host |-> origin.host, port |-> origin.port, security |-> origin.security,
              sni |-> IF origin.security = "tls" THEN origin.host ELSE None,
              wsHost |-> origin.authority]
        ELSE [host |-> node.host, port |-> node.port, security |-> node.security,
              sni |-> Or(node.sni, node.host),
              wsHost |-> [host |-> Or(node.wsHost, Or(node.sni, node.host)), port |-> 0]]

\* vless names the TLS server only under TLS, vmess always.
Link(node, base) ==
    LET e == ProxyEndpoint(node, base)
    IN  [host |-> e.host, port |-> e.port, security |-> e.security, wsHost |-> e.wsHost,
         sni |-> IF node.protocol = "vless" /\ e.security # "tls" THEN None ELSE e.sni,
         path |-> node.path]

Listed(node, key) == node.enabled /\ key.enabled /\ node.protocol \in Proxied

\* The link of a key, None if the client gets none.
ProxyUri(node, key, base) == IF Listed(node, key) THEN Link(node, base) ELSE None

\* There is no adaptive_endpoint to get from null: an exception, and no link.
Raises(node, key) == Listed(node, key) /\ node.adaptive = "null"

\* The file of a WireGuard key.
WireguardProfile(node, key) ==
    [address |-> key.address, host |-> node.host, port |-> node.port]
=============================================================================
