----------------------------- MODULE MCConnection -----------------------------
(***************************************************************************)
(* One object, of every kind in turn, for model checking Connection.       *)
(***************************************************************************)
EXTENDS Connection

CONSTANTS object1, old, new

OneNamespace == [o \in {object1} |-> "ns"]

TLS(bundle, ca, cert, key) ==
  [ caBundle |-> bundle, caCertSecretRef |-> ca,
    clientCertSecretRef |-> cert, clientKeySecretRef |-> key ]

OIDC(exchange, inject, before) ==
  [exchange |-> exchange, inject |-> inject, refreshBefore |-> before]

Config(credentials, oidc, gcp, tls) ==
  [credentials |-> credentials, oidc |-> oidc, gcp |-> gcp, tls |-> tls]

Credentials(source, key) == [source |-> source, key |-> key]

(* Credentials from a Secret or from the environment, a token exchange, a  *)
(* service account, an exchange without its endpoint, and nothing; with a  *)
(* certificate and its key, the key alone, or a bundle.                    *)
FewConfigs ==
  { Config(Credentials("Secret", "token"), None, None, TLS(None, None, None, "key")),
    Config(Credentials("Environment", None), None, None, None),
    Config(None, OIDC(TRUE, None, None), None, TLS(None, None, "cert", "key")),
    Config(None, None, [serviceAccount |-> TRUE], TLS(old, None, None, None)),
    Config(None, OIDC(FALSE, None, None), None, None),
    Config(None, None, None, None) }

(* Nothing of its own; a header, a CA and the certificate to the key of    *)
(* the provider; another Secret's certificate and a token that is renewed  *)
(* early, in a header of its own; the default service account.             *)
FewSpecs ==
  { [oidc |-> None, gcp |-> None, tls |-> None, authorization |-> FALSE],
    [oidc |-> None, gcp |-> None, tls |-> TLS(None, "ca", "cert", None), authorization |-> TRUE],
    [oidc |-> OIDC(TRUE, "X-Token", 3), gcp |-> None, tls |-> TLS(None, None, "own", None),
     authorization |-> FALSE],
    [oidc |-> None, gcp |-> [serviceAccount |-> FALSE], tls |-> None, authorization |-> FALSE] }
=============================================================================
