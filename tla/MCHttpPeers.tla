----------------------------- MODULE MCHttpPeers -----------------------------
(* Instances of HttpPeers for model checking. *)
EXTENDS HttpPeers, TLC

CONSTANTS k1, k2, k3

W(port, tls, cert, show) == [port |-> port, tls |-> tls, cert |-> cert, show |-> show]
G(kind, setting) == [kind |-> kind, setting |-> setting]

\* The user changes the certificate, the port, or the encryption.
GoalSet == {G("start", W(1, TRUE, k1, TRUE)), G("stop", W(1, TRUE, k1, TRUE)),
            G("restart", W(1, TRUE, k2, FALSE)), G("restart", W(2, FALSE, k1, TRUE))}

R(kind, port, https, pin, claim, good, patient) ==
    [kind |-> kind, port |-> port, https |-> https, pin |-> pin,
     cert |-> IF kind = "info" THEN None ELSE k3,
     claim |-> claim, good |-> good, token |-> good, patient |-> patient]

\* A device that registers, one that claims to be another, a sender that pins
\* the first certificate and waits for ever, an instance that asks to show where
\* nothing is encrypted, and a scan without a certificate.
RequestSet == {R("register", 1, TRUE, None, k3, TRUE, FALSE),
               R("register", 1, TRUE, None, k1, TRUE, FALSE),
               R("prepare", 1, TRUE, k1, k3, TRUE, TRUE),
               R("show", 2, FALSE, None, k3, TRUE, FALSE),
               R("info", 1, TRUE, None, k3, TRUE, FALSE)}
=============================================================================
