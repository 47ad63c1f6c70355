----------------------------- MODULE RateLimit -----------------------------
(* The in-memory limiter of crates/server/src/ratelimit.rs: per IP, at most *)
(* MaxPorJanela calls in a window of Janela.  The limiters of guesses (5 in *)
(* 60 s) and of logins (10 in 60 s) are two instances of `checar_com`.      *)
(*                                                                          *)
(* A call reads the clock BEFORE it takes the mutex, so between the two the *)
(* clock may advance and other calls, also of other IPs, may purge the map. *)
EXTENDS Naturals, FiniteSets

CONSTANTS
  Chamadas,       \* calls of the limiter, each one made at most once
  Ips,
  IpDe,           \* the address of each call
  MaxPorJanela,   \* MAX_POR_JANELA, LOGIN_MAX_POR_JANELA
  Janela,         \* JANELA, LOGIN_JANELA, in ticks of the clock
  Atraso,         \* bound: how long a call may wait between clock and mutex
  UltimoInstante  \* bound: the last instant

ASSUME ConstantesAssumption ==
  /\ IpDe \in [Chamadas -> Ips]
  /\ IsFiniteSet(Chamadas)
  /\ MaxPorJanela \in Nat \ {0}
  /\ Janela \in Nat \ {0}
  /\ Atraso \in Nat
  /\ UltimoInstante \in Nat

VARIABLES
  agora,      \* the monotonic clock
  chamada,    \* per call: where it is, or its outcome
  instante,   \* per call: the Instant it read
  registros   \* the map: the calls whose Instant is recorded under their IP

varsLimitador == <<agora, chamada, instante, registros>>

Estados == {"novo", "leu", "aceita", "negada", "esquecida"}

\* t.duration_since(u): saturates at zero when `u` is later than `t`.
Decorrido(t, u) == IF t < u THEN 0 ELSE t - u

\* let agora = Instant::now();
LeRelogio(c) ==
  /\ chamada[c] = "novo"
  /\ chamada' = [chamada EXCEPT ![c] = "leu"]
  /\ instante' = [instante EXCEPT ![c] = agora]
  /\ UNCHANGED <<agora, registros>>

\* Mutant: a record is dropped one tick early.
VivoCurto(c, d) == Decorrido(instante[c], instante[d]) + 1 < Janela

\* The condition of regs.retain.
Vivo(c, d) == Decorrido(instante[c], instante[d]) < Janela

\* The purge covers the records of every IP, whoever calls.
Restantes(c) == {d \in registros : Vivo(c, d)}

\* Mutant: the limit is off by one.
CheioTarde(c) ==
  Cardinality({d \in Restantes(c) : IpDe[d] = IpDe[c]}) > MaxPorJanela

Cheio(c) == Cardinality({d \in Restantes(c) : IpDe[d] = IpDe[c]}) >= MaxPorJanela

\* Mutant: a refused call is recorded too.
NegaERegistra(c) ==
  /\ chamada' = [chamada EXCEPT ![c] = "negada"]
  /\ registros' = Restantes(c) \cup {c}

Nega(c) ==
  /\ chamada' = [chamada EXCEPT ![c] = "negada"]
  /\ registros' = Restantes(c)

\* The section under the mutex.
Checa(c) ==
  /\ chamada[c] = "leu"
  /\ \/ Cheio(c) /\ Nega(c)
     \/ /\ ~Cheio(c)
        /\ chamada' = [chamada EXCEPT ![c] = "aceita"]
        /\ registros' = Restantes(c) \cup {c}
  /\ UNCHANGED <<agora, instante>>

\* No call waits for the mutex longer than Atraso.
Tick ==
  /\ agora < UltimoInstante
  /\ \A c \in Chamadas : chamada[c] = "leu" => agora < instante[c] + Atraso
  /\ agora' = agora + 1
  /\ UNCHANGED <<chamada, instante, registros>>

\* The map lives in the process: a restart forgets every record, and the calls
\* under way die with it.
Reinicia ==
  /\ chamada' = [c \in Chamadas |-> IF chamada[c] \in {"leu", "aceita"}
                                    THEN "esquecida" ELSE chamada[c]]
  /\ registros' = {}
  /\ UNCHANGED <<agora, instante>>

InitLimitador ==
  /\ agora = 0
  /\ chamada = [c \in Chamadas |-> "novo"]
  /\ instante = [c \in Chamadas |-> 0]
  /\ registros = {}

NextLimitador ==
  \/ \E c \in Chamadas : LeRelogio(c) \/ Checa(c)
  \/ Tick
  \/ Reinicia

SpecLimitador == InitLimitador /\ [][NextLimitador]_varsLimitador

-----------------------------------------------------------------------------
\* The calls let through since the process started, for one address.
Aceitas(ip) == {c \in Chamadas : chamada[c] = "aceita" /\ IpDe[c] = ip}

\* The types, and what is recorded is a call that was let through.
TypeOKLimitador ==
  /\ agora \in 0..UltimoInstante
  /\ chamada \in [Chamadas -> Estados]
  /\ instante \in [Chamadas -> 0..UltimoInstante]
  /\ registros \subseteq {c \in Chamadas : chamada[c] = "aceita"}

\* "no máximo MAX_POR_JANELA chamadas por IP a cada JANELA" (ratelimit.rs:22),
\* for every window wherever it starts, although calls are recorded out of the
\* order of their clock readings.  A waiting call may see the map purged by one
\* with a later reading, so the window that is safe is Janela minus the longest
\* wait; with no wait it is the whole of Janela.
LimitePorJanela ==
  \A ip \in Ips, t \in 0..UltimoInstante :
    Cardinality({c \in Aceitas(ip) : /\ t <= instante[c]
                                     /\ instante[c] + Atraso < t + Janela}) <= MaxPorJanela

\* The list of one address never outgrows the limit (ratelimit.rs:36): refused
\* calls leave no record.
RegistrosLimitados ==
  \A ip \in Ips : Cardinality({c \in registros : IpDe[c] = ip}) <= MaxPorJanela

\* The clock readings of calls made lie in the past, a waiting call waits no
\* longer than Atraso, and a call let through loses its record only when it is
\* older than Janela.
Espera ==
  \A c \in Chamadas :
    /\ chamada[c] # "novo" => instante[c] <= agora
    /\ chamada[c] = "leu" => agora <= instante[c] + Atraso
    /\ chamada[c] = "aceita" /\ c \notin registros => instante[c] + Janela <= agora

IInvLimitador == TypeOKLimitador /\ Espera /\ LimitePorJanela /\ RegistrosLimitados

\* A call is refused only when MaxPorJanela calls of its address were let
\* through in the Janela before its clock reading (or were read later than it):
\* being refused does not extend the wait.
NegaComMotivo ==
  [][\A c \in Chamadas : chamada[c] = "leu" /\ chamada'[c] = "negada" =>
       Cardinality({d \in Aceitas(IpDe[c]) : Vivo(c, d)}) >= MaxPorJanela]_varsLimitador

=============================================================================
