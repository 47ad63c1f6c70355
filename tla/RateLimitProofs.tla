-------------------------- MODULE RateLimitProofs --------------------------
(* The limits of the in-memory limiter, for every number of calls and of    *)
(* addresses, every window and every bound on the wait for the mutex.       *)
EXTENDS RateLimit, FiniteSetTheorems, TLAPS

\* A set of calls is finite, and has no more members than one that contains it.
LEMMA Contagem ==
  ASSUME NEW S, NEW T, S \subseteq T, T \subseteq Chamadas
  PROVE  /\ IsFiniteSet(S) /\ IsFiniteSet(T)
         /\ Cardinality(S) \in Nat /\ Cardinality(T) \in Nat
         /\ Cardinality(S) <= Cardinality(T)
<1>1. IsFiniteSet(T)
  BY ConstantesAssumption, FS_Subset
<1> QED
  BY <1>1, FS_Subset, FS_CardinalityType

\* One more member, at most one more to count.
LEMMA MaisUma ==
  ASSUME NEW S, NEW T, NEW c \in Chamadas, T \subseteq Chamadas, S \subseteq T \cup {c},
         Cardinality(T) < MaxPorJanela
  PROVE  Cardinality(S) <= MaxPorJanela
<1>1. IsFiniteSet(T) /\ Cardinality(T) \in Nat
  BY Contagem
<1>2. Cardinality(T \cup {c}) <= Cardinality(T) + 1 /\ Cardinality(T \cup {c}) \in Nat
  <2>1. /\ IsFiniteSet(T \cup {c})
        /\ Cardinality(T \cup {c}) = IF c \in T THEN Cardinality(T) ELSE Cardinality(T) + 1
    BY <1>1, FS_AddElement
  <2>2. Cardinality(T \cup {c}) \in Nat
    BY <2>1, FS_CardinalityType
  <2> QED
    BY <1>1, <2>1, <2>2
<1>3. Cardinality(S) <= Cardinality(T \cup {c}) /\ Cardinality(S) \in Nat
  BY Contagem
<1> QED
  BY <1>1, <1>2, <1>3, ConstantesAssumption

\* The set that LimitePorJanela counts, and the one Cheio counts.
NaJanela(ip, t) == {c \in Aceitas(ip) : t <= instante[c] /\ instante[c] + Atraso < t + Janela}
DoMesmoIp(c) == {d \in Restantes(c) : IpDe[d] = IpDe[c]}

LEMMA TiposPasso ==
  ASSUME IInvLimitador, [NextLimitador]_varsLimitador
  PROVE  TypeOKLimitador'
<1>0. TypeOKLimitador
  BY DEF IInvLimitador
<1>1. ASSUME NEW c \in Chamadas, LeRelogio(c)  PROVE TypeOKLimitador'
  BY <1>0, <1>1 DEF TypeOKLimitador, LeRelogio, Estados
<1>2. ASSUME NEW c \in Chamadas, Checa(c)  PROVE TypeOKLimitador'
  BY <1>0, <1>2 DEF TypeOKLimitador, Checa, Nega, Restantes, Estados
<1>3. CASE Tick
  BY <1>0, <1>3, ConstantesAssumption DEF TypeOKLimitador, Tick
<1>4. CASE Reinicia
  BY <1>0, <1>4 DEF TypeOKLimitador, Reinicia, Estados
<1>5. CASE UNCHANGED varsLimitador
  BY <1>0, <1>5 DEF TypeOKLimitador, varsLimitador
<1> QED
  BY <1>1, <1>2, <1>3, <1>4, <1>5 DEF NextLimitador

LEMMA EsperaPasso ==
  ASSUME IInvLimitador, [NextLimitador]_varsLimitador
  PROVE  Espera'
<1>0. TypeOKLimitador /\ Espera
  BY DEF IInvLimitador
<1> USE ConstantesAssumption
<1>1. ASSUME NEW c \in Chamadas, LeRelogio(c)  PROVE Espera'
  BY <1>0, <1>1 DEF TypeOKLimitador, Espera, LeRelogio
<1>2. ASSUME NEW c \in Chamadas, Checa(c)  PROVE Espera'
  <2> SUFFICES ASSUME NEW d \in Chamadas
               PROVE  /\ chamada'[d] # "novo" => instante'[d] <= agora'
                      /\ chamada'[d] = "leu" => agora' <= instante'[d] + Atraso
                      /\ chamada'[d] = "aceita" /\ d \notin registros'
                           => instante'[d] + Janela <= agora'
    BY DEF Espera
  <2>1. /\ UNCHANGED <<agora, instante>> /\ chamada[c] = "leu"
        /\ chamada'[c] \in {"aceita", "negada"} /\ Restantes(c) \subseteq registros'
        /\ chamada'[c] = "aceita" => c \in registros'
        /\ d # c => chamada'[d] = chamada[d]
    BY <1>0, <1>2 DEF Checa, Nega, TypeOKLimitador
  <2>2. ASSUME d # c, chamada[d] = "aceita", d \in registros, d \notin registros'
        PROVE  instante[d] + Janela <= agora
    <3>1. ~Vivo(c, d)
      BY <2>1, <2>2 DEF Restantes
    <3> QED
      BY <1>0, <2>1, <3>1 DEF Vivo, Decorrido, TypeOKLimitador, Espera
  <2> QED
    BY <1>0, <2>1, <2>2 DEF Espera
<1>3. CASE Tick
  BY <1>0, <1>3 DEF TypeOKLimitador, Espera, Tick
<1>4. CASE Reinicia
  BY <1>0, <1>4 DEF TypeOKLimitador, Espera, Reinicia
<1>5. CASE UNCHANGED varsLimitador
  BY <1>0, <1>5 DEF Espera, varsLimitador
<1> QED
  BY <1>1, <1>2, <1>3, <1>4, <1>5 DEF NextLimitador

\* The heart of the matter: when a call is let through, every earlier call of
\* its address in a window with it still has its record and was counted.
LEMMA JanelaContada ==
  ASSUME IInvLimitador, NEW c \in Chamadas, chamada[c] = "leu", NEW t \in 0..UltimoInstante,
         t <= instante[c], instante[c] + Atraso < t + Janela
  PROVE  NaJanela(IpDe[c], t) \subseteq DoMesmoIp(c)
<1> SUFFICES ASSUME NEW d \in Aceitas(IpDe[c]), t <= instante[d]
             PROVE  d \in DoMesmoIp(c)
  BY DEF NaJanela
<1>0. /\ TypeOKLimitador /\ Espera /\ d \in Chamadas /\ chamada[d] = "aceita" /\ IpDe[d] = IpDe[c]
      /\ instante[c] \in Nat /\ instante[d] \in Nat /\ agora \in Nat
  BY DEF IInvLimitador, TypeOKLimitador, Aceitas
<1>1. agora <= instante[c] + Atraso
  BY <1>0 DEF Espera
<1>2. d \in registros
  BY <1>0, <1>1, ConstantesAssumption DEF Espera
<1>3. Vivo(c, d)
  BY <1>0, ConstantesAssumption DEF Vivo, Decorrido
<1> QED
  BY <1>0, <1>2, <1>3 DEF DoMesmoIp, Restantes

LEMMA LimitePorJanelaPasso ==
  ASSUME IInvLimitador, [NextLimitador]_varsLimitador
  PROVE  LimitePorJanela'
<1> SUFFICES ASSUME NEW ip \in Ips, NEW t \in 0..UltimoInstante
             PROVE  Cardinality(NaJanela(ip, t)') <= MaxPorJanela
  BY DEF LimitePorJanela, NaJanela
<1>0. TypeOKLimitador /\ Cardinality(NaJanela(ip, t)) <= MaxPorJanela
  BY DEF IInvLimitador, LimitePorJanela, NaJanela
<1>1. ASSUME NaJanela(ip, t)' \subseteq NaJanela(ip, t)
      PROVE  Cardinality(NaJanela(ip, t)') <= MaxPorJanela
  <2>1. NaJanela(ip, t) \subseteq Chamadas
    BY DEF NaJanela, Aceitas
  <2>2. /\ Cardinality(NaJanela(ip, t)') \in Nat /\ Cardinality(NaJanela(ip, t)) \in Nat
        /\ Cardinality(NaJanela(ip, t)') <= Cardinality(NaJanela(ip, t))
    BY <1>1, <2>1, Contagem
  <2> QED
    BY <1>0, <2>2, ConstantesAssumption
<1>2. ASSUME NEW c \in Chamadas, LeRelogio(c)
      PROVE  NaJanela(ip, t)' \subseteq NaJanela(ip, t)
  BY <1>0, <1>2 DEF LeRelogio, NaJanela, Aceitas, TypeOKLimitador
<1>3. ASSUME NEW c \in Chamadas, Checa(c)
      PROVE  Cardinality(NaJanela(ip, t)') <= MaxPorJanela
  <2>1. UNCHANGED <<agora, instante>> /\ chamada[c] = "leu"
    BY <1>3 DEF Checa
  <2>2. CASE ~(c \in NaJanela(ip, t)')
    <3>1. NaJanela(ip, t)' \subseteq NaJanela(ip, t)
      BY <1>0, <1>3, <2>2 DEF Checa, Nega, NaJanela, Aceitas, TypeOKLimitador
    <3> QED
      BY <1>1, <3>1
  <2>3. CASE c \in NaJanela(ip, t)'
    <3>1. /\ IpDe[c] = ip /\ t <= instante[c] /\ instante[c] + Atraso < t + Janela
          /\ chamada'[c] = "aceita"
      BY <2>1, <2>3 DEF NaJanela, Aceitas
    <3>2. NaJanela(ip, t)' \subseteq NaJanela(ip, t) \cup {c}
      BY <1>0, <1>3 DEF Checa, Nega, NaJanela, Aceitas, TypeOKLimitador
    <3>3. NaJanela(ip, t) \subseteq DoMesmoIp(c)
      BY <2>1, <3>1, JanelaContada
    <3>4. DoMesmoIp(c) \subseteq Chamadas
      BY <1>0 DEF DoMesmoIp, Restantes, TypeOKLimitador
    <3>5. ~Cheio(c)
      BY <1>0, <1>3, <3>1 DEF Checa, Nega, TypeOKLimitador
    <3>6. Cardinality(DoMesmoIp(c)) < MaxPorJanela
      BY <3>4, <3>5, Contagem, ConstantesAssumption DEF Cheio, DoMesmoIp
    <3> QED
      BY <3>2, <3>3, <3>4, <3>6, MaisUma
  <2> QED
    BY <2>2, <2>3
<1>4. CASE Tick
  BY <1>1, <1>4 DEF Tick, NaJanela, Aceitas
<1>5. CASE Reinicia
  <2>1. NaJanela(ip, t)' \subseteq NaJanela(ip, t)
    BY <1>0, <1>5 DEF Reinicia, NaJanela, Aceitas, TypeOKLimitador
  <2> QED
    BY <1>1, <2>1
<1>6. CASE UNCHANGED varsLimitador
  BY <1>1, <1>6 DEF varsLimitador, NaJanela, Aceitas
<1> QED
  BY <1>1, <1>2, <1>3, <1>4, <1>5, <1>6 DEF NextLimitador

LEMMA RegistrosLimitadosPasso ==
  ASSUME IInvLimitador, [NextLimitador]_varsLimitador
  PROVE  RegistrosLimitados'
<1> DEFINE DoIp(ip) == {c \in registros : IpDe[c] = ip}
<1> SUFFICES ASSUME NEW ip \in Ips
             PROVE  Cardinality(DoIp(ip)') <= MaxPorJanela
  BY DEF RegistrosLimitados
<1>0. TypeOKLimitador /\ Cardinality(DoIp(ip)) <= MaxPorJanela /\ DoIp(ip) \subseteq Chamadas
  BY DEF IInvLimitador, RegistrosLimitados, TypeOKLimitador
<1>1. ASSUME DoIp(ip)' \subseteq DoIp(ip)
      PROVE  Cardinality(DoIp(ip)') <= MaxPorJanela
  <2>1. /\ Cardinality(DoIp(ip)') \in Nat /\ Cardinality(DoIp(ip)) \in Nat
        /\ Cardinality(DoIp(ip)') <= Cardinality(DoIp(ip))
    BY <1>0, <1>1, Contagem
  <2> QED
    BY <1>0, <2>1, ConstantesAssumption
<1>2. ASSUME NEW c \in Chamadas, Checa(c)
      PROVE  Cardinality(DoIp(ip)') <= MaxPorJanela
  <2>1. CASE registros' = Restantes(c) \/ IpDe[c] # ip
    <3>1. DoIp(ip)' \subseteq DoIp(ip)
      BY <1>2, <2>1 DEF Checa, Nega, Restantes
    <3> QED
      BY <1>1, <3>1
  <2>2. CASE IpDe[c] = ip /\ ~Cheio(c) /\ registros' = Restantes(c) \cup {c}
    <3>1. DoIp(ip)' \subseteq DoMesmoIp(c) \cup {c} /\ DoMesmoIp(c) \subseteq Chamadas
      BY <1>0, <2>2 DEF DoMesmoIp, Restantes, TypeOKLimitador
    <3>2. Cardinality(DoMesmoIp(c)) < MaxPorJanela
      BY <2>2, <3>1, Contagem, ConstantesAssumption DEF Cheio, DoMesmoIp
    <3> QED
      BY <3>1, <3>2, MaisUma
  <2> QED
    BY <1>2, <2>1, <2>2 DEF Checa, Nega
<1>3. CASE Reinicia
  <2>1. DoIp(ip)' \subseteq DoIp(ip)
    BY <1>3 DEF Reinicia
  <2> QED
    BY <1>1, <2>1
<1>4. CASE UNCHANGED registros
  <2>1. DoIp(ip)' \subseteq DoIp(ip)
    BY <1>4
  <2> QED
    BY <1>1, <2>1
<1> QED
  BY <1>2, <1>3, <1>4 DEF NextLimitador, LeRelogio, Tick, varsLimitador

\* The limiter keeps its inductive invariant.
THEOREM Invariante == SpecLimitador => []IInvLimitador
<1>1. InitLimitador => IInvLimitador
  <2> SUFFICES ASSUME InitLimitador PROVE IInvLimitador
    OBVIOUS
  <2>1. TypeOKLimitador /\ Espera
    BY ConstantesAssumption DEF InitLimitador, TypeOKLimitador, Espera, Estados
  <2>2. ASSUME NEW S, S = {}  PROVE Cardinality(S) <= MaxPorJanela
    BY <2>2, FS_EmptySet, ConstantesAssumption
  <2>3. LimitePorJanela
    <3>1. \A ip \in Ips, t \in 0..UltimoInstante :
            {c \in Aceitas(ip) : t <= instante[c] /\ instante[c] + Atraso < t + Janela} = {}
      BY DEF InitLimitador, Aceitas
    <3> QED
      BY <2>2, <3>1 DEF LimitePorJanela
  <2>4. RegistrosLimitados
    <3>1. \A ip \in Ips : {c \in registros : IpDe[c] = ip} = {}
      BY DEF InitLimitador
    <3> QED
      BY <2>2, <3>1 DEF RegistrosLimitados
  <2> QED
    BY <2>1, <2>3, <2>4 DEF IInvLimitador
<1>2. IInvLimitador /\ [NextLimitador]_varsLimitador => IInvLimitador'
  BY TiposPasso, EsperaPasso, LimitePorJanelaPasso, RegistrosLimitadosPasso DEF IInvLimitador
<1> QED
  BY <1>1, <1>2, PTL DEF SpecLimitador

\* At most MaxPorJanela calls of one address are let through in any window of Janela
\* less the longest wait for the mutex (ratelimit.rs:22, 43-44).
THEOREM LimiteRespeitado == SpecLimitador => []LimitePorJanela
<1>1. IInvLimitador => LimitePorJanela
  BY DEF IInvLimitador
<1> QED
  BY <1>1, Invariante, PTL

\* The list of one address never holds more than MaxPorJanela records.
THEOREM ListaCurta == SpecLimitador => []RegistrosLimitados
<1>1. IInvLimitador => RegistrosLimitados
  BY DEF IInvLimitador
<1> QED
  BY <1>1, Invariante, PTL

\* A refusal always has MaxPorJanela accepted calls of the address to show for it
\* (ratelimit.rs:53-55: a refused call is not recorded).
THEOREM RecusaJustificada == SpecLimitador => NegaComMotivo
<1> DEFINE Motivo == \A c \in Chamadas : chamada[c] = "leu" /\ chamada'[c] = "negada" =>
                       Cardinality({d \in Aceitas(IpDe[c]) : Vivo(c, d)}) >= MaxPorJanela
<1>1. IInvLimitador /\ [NextLimitador]_varsLimitador => [Motivo]_varsLimitador
  <2> SUFFICES ASSUME IInvLimitador, NextLimitador, NEW c \in Chamadas,
                      chamada[c] = "leu", chamada'[c] = "negada"
               PROVE  Cardinality({d \in Aceitas(IpDe[c]) : Vivo(c, d)}) >= MaxPorJanela
    OBVIOUS
  <2>0. TypeOKLimitador
    BY DEF IInvLimitador
  <2>1. Checa(c) /\ Cheio(c)
    BY <2>0 DEF NextLimitador, LeRelogio, Checa, Nega, Tick, Reinicia, TypeOKLimitador
  <2>2. DoMesmoIp(c) \subseteq {d \in Aceitas(IpDe[c]) : Vivo(c, d)}
    BY <2>0 DEF DoMesmoIp, Restantes, Aceitas, TypeOKLimitador
  <2>3. {d \in Aceitas(IpDe[c]) : Vivo(c, d)} \subseteq Chamadas
    BY DEF Aceitas
  <2> QED
    BY <2>1, <2>2, <2>3, Contagem, ConstantesAssumption DEF Cheio, DoMesmoIp
<1> QED
  BY <1>1, Invariante, PTL DEF SpecLimitador, NegaComMotivo

\* The clock, the calls and the records have their types, and a recorded call
\* was accepted.
THEOREM TiposDoLimitador == SpecLimitador => []TypeOKLimitador
<1>1. IInvLimitador => TypeOKLimitador
  BY DEF IInvLimitador
<1> QED
  BY <1>1, Invariante, PTL

\* A call reads no clock of the future and waits no longer than Atraso, and an
\* accepted call loses its record only when it is older than the window.
THEOREM EsperaLimitada == SpecLimitador => []Espera
<1>1. IInvLimitador => Espera
  BY DEF IInvLimitador
<1> QED
  BY <1>1, Invariante, PTL

=============================================================================
