---------------------------- MODULE SplineKernels ----------------------------
(***************************************************************************)
(* The smoothing kernels and the forces of a pair of particles             *)
(* (include/spearhed/sph/CubicSplineKernel.hpp, QuinticSplineKernel.hpp,   *)
(* HydroForces.hpp, EquationOfState.hpp).                                  *)
(*                                                                         *)
(* Lengths are integers, so a kernel is a polynomial with integer values   *)
(* in fixed units; forces are fractions in units of the norm sigma.        *)
(* Rounding is left out.                                                   *)
(***************************************************************************)
EXTENDS Integers, Sequences

CONSTANTS
    Pairs    \* pairs of particles whose forces are looked at

VARIABLE
    sample   \* a point of a kernel, a kernel to integrate, or a pair

-----------------------------------------------------------------------------
(* Fractions.                                                              *)

magnitude(n) == IF n < 0 THEN -n ELSE n

gcd[a \in Nat, b \in Nat] == IF b = 0 THEN a ELSE gcd[b, a % b]

frac(n, d) == LET g == gcd[magnitude(n), d] IN <<n \div g, d \div g>>

plus(p, q) == LET g == gcd[p[2], q[2]] IN frac(p[1] * (q[2] \div g) + q[1] * (p[2] \div g), (p[2] \div g) * q[2])

times(p, q) ==
    LET a == frac(p[1], q[2])
        b == frac(q[1], p[2])
    IN  <<a[1] * b[1], a[2] * b[2]>>

minus(p) == <<-p[1], p[2]>>

whole_(n) == <<n, 1>>

dot(v, w) ==
    LET part[i \in 0 .. Len(v)] == IF i = 0 THEN <<0, 1>> ELSE plus(part[i - 1], times(v[i], w[i])) IN part[Len(v)]

-----------------------------------------------------------------------------
(* The kernels.  W is in units of sigma / h^dim, dWdr of sigma / h^(dim+1).*)

Kernels == {"cubic", "quintic"}

supportRadius(k) == IF k = "cubic" THEN 2 ELSE 3

\* sigma as numerator, denominator and power of pi in the denominator.
CubicNorm(dim) == <<<<2, 3, 0>>, <<10, 7, 1>>, <<1, 1, 1>>>>[dim]

\* 4 h^3 W
CubicW(r, h) ==
    IF r < h THEN 4 * h^3 - 6 * h * r^2 + 3 * r^3
    ELSE IF r < 2 * h THEN (2 * h - r)^3
    ELSE 0

\* 4 h^2 dW/dr
CubicDWdr(r, h) ==
    IF r < h THEN 9 * r^2 - 12 * h * r
    ELSE IF r < 2 * h THEN -3 * (2 * h - r)^2
    ELSE 0

QuinticNorm(dim) == <<<<1, 120, 0>>, <<7, 478, 1>>, <<1, 120, 1>>>>[dim]

\* h^5 W
QuinticW(r, h) ==
    IF r < h THEN (3 * h - r)^5 - 6 * (2 * h - r)^5 + 15 * (h - r)^5
    ELSE IF r < 2 * h THEN (3 * h - r)^5 - 6 * (2 * h - r)^5
    ELSE IF r < 3 * h THEN (3 * h - r)^5
    ELSE 0

\* h^4 dW/dr
QuinticDWdr(r, h) ==
    IF r < h THEN -5 * (3 * h - r)^4 + 30 * (2 * h - r)^4 - 75 * (h - r)^4
    ELSE IF r < 2 * h THEN -5 * (3 * h - r)^4 + 30 * (2 * h - r)^4
    ELSE IF r < 3 * h THEN -5 * (3 * h - r)^4
    ELSE 0

\* (dW/dr) / r, zero for coincident particles and outside the support.
CubicGradWScalar(r, h, dim) ==
    IF r = 0 \/ r >= 2 * h THEN <<0, 1>> ELSE frac(CubicDWdr(r, h), 4 * h^(dim + 3) * r)

QuinticGradWScalar(r, h, dim) ==
    IF r = 0 \/ r >= 3 * h THEN <<0, 1>> ELSE frac(QuinticDWdr(r, h), h^(dim + 5) * r)

\* The gradient along the vector v of length r.
CubicGradW(v, r, h) ==
    [i \in DOMAIN v |-> IF r = 0 \/ r >= 2 * h THEN <<0, 1>>
                        ELSE times(frac(CubicDWdr(r, h), 4 * h^(Len(v) + 3)), frac(v[i], r))]

QuinticGradW(v, r, h) ==
    [i \in DOMAIN v |-> IF r = 0 \/ r >= 3 * h THEN <<0, 1>>
                        ELSE times(frac(QuinticDWdr(r, h), h^(Len(v) + 5)), frac(v[i], r))]

norm(k, dim) == IF k = "cubic" THEN CubicNorm(dim) ELSE QuinticNorm(dim)

W(k, r, h) == IF k = "cubic" THEN CubicW(r, h) ELSE QuinticW(r, h)

dWdr(k, r, h) == IF k = "cubic" THEN CubicDWdr(r, h) ELSE QuinticDWdr(r, h)

gradWScalar(k, r, h, dim) ==
    IF k = "cubic" THEN CubicGradWScalar(r, h, dim) ELSE QuinticGradWScalar(r, h, dim)

gradW(k, v, r, h) == IF k = "cubic" THEN CubicGradW(v, r, h) ELSE QuinticGradW(v, r, h)

-----------------------------------------------------------------------------
(* The forces of a pair: own and nb are [pos, vel, mass, density, energy,  *)
(* h], at integer distance; gamma is 5/3.                                  *)

gammaMinus1 == <<2, 3>>

pressure(density, u) == times(gammaMinus1, whole_(density * u))

\* P_i / rho_i^2, once per own particle.
prepare(own) == times(pressure(own.density, own.energy), <<1, own.density^2>>)

\* P_j / rho_j^2 and what else is read of a neighbour.
staged(nb) ==
    [pOverRho2 |-> times(pressure(nb.density, nb.energy), <<1, nb.density^2>>),
     mass |-> nb.mass, h |-> nb.h, vel |-> nb.vel]

between(own, nb) == [i \in DOMAIN own.pos |-> own.pos[i] - nb.pos[i]]

\* Mutant: the own gradient stands for both.
forceOn_Unsymmetric(k, own, nb, r) ==
    LET v  == between(own, nb)
        s  == gradWScalar(k, r, own.h, Len(v))
        n  == staged(nb)
        ti == times(whole_(n.mass), prepare(own))
        tj == times(whole_(n.mass), n.pOverRho2)
        dv == [i \in DOMAIN v |-> whole_(own.vel[i] - n.vel[i])]
        rv == [i \in DOMAIN v |-> whole_(v[i])]
    IN  [dvdt |-> [i \in DOMAIN v |-> minus(times(plus(times(ti, s), times(tj, s)), rv[i]))],
         dudt |-> times(times(ti, s), dot(dv, rv))]

\* What the pair adds to the own particle's derivatives.
forceOn(k, own, nb, r) ==
    LET v  == between(own, nb)
        n  == staged(nb)
        si == gradWScalar(k, r, own.h, Len(v))
        sj == gradWScalar(k, r, n.h, Len(v))
        ti == times(whole_(n.mass), prepare(own))
        tj == times(whole_(n.mass), n.pOverRho2)
        dv == [i \in DOMAIN v |-> whole_(own.vel[i] - n.vel[i])]
        rv == [i \in DOMAIN v |-> whole_(v[i])]
    IN  [dvdt |-> [i \in DOMAIN v |-> minus(times(plus(times(ti, si), times(tj, sj)), rv[i]))],
         dudt |-> times(times(ti, si), dot(dv, rv))]

-----------------------------------------------------------------------------
(* What the kernels are compared with.                                     *)

\* Points per h of a sample.
Fine == 12

Coarse == 6

Points == {[about |-> "point", k |-> k, n |-> n] : k \in Kernels, n \in 0 .. 4 * Fine}

Integrals == {[about |-> "integral", k |-> k, dim |-> dim] : k \in Kernels, dim \in 1 .. 3}

Interactions == {[about |-> "pair", k |-> k, p |-> p] : k \in Kernels, p \in Pairs}

Samples == Points \cup Integrals \cup Interactions

Unasked == [about |-> "nothing"]

\* 60 times the slope of a polynomial of degree at most six, by central differences.
slope(f(_), n) == (f(n + 3) - f(n - 3)) - 9 * (f(n + 2) - f(n - 2)) + 45 * (f(n + 1) - f(n - 1))

\* On each piece dW/dr is the derivative of W: the points of the difference lie in the piece,
\* its ends included, so that the pieces also have to meet.  W falls strictly to the end of
\* the support and is zero, like its slope, beyond it.
SplinesSmooth ==
    sample.about = "point" =>
        LET k == sample.k
            n == sample.n
            f(i) == W(k, i, Fine)
            atEnd == supportRadius(k) * Fine
        IN  /\ n % Fine \in 3 .. Fine - 3 => slope(f, n) = 60 * dWdr(k, n, Fine)
            /\ n < atEnd => f(n) > f(n + 1) /\ f(n + 1) >= 0
            /\ n >= atEnd => f(n) = 0
            /\ (n = 0 \/ n >= atEnd) <=> dWdr(k, n, Fine) = 0
            /\ dWdr(k, n, Fine) <= 0

\* Closed Newton-Cotes weights for seven points, exact to degree seven, in units of 1/840.
Weights == <<41, 216, 27, 272, 27, 216, 41>>

\* Primes whose product exceeds both sides of the equation below, each below 2^15.5.
Primes == {46337, 46327, 46309}

\* The integral of r^(dim-1) W over the support, in units of Coarse, modulo p.
integral(k, dim, p) ==
    LET weight(i) == IF i % Coarse = 0 /\ i > 0 /\ i < supportRadius(k) * Coarse THEN 2 * Weights[1]
                     ELSE Weights[(i % Coarse) + 1]
        power(i) == IF dim = 1 THEN 1 ELSE i^(dim - 1)
        term(i) == ((W(k, i, Coarse) % p) * ((weight(i) * power(i)) % p)) % p
        upTo[i \in -1 .. supportRadius(k) * Coarse] == IF i < 0 THEN 0 ELSE (upTo[i - 1] + term(i)) % p
    IN  upTo[supportRadius(k) * Coarse]

\* The surface of the unit sphere: 2, 2 pi, 4 pi.
sphere == <<2, 2, 4>>

\* A particle's mass is all its kernel spreads: sigma times the integral of W over space is
\* one, whatever the dimension.
KernelsNormalised ==
    sample.about = "integral" =>
        LET k == sample.k
            d == sample.dim
            s == norm(k, d)
            unit == IF k = "cubic" THEN 4 * Coarse^3 ELSE Coarse^5
        IN  /\ s[3] = (IF d = 1 THEN 0 ELSE 1)
            /\ \A p \in Primes :
                 (sphere[d] * s[1] * integral(k, d, p)) % p
                    = (((840 * s[2]) % p) * ((unit * Coarse^(d - 1)) % p)) % p

\* Two particles that act on each other keep their momentum and their energy, kinetic and
\* internal, whatever their smoothing lengths, and are pushed apart; the scalar form of the
\* gradient the forces use is the vector gradient.
PairsConserve ==
    sample.about = "pair" =>
        LET k == sample.k
            a == sample.p.own
            b == sample.p.nb
            r == sample.p.r
            v == between(a, b)
            fa == forceOn(k, a, b, r)
            fb == forceOn(k, b, a, r)
            vector(w) == [i \in DOMAIN w |-> whole_(w[i])]
            power(x, f) == times(whole_(x.mass), plus(dot(vector(x.vel), f.dvdt), f.dudt))
        IN  /\ \A i \in DOMAIN v :
                 plus(times(whole_(a.mass), fa.dvdt[i]), times(whole_(b.mass), fb.dvdt[i])) = <<0, 1>>
            /\ plus(power(a, fa), power(b, fb)) = <<0, 1>>
            /\ dot(vector(v), fa.dvdt)[1] >= 0
            /\ gradW(k, v, r, a.h) = [i \in DOMAIN v |-> times(gradWScalar(k, r, a.h, Len(v)), whole_(v[i]))]

ForcesConserve == SplinesSmooth /\ KernelsNormalised /\ PairsConserve
=============================================================================
