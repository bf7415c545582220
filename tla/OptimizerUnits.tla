--------------------------- MODULE OptimizerUnits ---------------------------
(***************************************************************************)
(* Units as the passes up to Mem2Reg and the MirSimplifyCFG after it leave *)
(* them, each with the program it was made from.                           *)
(***************************************************************************)
EXTENDS UnitSyntax

(*
  int main(){ int a=getint(); int b=3; int c=b*2; int i=0; int j=0; int k;
   if(b>2) k=c; else k=a;
   if(a<c) j=6; else j=k;
   while(i<a){ if(c==6) putint(j); else c=c-1; i=i+j-5; }
   return k-c+i; }
*)
ConstantsUnit ==
  Unit(<<"main">>, <<
    FunctionOf(<<>>, NoBytes, {},
      <<<<Get(1), Op("mul", 2, Const(3), Const(2)), Op("gt", 3, Const(3), Const(2)),
          If(Reg(3), 2, 3)>>,
        <<Go(3)>>,
        <<Phi(4, <<<<Reg(2), 2>>, <<Reg(1), 1>>>>), Op("lt", 5, Reg(1), Reg(2)),
          If(Reg(5), 4, 5)>>,
        <<Go(5)>>,
        <<Phi(6, <<<<Const(6), 4>>, <<Reg(6), 9>>, <<Reg(4), 3>>>>),
          Phi(7, <<<<Const(0), 4>>, <<Reg(14), 9>>, <<Const(0), 3>>>>),
          Phi(8, <<<<Reg(2), 4>>, <<Reg(12), 9>>, <<Reg(2), 3>>>>),
          Op("lt", 9, Reg(7), Reg(1)), If(Reg(9), 6, 10)>>,
        <<Op("eq", 10, Reg(8), Const(6)), If(Reg(10), 8, 7)>>,
        <<Op("sub", 11, Reg(8), Const(1)), Go(9)>>,
        <<Put(Reg(6)), Go(9)>>,
        <<Phi(12, <<<<Reg(8), 8>>, <<Reg(11), 7>>>>), Op("add", 13, Reg(7), Reg(6)),
          Op("sub", 14, Reg(13), Const(5)), Go(5)>>,
        <<Op("sub", 15, Reg(4), Reg(8)), Op("add", 16, Reg(15), Reg(7)), Return(Reg(16))>>>>)>>,
    NoGlobals)

(*
  int g;
  int twice(int x){ int y=x; if(x>2) y=x+x; return y-1; }
  void set(int x){ g=x; putint(x); }
  int count(int n){ if(n<1) return 0; return 1+count(n-1);}
  int unused(int x){ return twice(x);}
  int noret(int x){ g=x; return x*3; }
  int main(){ int n=getint(); noret(n); set(n+1); putint(twice(n)+twice(g)); return count(n); }
*)
CallsUnit ==
  Unit(<<"twice", "set", "count", "unused", "noret", "main">>, <<
    FunctionOf(<<1>>, NoBytes, {},
      <<<<Op("gt", 2, Reg(1), Const(2)), If(Reg(2), 2, 3)>>,
        <<Op("add", 3, Reg(1), Reg(1)), Go(3)>>,
        <<Phi(4, <<<<Reg(1), 1>>, <<Reg(3), 2>>>>), Op("sub", 5, Reg(4), Const(1)),
          Return(Reg(5))>>>>),
    FunctionOf(<<1>>, NoBytes, {},
      <<<<Store(Reg(1), Global("g")), Put(Reg(1)), Leave>>>>),
    FunctionOf(<<1>>, NoBytes, {},
      <<<<Op("lt", 2, Reg(1), Const(1)), If(Reg(2), 3, 2)>>,
        <<Op("sub", 3, Reg(1), Const(1)), Call(4, "count", <<Reg(3)>>),
          Op("add", 5, Const(1), Reg(4)), Return(Reg(5))>>,
        <<Return(Const(0))>>>>),
    FunctionOf(<<1>>, NoBytes, {},
      <<<<Call(2, "twice", <<Reg(1)>>), Return(Reg(2))>>>>),
    FunctionOf(<<1>>, NoBytes, {},
      <<<<Store(Reg(1), Global("g")), Op("mul", 2, Reg(1), Const(3)), Return(Reg(2))>>>>),
    FunctionOf(<<>>, NoBytes, {},
      <<<<Get(1), Call(2, "noret", <<Reg(1)>>), Op("add", 3, Reg(1), Const(1)),
          Call(0, "set", <<Reg(3)>>), Call(4, "twice", <<Reg(1)>>), Load(5, Global("g")),
          Call(6, "twice", <<Reg(5)>>), Op("add", 7, Reg(4), Reg(6)), Put(Reg(7)),
          Call(8, "count", <<Reg(1)>>), Return(Reg(8))>>>>)>>,
    ("g" :> <<0>>))

(*
  int a[4];
  int main(){ int n=getint(); int m=n*2; int i=0; int s=0; int t=1;
   if(n>1) t=m;
   while(i<n){ int j=0; while(j<2){ s=s+n*m+t; a[j]=s; j=j+1; } i=i+1; if(s>50) break;
   if(i==1) continue; putint(s); }
   return s+a[1]; }
*)
NestedUnit ==
  Unit(<<"main">>, <<
    FunctionOf(<<>>, NoBytes, {},
      <<<<Get(1), Op("mul", 2, Reg(1), Const(2)), Op("gt", 3, Reg(1), Const(1)),
          If(Reg(3), 2, 3)>>,
        <<Go(3)>>,
        <<Phi(4, <<<<Const(0), 1>>, <<Reg(9), 7>>, <<Reg(9), 8>>, <<Const(0), 2>>>>),
          Phi(5, <<<<Const(1), 1>>, <<Reg(5), 7>>, <<Reg(5), 8>>, <<Reg(2), 2>>>>),
          Phi(6, <<<<Const(0), 1>>, <<Reg(10), 7>>, <<Reg(10), 8>>, <<Const(0), 2>>>>),
          Phi(7, <<<<Const(0), 1>>, <<Reg(17), 7>>, <<Reg(17), 8>>, <<Const(0), 2>>>>),
          Op("lt", 8, Reg(7), Reg(1)), If(Reg(8), 4, 9)>>,
        <<Phi(9, <<<<Const(0), 3>>, <<Reg(16), 5>>>>),
          Phi(10, <<<<Reg(6), 3>>, <<Reg(14), 5>>>>), Op("lt", 11, Reg(9), Const(2)),
          If(Reg(11), 5, 6)>>,
        <<Op("mul", 12, Reg(1), Reg(2)), Op("add", 13, Reg(10), Reg(12)),
          Op("add", 14, Reg(13), Reg(5)),
          Gep(15, Global("a"), <<Const(0), Reg(9)>>, <<16, 4>>), Store(Reg(14), Reg(15)),
          Op("add", 16, Reg(9), Const(1)), Go(4)>>,
        <<Op("add", 17, Reg(7), Const(1)), Op("gt", 18, Reg(10), Const(50)),
          If(Reg(18), 9, 7)>>,
        <<Op("eq", 19, Reg(17), Const(1)), If(Reg(19), 3, 8)>>,
        <<Put(Reg(10)), Go(3)>>,
        <<Phi(20, <<<<Reg(9), 6>>, <<Reg(4), 3>>>>),
          Phi(21, <<<<Reg(10), 6>>, <<Reg(6), 3>>>>),
          Phi(22, <<<<Reg(17), 6>>, <<Reg(7), 3>>>>),
          Gep(23, Global("a"), <<Const(0), Const(1)>>, <<16, 4>>), Load(24, Reg(23)),
          Op("add", 25, Reg(21), Reg(24)), Return(Reg(25))>>>>)>>,
    ("a" :> <<0, 0, 0, 0>>))

(*
  int b[2][2];
  int sum(int v[], int n){ int s=0; int i=0; while(i<n){ s=s+v[i]; i=i+1;} v[0]=s; return s; }
  int main(){ int a[3]; int n=getint(); a[0]=n; a[1]=5; a[2]=a[0]; b[1][0]=n; b[1][1]=a[2];
   b[1][0]=7;
   putint(sum(a,3)); putint(b[1][0]); putint(sum(b[1],2)); return a[0]; }
*)
ArraysUnit ==
  Unit(<<"sum", "main">>, <<
    FunctionOf(<<1, 2>>, (3 :> 4), {1, 3},
      <<<<Alloca(3), Store(Reg(1), Reg(3)), Go(2)>>,
        <<Phi(4, <<<<Const(0), 1>>, <<Reg(11), 3>>>>),
          Phi(5, <<<<Const(0), 1>>, <<Reg(10), 3>>>>), Op("lt", 6, Reg(4), Reg(2)),
          If(Reg(6), 3, 4)>>,
        <<Load(7, Reg(3)), Gep(8, Reg(7), <<Reg(4)>>, <<4>>), Load(9, Reg(8)),
          Op("add", 10, Reg(5), Reg(9)), Op("add", 11, Reg(4), Const(1)), Go(2)>>,
        <<Load(12, Reg(3)), Gep(13, Reg(12), <<Const(0)>>, <<4>>), Store(Reg(5), Reg(13)),
          Return(Reg(5))>>>>),
    FunctionOf(<<>>, (1 :> 12), {},
      <<<<Alloca(1), Get(2), Gep(3, Reg(1), <<Const(0), Const(0)>>, <<12, 4>>),
          Store(Reg(2), Reg(3)), Gep(4, Reg(1), <<Const(0), Const(1)>>, <<12, 4>>),
          Store(Const(5), Reg(4)), Gep(5, Reg(1), <<Const(0), Const(2)>>, <<12, 4>>),
          Gep(6, Reg(1), <<Const(0), Const(0)>>, <<12, 4>>), Load(7, Reg(6)),
          Store(Reg(7), Reg(5)),
          Gep(8, Global("b"), <<Const(0), Const(1), Const(0)>>, <<16, 8, 4>>),
          Store(Reg(2), Reg(8)),
          Gep(9, Global("b"), <<Const(0), Const(1), Const(1)>>, <<16, 8, 4>>),
          Gep(10, Reg(1), <<Const(0), Const(2)>>, <<12, 4>>), Load(11, Reg(10)),
          Store(Reg(11), Reg(9)),
          Gep(12, Global("b"), <<Const(0), Const(1), Const(0)>>, <<16, 8, 4>>),
          Store(Const(7), Reg(12)), Gep(13, Reg(1), <<Const(0), Const(0)>>, <<12, 4>>),
          Call(14, "sum", <<Reg(13), Const(3)>>), Put(Reg(14)),
          Gep(15, Global("b"), <<Const(0), Const(1), Const(0)>>, <<16, 8, 4>>),
          Load(16, Reg(15)), Put(Reg(16)),
          Gep(17, Global("b"), <<Const(0), Const(1)>>, <<16, 8>>),
          Gep(18, Reg(17), <<Const(0), Const(0)>>, <<8, 4>>),
          Call(19, "sum", <<Reg(18), Const(2)>>), Put(Reg(19)),
          Gep(20, Reg(1), <<Const(0), Const(0)>>, <<12, 4>>), Load(21, Reg(20)),
          Return(Reg(21))>>>>)>>,
    ("b" :> <<0, 0, 0, 0>>))

(*
  int main(){ int n=getint(); int x=n+n+n; int y=(n+1)+2; int z=n*2*3; int w=(n*0)+y;
   int v=n*1; int u=0+v;
   putint(x); putint(z); putint(w+u); putint(n%4); putint(n/4); putint(n/(-2)); putint(n*8);
   putint((n*3)+x); putint(n%3); putint(n/3); putint(x+x+n);
   return u*y+w; }
*)
AlgebraUnit ==
  Unit(<<"main">>, <<
    FunctionOf(<<>>, NoBytes, {},
      <<<<Get(1), Op("add", 2, Reg(1), Reg(1)), Op("add", 3, Reg(2), Reg(1)),
          Op("add", 4, Reg(1), Const(1)), Op("add", 5, Reg(4), Const(2)),
          Op("mul", 6, Reg(1), Const(2)), Op("mul", 7, Reg(6), Const(3)),
          Op("mul", 8, Reg(1), Const(0)), Op("add", 9, Reg(8), Reg(5)),
          Op("mul", 10, Reg(1), Const(1)), Op("add", 11, Const(0), Reg(10)), Put(Reg(3)),
          Put(Reg(7)), Op("add", 12, Reg(9), Reg(11)), Put(Reg(12)),
          Op("rem", 13, Reg(1), Const(4)), Put(Reg(13)), Op("div", 14, Reg(1), Const(4)),
          Put(Reg(14)), Op("sub", 15, Const(0), Const(2)), Op("div", 16, Reg(1), Reg(15)),
          Put(Reg(16)), Op("mul", 17, Reg(1), Const(8)), Put(Reg(17)),
          Op("mul", 18, Reg(1), Const(3)), Op("add", 19, Reg(18), Reg(3)), Put(Reg(19)),
          Op("rem", 20, Reg(1), Const(3)), Put(Reg(20)), Op("div", 21, Reg(1), Const(3)),
          Put(Reg(21)), Op("add", 22, Reg(3), Reg(3)), Op("add", 23, Reg(22), Reg(1)),
          Put(Reg(23)), Op("mul", 24, Reg(11), Reg(5)), Op("add", 25, Reg(24), Reg(9)),
          Return(Reg(25))>>>>)>>,
    NoGlobals)

(*
  int main(){ int n=getint(); int m=getint(); int a=n*m; int b=m*n; int c=a-n; int d; int r=0;
   if(n<m){ d=b-n; int e=(n*m)-n; r=d+e; } else { d=n-b; r=c; }
   int t=(a+n)*(m+n); int q=(n+a)*(n+m);
   putint(t-q); putint(a*n+b*n); return r+d; }
*)
SameUnit ==
  Unit(<<"main">>, <<
    FunctionOf(<<>>, NoBytes, {},
      <<<<Get(1), Get(2), Op("mul", 3, Reg(1), Reg(2)), Op("mul", 4, Reg(2), Reg(1)),
          Op("sub", 5, Reg(3), Reg(1)), Op("lt", 6, Reg(1), Reg(2)), If(Reg(6), 3, 2)>>,
        <<Op("sub", 7, Reg(1), Reg(4)), Go(4)>>,
        <<Op("sub", 8, Reg(4), Reg(1)), Op("mul", 9, Reg(1), Reg(2)),
          Op("sub", 10, Reg(9), Reg(1)), Op("add", 11, Reg(8), Reg(10)), Go(4)>>,
        <<Phi(12, <<<<Reg(10), 3>>, <<Const(0), 2>>>>),
          Phi(13, <<<<Reg(11), 3>>, <<Reg(5), 2>>>>),
          Phi(14, <<<<Reg(8), 3>>, <<Reg(7), 2>>>>), Op("add", 15, Reg(3), Reg(1)),
          Op("add", 16, Reg(2), Reg(1)), Op("mul", 17, Reg(15), Reg(16)),
          Op("add", 18, Reg(1), Reg(3)), Op("add", 19, Reg(1), Reg(2)),
          Op("mul", 20, Reg(18), Reg(19)), Op("sub", 21, Reg(17), Reg(20)), Put(Reg(21)),
          Op("mul", 22, Reg(3), Reg(1)), Op("mul", 23, Reg(4), Reg(1)),
          Op("add", 24, Reg(22), Reg(23)), Put(Reg(24)), Op("add", 25, Reg(13), Reg(14)),
          Return(Reg(25))>>>>)>>,
    NoGlobals)

(*
  int g;
  int main(){ int n=getint(); int i=0; int s=0; while(i<4){ i=i+1; if(i==2) continue;
   if(s>n && n!=1) break; s=s+i*n; g=s; } putint(g); if(n>0||s>5) putint(s); return i; }
*)
JumpsUnit ==
  Unit(<<"main">>, <<
    FunctionOf(<<>>, NoBytes, {},
      <<<<Get(1), Go(2)>>,
        <<Phi(2, <<<<Const(0), 1>>, <<Reg(2), 3>>, <<Reg(10), 6>>>>),
          Phi(3, <<<<Const(0), 1>>, <<Reg(5), 3>>, <<Reg(5), 6>>>>),
          Op("lt", 4, Reg(3), Const(4)), If(Reg(4), 3, 7)>>,
        <<Op("add", 5, Reg(3), Const(1)), Op("eq", 6, Reg(5), Const(2)), If(Reg(6), 2, 4)>>,
        <<Op("gt", 7, Reg(2), Reg(1)), If(Reg(7), 5, 6)>>,
        <<Op("ne", 8, Reg(1), Const(1)), If(Reg(8), 7, 6)>>,
        <<Op("mul", 9, Reg(5), Reg(1)), Op("add", 10, Reg(2), Reg(9)),
          Store(Reg(10), Global("g")), Go(2)>>,
        <<Phi(11, <<<<Reg(5), 5>>, <<Reg(3), 2>>>>), Load(12, Global("g")), Put(Reg(12)),
          Op("gt", 13, Reg(1), Const(0)), If(Reg(13), 9, 8)>>,
        <<Op("gt", 14, Reg(2), Const(5)), If(Reg(14), 9, 10)>>,
        <<Put(Reg(2)), Go(10)>>,
        <<Return(Reg(11))>>>>)>>,
    ("g" :> <<0>>))

(*
  int g=1;
  int fact(int n){ if(n<2) return 1; return n*fact(n-1); }
  int twice(int n){ return n+n; }
  void note(int n){ g=g+n; }
  int unused(int n){ return n; }
  int main(){ int n=getint(); int k=twice(n); note(k); note(twice(k)); fact(3);
   putint(fact(k%4)); putint(g); int m=getint(); return m; }
*)
RecursionUnit ==
  Unit(<<"fact", "twice", "note", "unused", "main">>, <<
    FunctionOf(<<1>>, NoBytes, {},
      <<<<Op("lt", 2, Reg(1), Const(2)), If(Reg(2), 3, 2)>>,
        <<Op("sub", 3, Reg(1), Const(1)), Call(4, "fact", <<Reg(3)>>),
          Op("mul", 5, Reg(1), Reg(4)), Return(Reg(5))>>,
        <<Return(Const(1))>>>>),
    FunctionOf(<<1>>, NoBytes, {},
      <<<<Op("add", 2, Reg(1), Reg(1)), Return(Reg(2))>>>>),
    FunctionOf(<<1>>, NoBytes, {},
      <<<<Load(2, Global("g")), Op("add", 3, Reg(2), Reg(1)), Store(Reg(3), Global("g")),
          Leave>>>>),
    FunctionOf(<<1>>, NoBytes, {},
      <<<<Return(Reg(1))>>>>),
    FunctionOf(<<>>, NoBytes, {},
      <<<<Get(1), Call(2, "twice", <<Reg(1)>>), Call(0, "note", <<Reg(2)>>),
          Call(3, "twice", <<Reg(2)>>), Call(0, "note", <<Reg(3)>>),
          Call(4, "fact", <<Const(3)>>), Op("rem", 5, Reg(2), Const(4)),
          Call(6, "fact", <<Reg(5)>>), Put(Reg(6)), Load(7, Global("g")), Put(Reg(7)), Get(8),
          Return(Reg(8))>>>>)>>,
    ("g" :> <<1>>))

(*
  int h[3];
  int main(){ int a[4]; int n=getint(); a[0]=n; a[0]=n+1; a[1]=a[0]; a[1]=3; h[1]=n;
   int x=h[1]; h[2]=x; putint(h[1]+x); a[2]=a[1]; if(n>1){ a[3]=a[2]; putint(a[3]);
   } putint(a[2]+a[1]); return h[2]; }
*)
StoresUnit ==
  Unit(<<"main">>, <<
    FunctionOf(<<>>, (1 :> 16), {},
      <<<<Alloca(1), Get(2), Gep(3, Reg(1), <<Const(0), Const(0)>>, <<16, 4>>),
          Store(Reg(2), Reg(3)), Gep(4, Reg(1), <<Const(0), Const(0)>>, <<16, 4>>),
          Op("add", 5, Reg(2), Const(1)), Store(Reg(5), Reg(4)),
          Gep(6, Reg(1), <<Const(0), Const(1)>>, <<16, 4>>),
          Gep(7, Reg(1), <<Const(0), Const(0)>>, <<16, 4>>), Load(8, Reg(7)),
          Store(Reg(8), Reg(6)), Gep(9, Reg(1), <<Const(0), Const(1)>>, <<16, 4>>),
          Store(Const(3), Reg(9)), Gep(10, Global("h"), <<Const(0), Const(1)>>, <<12, 4>>),
          Store(Reg(2), Reg(10)), Gep(11, Global("h"), <<Const(0), Const(1)>>, <<12, 4>>),
          Load(12, Reg(11)), Gep(13, Global("h"), <<Const(0), Const(2)>>, <<12, 4>>),
          Store(Reg(12), Reg(13)), Gep(14, Global("h"), <<Const(0), Const(1)>>, <<12, 4>>),
          Load(15, Reg(14)), Op("add", 16, Reg(15), Reg(12)), Put(Reg(16)),
          Gep(17, Reg(1), <<Const(0), Const(2)>>, <<16, 4>>),
          Gep(18, Reg(1), <<Const(0), Const(1)>>, <<16, 4>>), Load(19, Reg(18)),
          Store(Reg(19), Reg(17)), Op("gt", 20, Reg(2), Const(1)), If(Reg(20), 2, 3)>>,
        <<Gep(21, Reg(1), <<Const(0), Const(3)>>, <<16, 4>>),
          Gep(22, Reg(1), <<Const(0), Const(2)>>, <<16, 4>>), Load(23, Reg(22)),
          Store(Reg(23), Reg(21)), Gep(24, Reg(1), <<Const(0), Const(3)>>, <<16, 4>>),
          Load(25, Reg(24)), Put(Reg(25)), Go(3)>>,
        <<Gep(26, Reg(1), <<Const(0), Const(2)>>, <<16, 4>>), Load(27, Reg(26)),
          Gep(28, Reg(1), <<Const(0), Const(1)>>, <<16, 4>>), Load(29, Reg(28)),
          Op("add", 30, Reg(27), Reg(29)), Put(Reg(30)),
          Gep(31, Global("h"), <<Const(0), Const(2)>>, <<12, 4>>), Load(32, Reg(31)),
          Return(Reg(32))>>>>)>>,
    ("h" :> <<0, 0, 0>>))

(*
  int main(){ int n=getint(); int m=getint(); int s=n*m; int t; if(n<m){ t=n*m+m*n;
   if(m>3) t=t+n*m; else t=t-n*m; } else { t=m*n-(n-m); } int u=n+m; putint(t+u); putint(m+n);
   putint(t); int i=0; while(i<3){ putint(i*4+s%5+n*m); i=i+1; } return n-m; }
*)
DominanceUnit ==
  Unit(<<"main">>, <<
    FunctionOf(<<>>, NoBytes, {},
      <<<<Get(1), Get(2), Op("mul", 3, Reg(1), Reg(2)), Op("lt", 4, Reg(1), Reg(2)),
          If(Reg(4), 3, 2)>>,
        <<Op("mul", 5, Reg(2), Reg(1)), Op("sub", 6, Reg(1), Reg(2)),
          Op("sub", 7, Reg(5), Reg(6)), Go(6)>>,
        <<Op("mul", 8, Reg(1), Reg(2)), Op("mul", 9, Reg(2), Reg(1)),
          Op("add", 10, Reg(8), Reg(9)), Op("gt", 11, Reg(2), Const(3)), If(Reg(11), 5, 4)>>,
        <<Op("mul", 12, Reg(1), Reg(2)), Op("sub", 13, Reg(10), Reg(12)), Go(6)>>,
        <<Op("mul", 14, Reg(1), Reg(2)), Op("add", 15, Reg(10), Reg(14)), Go(6)>>,
        <<Phi(16, <<<<Reg(15), 5>>, <<Reg(13), 4>>, <<Reg(7), 2>>>>),
          Op("add", 17, Reg(1), Reg(2)), Op("add", 18, Reg(16), Reg(17)), Put(Reg(18)),
          Op("add", 19, Reg(2), Reg(1)), Put(Reg(19)), Put(Reg(16)), Go(7)>>,
        <<Phi(20, <<<<Const(0), 6>>, <<Reg(27), 8>>>>), Op("lt", 21, Reg(20), Const(3)),
          If(Reg(21), 8, 9)>>,
        <<Op("mul", 22, Reg(20), Const(4)), Op("rem", 23, Reg(3), Const(5)),
          Op("add", 24, Reg(22), Reg(23)), Op("mul", 25, Reg(1), Reg(2)),
          Op("add", 26, Reg(24), Reg(25)), Put(Reg(26)), Op("add", 27, Reg(20), Const(1)),
          Go(7)>>,
        <<Op("sub", 28, Reg(1), Reg(2)), Return(Reg(28))>>>>)>>,
    NoGlobals)

(*
  int main(){ int n=getint(); int m=getint(); int i=0; int s=0; while(i<2){ int k=0; int p=n+m;
   while(k<2){ s=s+n*m+i*m; k=k+1; } i=i+1; s=s+p; } putint(s); return 0; }
*)
LoopsUnit ==
  Unit(<<"main">>, <<
    FunctionOf(<<>>, NoBytes, {},
      <<<<Get(1), Get(2), Go(2)>>,
        <<Phi(3, <<<<Const(0), 1>>, <<Reg(8), 6>>>>),
          Phi(4, <<<<Const(0), 1>>, <<Reg(9), 6>>>>),
          Phi(5, <<<<Const(0), 1>>, <<Reg(18), 6>>>>),
          Phi(6, <<<<Const(0), 1>>, <<Reg(17), 6>>>>), Op("lt", 7, Reg(6), Const(2)),
          If(Reg(7), 3, 7)>>,
        <<Op("add", 8, Reg(1), Reg(2)), Go(4)>>,
        <<Phi(9, <<<<Const(0), 3>>, <<Reg(16), 5>>>>),
          Phi(10, <<<<Reg(5), 3>>, <<Reg(15), 5>>>>), Op("lt", 11, Reg(9), Const(2)),
          If(Reg(11), 5, 6)>>,
        <<Op("mul", 12, Reg(1), Reg(2)), Op("add", 13, Reg(10), Reg(12)),
          Op("mul", 14, Reg(6), Reg(2)), Op("add", 15, Reg(13), Reg(14)),
          Op("add", 16, Reg(9), Const(1)), Go(4)>>,
        <<Op("add", 17, Reg(6), Const(1)), Op("add", 18, Reg(10), Reg(8)), Go(2)>>,
        <<Put(Reg(5)), Return(Const(0))>>>>)>>,
    NoGlobals)

(*
  int main(){ int n=getint(); int a=n*3; int b=a*2; putint(b); int c=n+5; int d=c-2; putint(d);
   int e=3-n; int f=e+1; putint(f*1); putint((n+n)*4); putint(n/1+0*n); putint(n*8/4%2);
   int m=getint(); putint(n*m+m); putint(m-n*m); if(!n) putint(1); if(n==m) return n*4-n;
   return 0; }
*)
TermsUnit ==
  Unit(<<"main">>, <<
    FunctionOf(<<>>, NoBytes, {},
      <<<<Get(1), Op("mul", 2, Reg(1), Const(3)), Op("mul", 3, Reg(2), Const(2)), Put(Reg(3)),
          Op("add", 4, Reg(1), Const(5)), Op("sub", 5, Reg(4), Const(2)), Put(Reg(5)),
          Op("sub", 6, Const(3), Reg(1)), Op("add", 7, Reg(6), Const(1)),
          Op("mul", 8, Reg(7), Const(1)), Put(Reg(8)), Op("add", 9, Reg(1), Reg(1)),
          Op("mul", 10, Reg(9), Const(4)), Put(Reg(10)), Op("div", 11, Reg(1), Const(1)),
          Op("mul", 12, Const(0), Reg(1)), Op("add", 13, Reg(11), Reg(12)), Put(Reg(13)),
          Op("mul", 14, Reg(1), Const(8)), Op("div", 15, Reg(14), Const(4)),
          Op("rem", 16, Reg(15), Const(2)), Put(Reg(16)), Get(17),
          Op("mul", 18, Reg(1), Reg(17)), Op("add", 19, Reg(18), Reg(17)), Put(Reg(19)),
          Op("mul", 20, Reg(1), Reg(17)), Op("sub", 21, Reg(17), Reg(20)), Put(Reg(21)),
          Op("eq", 22, Reg(1), Const(0)), If(Reg(22), 2, 3)>>,
        <<Put(Const(1)), Go(3)>>,
        <<Op("eq", 23, Reg(1), Reg(17)), If(Reg(23), 5, 4)>>,
        <<Return(Const(0))>>,
        <<Op("mul", 24, Reg(1), Const(4)), Op("sub", 25, Reg(24), Reg(1)),
          Return(Reg(25))>>>>)>>,
    NoGlobals)

(*
  int h[2];
  int twice(int x){ if(x>2) return x+x; return x; }
  void put(int v[], int i, int x){ v[i]=x; }
  int find(int v[], int x){ int i=0; while(i<2){ if(v[i]==x) return i; i=i+1; } return -1; }
  int main(){ int n=getint(); int a[2]; int i=0; int s=0; while(i<2){ s=s+twice(n+i);
   put(a,i,s); put(h,i,n); i=i+1; } if(n>1) s=find(a,s); else s=twice(find(h,n)); putint(s);
   putint(h[1]); return a[0]; }
*)
InLoopUnit ==
  Unit(<<"twice", "put", "find", "main">>, <<
    FunctionOf(<<1>>, NoBytes, {},
      <<<<Op("gt", 2, Reg(1), Const(2)), If(Reg(2), 3, 2)>>,
        <<Return(Reg(1))>>,
        <<Op("add", 3, Reg(1), Reg(1)), Return(Reg(3))>>>>),
    FunctionOf(<<1, 2, 3>>, (4 :> 4), {1, 4},
      <<<<Alloca(4), Store(Reg(1), Reg(4)), Load(5, Reg(4)), Gep(6, Reg(5), <<Reg(2)>>, <<4>>),
          Store(Reg(3), Reg(6)), Leave>>>>),
    FunctionOf(<<1, 2>>, (3 :> 4), {1, 3},
      <<<<Alloca(3), Store(Reg(1), Reg(3)), Go(2)>>,
        <<Phi(4, <<<<Const(0), 1>>, <<Reg(10), 4>>>>), Op("lt", 5, Reg(4), Const(2)),
          If(Reg(5), 3, 6)>>,
        <<Load(6, Reg(3)), Gep(7, Reg(6), <<Reg(4)>>, <<4>>), Load(8, Reg(7)),
          Op("eq", 9, Reg(8), Reg(2)), If(Reg(9), 5, 4)>>,
        <<Op("add", 10, Reg(4), Const(1)), Go(2)>>,
        <<Return(Reg(4))>>,
        <<Op("sub", 11, Const(0), Const(1)), Return(Reg(11))>>>>),
    FunctionOf(<<>>, (1 :> 8), {},
      <<<<Alloca(1), Get(2), Go(2)>>,
        <<Phi(3, <<<<Const(0), 1>>, <<Reg(8), 3>>>>),
          Phi(4, <<<<Const(0), 1>>, <<Reg(11), 3>>>>), Op("lt", 5, Reg(4), Const(2)),
          If(Reg(5), 3, 4)>>,
        <<Op("add", 6, Reg(2), Reg(4)), Call(7, "twice", <<Reg(6)>>),
          Op("add", 8, Reg(3), Reg(7)), Gep(9, Reg(1), <<Const(0), Const(0)>>, <<8, 4>>),
          Call(0, "put", <<Reg(9), Reg(4), Reg(8)>>),
          Gep(10, Global("h"), <<Const(0), Const(0)>>, <<8, 4>>),
          Call(0, "put", <<Reg(10), Reg(4), Reg(2)>>), Op("add", 11, Reg(4), Const(1)),
          Go(2)>>,
        <<Op("gt", 12, Reg(2), Const(1)), If(Reg(12), 6, 5)>>,
        <<Gep(13, Global("h"), <<Const(0), Const(0)>>, <<8, 4>>),
          Call(14, "find", <<Reg(13), Reg(2)>>), Call(15, "twice", <<Reg(14)>>), Go(7)>>,
        <<Gep(16, Reg(1), <<Const(0), Const(0)>>, <<8, 4>>),
          Call(17, "find", <<Reg(16), Reg(3)>>), Go(7)>>,
        <<Phi(18, <<<<Reg(17), 6>>, <<Reg(15), 5>>>>), Put(Reg(18)),
          Gep(19, Global("h"), <<Const(0), Const(1)>>, <<8, 4>>), Load(20, Reg(19)),
          Put(Reg(20)), Gep(21, Reg(1), <<Const(0), Const(0)>>, <<8, 4>>), Load(22, Reg(21)),
          Return(Reg(22))>>>>)>>,
    ("h" :> <<0, 0>>))

(*
  int pick(int x){ int y=5; if(getint()) y=x; return y; }
  int main(){ putint(pick(getint())); return 0; }
*)
PhiOfArgumentUnit ==
  Unit(<<"pick", "main">>, <<
    FunctionOf(<<1>>, NoBytes, {},
      <<<<Get(2), Op("ne", 3, Reg(2), Const(0)), If(Reg(3), 2, 3)>>,
        <<Go(3)>>,
        <<Phi(4, <<<<Const(5), 1>>, <<Reg(1), 2>>>>), Return(Reg(4))>>>>),
    FunctionOf(<<>>, NoBytes, {},
      <<<<Get(1), Call(2, "pick", <<Reg(1)>>), Put(Reg(2)), Return(Const(0))>>>>)>>,
    NoGlobals)

(*
  int main() {
    int x = getint() + 1;
    int g = 0;
    int f = 0;
    int i = 0;
    while (i < 3) {
      if (f) {
        int v = getint();
        if (x < 9) {
          if (x < 2) v = 5;
          putint(v);
        }
      }
      f = g;
      g = 1;
      i = i + 1;
    }
    return i;
  }
*)
StaleUnit ==
  Unit(<<"main">>, <<
    FunctionOf(<<>>, NoBytes, {},
      <<<<Get(1), Op("add", 2, Reg(1), Const(1)), Go(2)>>,
        <<Phi(3, <<<<Const(0), 1>>, <<Reg(13), 8>>>>),
          Phi(4, <<<<Const(0), 1>>, <<Reg(14), 8>>>>),
          Phi(5, <<<<Const(0), 1>>, <<Reg(6), 8>>>>),
          Phi(6, <<<<Const(0), 1>>, <<Const(1), 8>>>>), Op("lt", 7, Reg(4), Const(3)),
          If(Reg(7), 3, 9)>>,
        <<Op("ne", 8, Reg(5), Const(0)), If(Reg(8), 4, 8)>>,
        <<Get(9), Op("lt", 10, Reg(2), Const(9)), If(Reg(10), 5, 8)>>,
        <<Op("lt", 11, Reg(2), Const(2)), If(Reg(11), 6, 7)>>,
        <<Go(7)>>,
        <<Phi(12, <<<<Reg(9), 5>>, <<Const(5), 6>>>>), Put(Reg(12)), Go(8)>>,
        <<Phi(13, <<<<Reg(3), 3>>, <<Reg(9), 4>>, <<Reg(12), 7>>>>),
          Op("add", 14, Reg(4), Const(1)), Go(2)>>,
        <<Return(Reg(4))>>>>)>>,
    NoGlobals)
=============================================================================
